----------------------------- MODULE Playground -----------------------------
(***************************************************************************)
(* PlaygroundPage: one prompt goes to several models at once, a request     *)
(* each, and their replies join the conversation when the last has ended.   *)
(***************************************************************************)
EXTENDS OperatorPages, Sequences

VARIABLE chat     \* what the playground keeps besides

FreshChat ==
    [messages |-> <<>>,      \* prompts, and the replies of the aliases in `by`
     picked |-> {},          \* selectedModelAliases
     tasks |-> {},           \* the requests of the prompts that are not folded yet
     abort |-> 0,            \* the prompt whose requests abortRef holds
     streaming |-> FALSE]

Prompts(messages) == {i \in DOMAIN messages : messages[i].by = {}}
Open(c, turn) == {t \in c.tasks : t.turn = turn /\ t.end = "open"}
Conversing(c) == At("playground") /\ chat' = c

\* The load of models and customers: the first model is picked.
PlaygroundLoaded(s) ==
    /\ Conversing(IF Ok(s) THEN [chat EXCEPT !.picked = {FirstSel}] ELSE chat)
    /\ Answered(s, {"load"})
    /\ Takes(s, Loaded(s, ui))

\* addModel and removeModel.
PickModels ==
    /\ ~chat.streaming /\ ui.for # {}
    /\ \E alias \in Sels :
         \/ alias \notin chat.picked /\ Conversing([chat EXCEPT !.picked = @ \cup {alias}])
         \/ /\ alias \in chat.picked /\ chat.picked # {alias}
            /\ Conversing([chat EXCEPT !.picked = @ \ {alias}])
    /\ Shows(ui)

\* clearConversation.
ClearConversation ==
    /\ ~chat.streaming /\ chat.messages # <<>>
    /\ Conversing([chat EXCEPT !.messages = <<>>])
    /\ Shows(ui)

\* The guard of send.
MaySend == ~chat.streaming /\ chat.picked # {}

\* send, up to its first await: a request to each model picked now.
Send ==
    LET turn == 1 + Cardinality(Prompts(chat.messages))
        places == {f \in [chat.picked -> Free(net)] :
                       \A a, b \in chat.picked : f[a] = f[b] => a = b}
        slot == CHOOSE f \in places : TRUE
        asks == {slot[a] : a \in chat.picked}
    IN
    /\ MaySend
    /\ places # {}
    /\ Conversing([chat EXCEPT
           !.messages = Append(@, [turn |-> turn, by |-> {}]),
           !.tasks = @ \cup {[turn |-> turn, alias |-> a, slot |-> slot[a], end |-> "open"] :
                             a \in chat.picked},
           !.abort = turn,
           !.streaming = TRUE])
    /\ net' = [s \in Slots |-> IF s \in asks THEN Request("stream", stored) ELSE net[s]]
    /\ excused' = (excused \/ Races(net'))
    /\ Keeping([ui EXCEPT !.waits = @ \cup asks, !.tags = @ \cup {user}])
    /\ Own

\* The rest of send, once no request of the prompt is open: the replies that ended well.
Folded(c, turn) ==
    LET mine == {t \in c.tasks : t.turn = turn}
        replies == {t.alias : t \in {t \in mine : t.end = "reply"}}
    IN  IF Open(c, turn) # {} THEN c
        ELSE [c EXCEPT !.messages = IF replies = {} THEN @
                                    ELSE Append(@, [turn |-> turn, by |-> replies]),
                       !.tasks = @ \ mine,
                       !.abort = 0,
                       !.streaming = FALSE]

Ended(c, t, end) == [c EXCEPT !.tasks = (@ \ {t}) \cup {[t EXCEPT !.end = end]}]

\* The end of streamOne; a stream may also end in an error event.
StreamEnded(s) ==
    /\ Answered(s, {"stream"})
    /\ \E t \in {t \in chat.tasks : t.slot = s /\ t.end = "open"},
          end \in IF Ok(s) THEN {"reply", "error"} ELSE {"error"} :
         Conversing(Folded(Ended(chat, t, end), t.turn))
    /\ Takes(s, ui)

\* stopStream: the requests are aborted, and send goes on at once.
StopStream ==
    /\ chat.streaming
    /\ LET open == Open(chat, chat.abort)
           slots == {t.slot : t \in open}
       IN
       /\ Conversing(Folded([chat EXCEPT
              !.streaming = FALSE,
              !.tasks = (@ \ open) \cup {[t EXCEPT !.end = "error"] : t \in open}], chat.abort))
       /\ net' = [s \in Slots |-> IF s \in slots THEN Idle ELSE net[s]]
       /\ Keeping([ui EXCEPT !.waits = @ \ slots])
    /\ Own
    /\ UNCHANGED excused

PlaygroundPage == PickModels \/ ClearConversation \/ Send \/ StopStream
PlaygroundAnswers(s) == PlaygroundLoaded(s) \/ StreamEnded(s)
=============================================================================
