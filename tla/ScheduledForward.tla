---------------------------- MODULE ScheduledForward ----------------------------
(***************************************************************************)
(* ScheduleForwardedMessage of internal/tdlib/tdApi.go and sentMessages,   *)
(* where updatesListener.go leaves every message that was sent, by its     *)
(* temporary id alone.  Those ids are unique within one chat.              *)
(*                                                                         *)
(* One call: to it another's messages are like any others that are sent.   *)
(***************************************************************************)
EXTENDS Integers, Sequences, FiniteSets, SequencesExt, FiniteSetsExt

CONSTANTS
    Targets,    \* the chats messages are sent to
    MaxSent     \* bound: messages sent to one chat

ASSUME SentAssumption == MaxSent \in Nat

VARIABLES
    next,           \* TDLib: how many messages were sent to a chat
    pending,        \* TDLib: messages on their way
    sentMessages,
    call            \* the call: its step, target, the ids to wait for and to look up, its answer

forwardVars == <<next, pending, sentMessages, call>>

NoTarget == "none"
NoCall == [step |-> "idle", target |-> NoTarget, want |-> {}, todo |-> {}, got |-> <<>>]

ForwardInit ==
    /\ next = [c \in Targets |-> 0] /\ pending = {}
    /\ sentMessages = {} /\ call = NoCall

\* TDLib gives the n messages ids and starts to send them.
Submit(c, n) ==
    /\ next[c] + n <= MaxSent
    /\ next' = [next EXCEPT ![c] = @ + n]
    /\ pending' = pending \union {[chat |-> c, id |-> i] : i \in next[c] + 1 .. next[c] + n}
    /\ UNCHANGED sentMessages

\* SendMessage, the custom routines, and the person's other apps: nobody waits for these.
SendMessage(c) == Submit(c, 1) /\ UNCHANGED call

\* TDLib's answer may hold null for a message it cannot forward; the loop that collects the ids
\* would panic on it, in whatever goroutine called.  The program has no caller yet: left out.
ForwardMessages(c, n) ==
    LET ids == next[c] + 1 .. next[c] + n
    IN  /\ call.step = "idle" /\ Submit(c, n)
        /\ call' = [step |-> "waits", target |-> c, want |-> ids, todo |-> ids, got |-> <<>>]

SendSucceeded(m) ==
    /\ m \in pending /\ pending' = pending \ {m}
    /\ sentMessages' = {s \in sentMessages : s.id # m.id} \union {m}
    /\ UNCHANGED <<next, call>>

\* Logged, and not in sentMessages.
SendFailed(m) ==
    /\ m \in pending /\ pending' = pending \ {m}
    /\ UNCHANGED <<next, sentMessages, call>>

\* The next of the ids is looked up; the call leaves what it does not drop.
Take(id, dropped) ==
    /\ call.step = "waits" /\ call.todo # {}
    /\ sentMessages' = sentMessages \ dropped
    /\ call' = [call EXCEPT !.todo = @ \ {id},
                            !.got = @ \o SetToSeq({s \in sentMessages : s.id = id})]
    /\ UNCHANGED <<next, pending>>

\* A faulty loop, without the Delete.
LookAndKeep == Take(Min(call.todo), {})

\* Load and Delete; all ids are looked up again every half a second.
Look == LET id == Min(call.todo) IN Take(id, {s \in sentMessages : s.id = id})

\* The wait is over when there are as many as were forwarded, or after five seconds, which
\* drops what was taken.
EndPass ==
    /\ call.step = "waits" /\ call.todo = {}
    /\ IF Len(call.got) = Cardinality(call.want)
       THEN call' = [call EXCEPT !.step = "returned"]
       ELSE call' \in {NoCall, [call EXCEPT !.todo = call.want]}
    /\ UNCHANGED <<next, pending, sentMessages>>

Forget == call.step = "returned" /\ call' = NoCall /\ UNCHANGED <<next, pending, sentMessages>>

ForwardStep ==
    \/ \E c \in Targets : SendMessage(c) \/ \E n \in 1 .. MaxSent : ForwardMessages(c, n)
    \/ \E m \in pending : SendSucceeded(m) \/ SendFailed(m)
    \/ Look \/ EndPass \/ Forget

-----------------------------------------------------------------------------
\* Ids come back in the order messages are sent, chats share ids, and the wait only counts: an
\* answer without a message of another chat has each forwarded message, and has it once.
ForwardIsWhole ==
    call.step = "returned" /\ (\A i \in DOMAIN call.got : call.got[i].chat = call.target) =>
        {call.got[i].id : i \in DOMAIN call.got} = call.want
=================================================================================
