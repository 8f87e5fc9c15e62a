------------------------------- MODULE Exchange -------------------------------
(***************************************************************************)
(* What an endpoint promises to a handler that is registered for the       *)
(* answers to a request (include/wpan/aps.h, wpan_response_fn): it is      *)
(* called only while its conversation is open, one call at a time; a       *)
(* timeout is its last call; and nothing but its own handler closes a      *)
(* conversation.                                                           *)
(***************************************************************************)
CONSTANTS
    Request,    \* requests of the application
    None        \* no call is in progress

VARIABLES
    life,       \* of each request: "new", "open" or "closed"
    call        \* the handler that runs, or None

vars == <<life, call>>

\* A call of the handler of a request; `last': it reports the end (WPAN_CONVERSATION_END).
Call == [of : Request, what : {"answer", "timeout"}, last : BOOLEAN]

Init ==
    /\ life = [r \in Request |-> "new"]
    /\ call = None

\* A request is made, from the main loop or from a handler.
Ask(r) ==
    /\ life[r] = "new"
    /\ life' = [life EXCEPT ![r] = "open"]
    /\ UNCHANGED call

\* The handler of an open conversation is called ...
Begin(c) ==
    /\ call = None
    /\ life[c.of] = "open"
    /\ call' = c
    /\ UNCHANGED life

\* ... it may close its conversation itself ...
Cancel ==
    /\ call # None
    /\ life' = [life EXCEPT ![call.of] = "closed"]
    /\ UNCHANGED call

\* ... and returns: the conversation goes on only if it said so.
Finish ==
    /\ call # None
    /\ life' = IF call.last \/ call.what = "timeout"
               THEN [life EXCEPT ![call.of] = "closed"] ELSE life
    /\ call' = None

\* A handler may call another handler's timeout next without coming back here:
\* the tick goes through the whole table.
FinishAndBegin(c) ==
    /\ call # None /\ call.what = "timeout" /\ c.what = "timeout"
    /\ c.of # call.of /\ life[c.of] = "open"
    /\ life' = [life EXCEPT ![call.of] = "closed"]
    /\ call' = c

Next ==
    \/ \E r \in Request : Ask(r)
    \/ \E c \in Call : Begin(c) \/ FinishAndBegin(c)
    \/ Cancel
    \/ Finish

Spec == Init /\ [][Next]_vars
=============================================================================
