------------------------------ MODULE ChatLimit ------------------------------
(***************************************************************************)
(* The limit on chat messages (_check_rate_limit, routers/conversation.py  *)
(* and its callers) for one session: a counter in Redis, incremented and,  *)
(* when it was new, given its TTL.  A message that is not told its count,  *)
(* for want of Redis or of its reply, passes whatever the count is.        *)
(***************************************************************************)
EXTENDS Handles

CONSTANTS
    Chats,                  \* processes with a message of the session
    RATE_LIMIT_MESSAGES,
    MaxDeaths

ASSUME ChatAssumption ==
    Chats \subseteq Workers /\ RATE_LIMIT_MESSAGES \in Nat \ {0} /\ MaxDeaths \in Nat

VARIABLES
    chatCount, chatExpires, \* wv:ratelimit:{session}: its value, whether it has a TTL
    chatPc, count,          \* a message's step and the value INCR gave it
    passed,                 \* history: messages of this window that were told their count
                            \* and let through
    chatDeaths,
    stuck                   \* history: INCR made the counter and no EXPIRE followed

chatVars == <<chatCount, chatExpires, chatPc, count, passed, chatDeaths, stuck>>

Most == RATE_LIMIT_MESSAGES + 2

ChatType ==
    /\ chatCount \in 0..Most /\ passed \in 0..Most
    /\ {chatExpires, stuck} \subseteq BOOLEAN
    /\ chatPc \in [Chats -> {"idle", "expire", "decide"}]
    /\ count \in [Chats -> 0..Most] /\ chatDeaths \in 0..MaxDeaths

ChatInit ==
    /\ chatCount = 0 /\ chatExpires = FALSE /\ passed = 0 /\ stuck = FALSE
    /\ chatPc = [w \in Chats |-> "idle"] /\ count = [w \in Chats |-> 0] /\ chatDeaths = 0

Counted(w, point, n) ==
    chatPc' = [chatPc EXCEPT ![w] = point] /\ count' = [count EXCEPT ![w] = n]

(* Counts beyond the limit are not told apart.                             *)
OneMore(n) == IF n < Most THEN n + 1 ELSE Most

(* INCR.                                                                   *)
_check_rate_limit(w) ==
    /\ chatPc[w] = "idle" /\ Answered(w)
    /\ chatCount' = OneMore(chatCount)
    /\ Counted(w, IF chatCount = 0 THEN "expire" ELSE "decide", chatCount')
    /\ UNCHANGED <<chatExpires, passed, chatDeaths, stuck>>

(* EXPIRE of whatever counter is there; an error lets the message through. *)
limit_expire(w) ==
    /\ chatPc[w] = "expire"
    /\ IF Answered(w)
       THEN /\ chatExpires' = (chatExpires \/ chatCount > 0)
            /\ Counted(w, "decide", count[w]) /\ UNCHANGED <<passed, stuck>>
       ELSE /\ stuck' = TRUE /\ passed' = OneMore(passed)
            /\ Counted(w, "idle", 0) /\ UNCHANGED chatExpires
    /\ UNCHANGED <<chatCount, chatDeaths>>

(* INCR or EXPIRE is carried out and its reply lost: an error like any     *)
(* other, which lets the message through.                                  *)
limit_lost(w) ==
    /\ Answered(w)
    /\ \/ /\ chatPc[w] = "idle"
          /\ chatCount' = OneMore(chatCount)
          /\ stuck' = (stuck \/ chatCount = 0)
          /\ UNCHANGED <<chatExpires, chatPc, count, passed>>
       \/ /\ chatPc[w] = "expire"
          /\ chatExpires' = (chatExpires \/ chatCount > 0)
          /\ passed' = OneMore(passed)
          /\ Counted(w, "idle", 0)
          /\ UNCHANGED <<chatCount, stuck>>
    /\ UNCHANGED chatDeaths

(* Mutant of limit_decide: the comparison is off by one.                   *)
DecidesOneLate(w) ==
    /\ chatPc[w] = "decide"
    /\ passed' = IF count[w] <= RATE_LIMIT_MESSAGES + 1 THEN passed + 1 ELSE passed
    /\ Counted(w, "idle", 0)
    /\ UNCHANGED <<chatCount, chatExpires, chatDeaths, stuck>>

limit_decide(w) ==
    /\ chatPc[w] = "decide"
    /\ passed' = IF count[w] <= RATE_LIMIT_MESSAGES THEN passed + 1 ELSE passed
    /\ Counted(w, "idle", 0)
    /\ UNCHANGED <<chatCount, chatExpires, chatDeaths, stuck>>

(* The minute is over.  Messages counted in it are all decided by then.    *)
MinutePasses ==
    /\ chatExpires /\ \A w \in Chats : chatPc[w] = "idle"
    /\ chatCount' = 0 /\ chatExpires' = FALSE /\ passed' = 0
    /\ UNCHANGED <<chatPc, count, chatDeaths, stuck>>

ChatDies(w) ==
    /\ chatPc[w] # "idle" /\ chatDeaths < MaxDeaths
    /\ chatDeaths' = chatDeaths + 1
    /\ stuck' = (stuck \/ chatPc[w] = "expire")
    /\ Counted(w, "idle", 0)
    /\ UNCHANGED <<chatCount, chatExpires, passed>>

ChatNext ==
    /\ \/ \E w \in Chats : \/ _check_rate_limit(w) \/ limit_expire(w) \/ limit_decide(w)
                           \/ limit_lost(w) \/ ChatDies(w)
       \/ MinutePasses
    /\ UNCHANGED handleVars

(***************************************************************************)
(* Of the messages of a minute that are told their count no more than the  *)
(* limit pass, however they overlap, processes die and Redis fails, and    *)
(* though others pass uncounted or untold ("fails open", routers/          *)
(* conversation.py:266); and a session is refused for good only if a       *)
(* process died, or the reply or Redis was lost, between INCR and EXPIRE:  *)
(* any other counter over the limit goes with its minute (279-285).        *)
(***************************************************************************)
ChatLimitHolds ==
    /\ passed <= RATE_LIMIT_MESSAGES
    /\ ~stuck /\ chatCount > RATE_LIMIT_MESSAGES /\ (\A w \in Chats : chatPc[w] = "idle")
         => chatExpires
=============================================================================
