----------------------------- MODULE OtpSignIn -----------------------------
(***************************************************************************)
(* routers/auth.py for one phone number: sending a code under the hourly   *)
(* limit, and signing in with it, split at their awaits.  The limit is     *)
(* counted in Redis and, without Redis, in the rows of otp_codes; wrong    *)
(* attempts are counted in Redis alone.  Several requests for the number   *)
(* may run at once; reads in a row, and writes nothing else tells apart,   *)
(* are one step.                                                           *)
(***************************************************************************)
EXTENDS Handles

CONSTANTS
    Requesters,     \* processes with a request for the number
    SendLimit,      \* otp_rate_limit
    MaxAttempts,    \* otp_max_attempts
    MaxCodes        \* codes sent altogether

ASSUME OtpAssumption ==
    /\ SendLimit \in Nat \ {0} /\ MaxAttempts \in Nat \ {0} /\ MaxCodes \in Nat
    /\ Requesters \subseteq Workers

VARIABLES
    sends, sendsExpire, \* wv:otp:rate:{phone}: its value, whether it has a TTL
    attempts,       \* wv:otp:attempts:{phone}
    codes,          \* codes[c]: state of the c-th code's row
    recent,         \* rows created within the window
    account,        \* whether the users row exists
    otpPc, code, knew, \* a request's position; a verification's code, and whether it
                    \* found the user
    issued,         \* history: codes sent in this window
    signIns,        \* history: tokens issued for a code
    uneven,         \* history: sends overlapped, a store failed or a process died
                    \* in this window
    orphaned,       \* history: INCR was not followed by its EXPIRE
    doubted         \* history: codes two verifications held, or whose use was rolled back

otpVars == <<sends, sendsExpire, attempts, codes, recent, account, otpPc, code, knew,
             issued, signIns, uneven, orphaned, doubted>>
countVars == <<sends, sendsExpire, recent, issued, uneven, orphaned>>
verifyVars == <<attempts, code, knew, account, signIns, doubted>>

Codes == 1..MaxCodes
Sending == {"store", "register", "expire"}
Verifying == {"select", "flush", "persist", "bump", "finish"}

OtpType ==
    /\ sends \in 0..MaxCodes /\ attempts \in 0..MaxAttempts /\ recent \in 0..MaxCodes
    /\ issued \in 0..MaxCodes
    /\ {sendsExpire, account, uneven, orphaned} \subseteq BOOLEAN
    /\ codes \in [Codes -> {"unsent", "fresh", "used", "expired"}]
    /\ otpPc \in [Requesters -> {"idle"} \cup Sending \cup Verifying]
    /\ code \in [Requesters -> {0} \cup Codes] /\ knew \in [Requesters -> BOOLEAN]
    /\ signIns \in [Codes -> 0..2] /\ doubted \in SUBSET Codes

OtpInit ==
    /\ sends = 0 /\ sendsExpire = FALSE /\ attempts = 0 /\ recent = 0 /\ issued = 0
    /\ codes = [c \in Codes |-> "unsent"]
    /\ account \in BOOLEAN
    /\ otpPc = [w \in Requesters |-> "idle"]
    /\ code = [w \in Requesters |-> 0] /\ knew = [w \in Requesters |-> FALSE]
    /\ signIns = [c \in Codes |-> 0]
    /\ uneven = FALSE /\ orphaned = FALSE /\ doubted = {}

OtpAt(w, point) == otpPc[w] = point
Step(w, from, to) == OtpAt(w, from) /\ otpPc' = [otpPc EXCEPT ![w] = to]
(* The request is over, answered or failed.                                *)
Ends(w) == otpPc' = [otpPc EXCEPT ![w] = "idle"] /\ code' = [code EXCEPT ![w] = 0]
                                                /\ knew' = [knew EXCEPT ![w] = FALSE]

----------------------------------------------------------------------------
(* Sending.                                                                *)

(* Mutant of _recent_send_count: Redis is not asked.                       *)
CountsRowsOnly(w) == IF ~Answered(w) /\ Executes THEN recent ELSE 0

(* Redis, else the rows, else nothing to count by.                         *)
_recent_send_count(w) ==
    IF Answered(w) THEN sends ELSE IF Executes THEN recent ELSE 0

(* The history is kept up only as long as it is of use.                    *)
Counted_issues(n) == issued' = IF uneven' THEN 0 ELSE n
Sign_ins(now) == signIns' = [c \in Codes |-> IF c \in doubted' THEN 0 ELSE now[c]]

send_otp(w) ==
    /\ _recent_send_count(w) < SendLimit
    /\ Step(w, "idle", "store")
    /\ uneven' = (uneven \/ ~Answered(w)
                    \/ \E v \in Requesters \ {w} : otpPc[v] \in Sending)
    /\ Counted_issues(issued)
    /\ UNCHANGED <<sends, sendsExpire, recent, orphaned, codes, verifyVars>>

Unsent == {c \in Codes : codes[c] = "unsent"}
Next_code(c) == c \in Unsent /\ \A d \in Unsent : c <= d

send_store(w) ==
    /\ OtpAt(w, "store") /\ Unsent # {} /\ UNCHANGED uneven
    /\ IF Executes
       THEN /\ Step(w, "store", "register")
            /\ \E c \in Codes : Next_code(c) /\ codes' = [codes EXCEPT ![c] = "fresh"]
            /\ recent' = recent + 1 /\ Counted_issues(issued + 1)
       ELSE /\ Step(w, "store", "idle")
            /\ UNCHANGED <<codes, recent, issued>>
    /\ UNCHANGED <<sends, sendsExpire, orphaned, verifyVars>>

(* Old failures do not count against a new code.                           *)
_reset_attempts(w) == attempts' = IF Answered(w) THEN 0 ELSE attempts

(* INCR, and EXPIRE by whoever counted first; then the SMS.                *)
_register_send(w) ==
    /\ OtpAt(w, "register")
    /\ sends' = IF Answered(w) THEN sends + 1 ELSE sends
    /\ IF Answered(w) /\ sends = 0
       THEN Step(w, "register", "expire") /\ UNCHANGED attempts
       ELSE Step(w, "register", "idle") /\ _reset_attempts(w)
    /\ uneven' = (uneven \/ ~Answered(w)) /\ Counted_issues(issued)
    /\ UNCHANGED <<sendsExpire, recent, orphaned, codes, code, knew, account, signIns,
                   doubted>>

(* Mutant of _register_expire: no EXPIRE.                                  *)
RegisterUnexpired(w) ==
    /\ Step(w, "expire", "idle")
    /\ _reset_attempts(w)
    /\ UNCHANGED <<countVars, codes, code, knew, account, signIns, doubted>>

_register_expire(w) ==
    /\ Step(w, "expire", "idle")
    /\ sendsExpire' = (sendsExpire \/ (Answered(w) /\ sends > 0))
    /\ orphaned' = (orphaned \/ ~Answered(w))
    /\ _reset_attempts(w)
    /\ UNCHANGED <<sends, recent, issued, uneven, codes, code, knew, account, signIns, doubted>>

----------------------------------------------------------------------------
(* Verifying.                                                              *)

verify_otp(w) ==
    /\ (IF Answered(w) THEN attempts ELSE 0) < MaxAttempts
    /\ Step(w, "idle", "select")
    /\ UNCHANGED <<countVars, codes, verifyVars>>

(* Mutant of Fresh: used codes count.                                      *)
FreshOrUsed == {c \in Codes : codes[c] \in {"fresh", "used"}}

Fresh == {c \in Codes : codes[c] = "fresh"}
Newest_code(c) == c \in Fresh /\ \A d \in Fresh : c >= d

(* The newest unused, unexpired code, against what the pilgrim typed, and, *)
(* if that fits, the number's user.                                        *)
verify_select(w) ==
    /\ OtpAt(w, "select")
    /\ \/ (~Executes \/ Fresh = {}) /\ Ends(w) /\ UNCHANGED doubted
       \/ /\ Executes /\ Fresh # {}
          /\ Step(w, "select", "bump") /\ UNCHANGED <<code, knew, doubted>>
       \/ /\ Executes /\ Fresh # {}
          /\ Step(w, "select", "flush")
          /\ knew' = [knew EXCEPT ![w] = account]
          /\ \E c \in Codes :
               /\ Newest_code(c) /\ code' = [code EXCEPT ![w] = c]
               /\ doubted' = IF \E v \in Requesters : code[v] = c THEN doubted \cup {c}
                                                                  ELSE doubted
    /\ Sign_ins(signIns)
    /\ UNCHANGED <<countVars, codes, attempts, account>>

(* Nothing tells counts beyond the limit apart.                            *)
_bump_attempts(w) ==
    /\ Step(w, "bump", "idle")
    /\ attempts' = IF Answered(w) /\ attempts < MaxAttempts THEN attempts + 1
                                                            ELSE attempts
    /\ UNCHANGED <<countVars, codes, code, knew, account, signIns, doubted>>

(* The flush writes the code's and the user's rows, and waits for another  *)
(* transaction that has: the one that comes second still marks the code,   *)
(* but cannot insert a user that is there by now.                          *)
Holds(w, c) == code[w] = c /\ OtpAt(w, "persist")

verify_flush(w) ==
    /\ OtpAt(w, "flush")
    /\ ~\E v \in Requesters : Holds(v, code[w])
    /\ IF Executes /\ (knew[w] \/ ~account) THEN Step(w, "flush", "persist")
                                                 /\ UNCHANGED <<code, knew>>
                                            ELSE Ends(w)
    /\ UNCHANGED <<countVars, codes, attempts, account, signIns, doubted>>

(* get_or_create commits the session's row and with it the code and the    *)
(* user.  If that fails it is rolled back and swallowed: the session of a  *)
(* user who was known is inserted once more by ensure_row, the code stays  *)
(* unused; a new user is gone, and the refresh of it ends the request.     *)
verify_persist(w) ==
    /\ OtpAt(w, "persist")
    /\ IF Executes
       THEN /\ codes' = [codes EXCEPT ![code[w]] = "used"]
            /\ account' = TRUE
            /\ Step(w, "persist", "finish") /\ UNCHANGED <<code, knew, doubted>>
       ELSE /\ doubted' = doubted \cup {code[w]}
            /\ IF knew[w] THEN Step(w, "persist", "finish") /\ UNCHANGED <<code, knew>>
                          ELSE Ends(w)
            /\ UNCHANGED <<codes, account>>
    /\ Sign_ins(signIns)
    /\ UNCHANGED <<countVars, attempts>>

(* The closing commit and refresh, and the token.                          *)
verify_finish(w) ==
    /\ OtpAt(w, "finish")
    /\ UNCHANGED doubted
    /\ IF Executes
       THEN /\ Sign_ins([signIns EXCEPT ![code[w]] = IF @ < 2 THEN @ + 1 ELSE @])
            /\ _reset_attempts(w)
       ELSE UNCHANGED <<signIns, attempts>>
    /\ Ends(w)
    /\ UNCHANGED <<countVars, codes, account>>

----------------------------------------------------------------------------
CodeExpires ==
    /\ \E c \in Fresh : codes' = [codes EXCEPT ![c] = "expired"]
    /\ UNCHANGED <<countVars, otpPc, verifyVars>>

(* The hour passes: the rows leave the window, and the counter goes if it  *)
(* was given a TTL.                                                        *)
WindowPasses ==
    /\ recent > 0 /\ \A w \in Requesters : otpPc[w] \notin Sending
    /\ recent' = 0 /\ issued' = 0
    /\ sends' = IF sendsExpire THEN 0 ELSE sends
    /\ sendsExpire' = FALSE
    /\ uneven' = (sends' # 0)
    /\ UNCHANGED <<orphaned, codes, otpPc, verifyVars>>

(* Redis loses its keys.                                                   *)
CountersLost ==
    /\ sends + attempts > 0
    /\ sends' = 0 /\ sendsExpire' = FALSE /\ attempts' = 0
    /\ orphaned' = FALSE
    /\ uneven' = (uneven \/ issued > 0) /\ Counted_issues(issued)
    /\ UNCHANGED <<recent, codes, otpPc, code, knew, account, signIns, doubted>>

OtpDies(w) ==
    /\ ~OtpAt(w, "idle")
    /\ Ends(w)
    /\ orphaned' = (orphaned \/ OtpAt(w, "expire"))
    /\ uneven' = (uneven \/ otpPc[w] \in Sending) /\ Counted_issues(issued)
    /\ UNCHANGED <<sends, sendsExpire, recent, codes, attempts, account, signIns,
                   doubted>>

Requests(w) ==
    \/ send_otp(w) \/ send_store(w) \/ _register_send(w) \/ _register_expire(w)
    \/ verify_otp(w) \/ verify_select(w) \/ _bump_attempts(w) \/ verify_flush(w) \/ verify_persist(w) \/ verify_finish(w)

OtpNext ==
    /\ \/ \E w \in Requesters : Requests(w) \/ OtpDies(w)
       \/ CodeExpires \/ WindowPasses \/ CountersLost
    /\ UNCHANGED handleVars

(***************************************************************************)
(* No more codes go to a number in one window than the limit allows, as    *)
(* long as sends do not overlap and nothing fails between a code's row and *)
(* its count ("too many codes requested", auth.py:75-85).  uneven: two      *)
(* sends that both look before either counts, a count Redis does not take  *)
(* or loses, a window counted partly here and partly there.                *)
(***************************************************************************)
SendLimitHolds == ~uneven => issued <= SendLimit

(***************************************************************************)
(* The send counter outlives its window only if the process died, or Redis *)
(* failed, between INCR and EXPIRE: otherwise a number that reached the    *)
(* limit is free again after the hour (auth.py:301-304).                   *)
(***************************************************************************)
SendCounterExpires ==
    sends > 0 /\ ~sendsExpire => orphaned \/ \E w \in Requesters : OtpAt(w, "expire")

(***************************************************************************)
(* A code signs in once and is then used up ("test_used_code_cannot_be_    *)
(* replayed"), through any failure that does not hit the commit of its own *)
(* sign-in and any overlap but that of two sign-ins with the same code.    *)
(***************************************************************************)
CodeUsedOnce ==
    \A c \in Codes \ doubted :
        /\ signIns[c] <= 1
        /\ signIns[c] = 1 => codes[c] = "used"
=============================================================================
