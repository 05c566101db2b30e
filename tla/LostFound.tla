----------------------------- MODULE LostFound -----------------------------
(***************************************************************************)
(* Lost and found reports (routers/lost_found.py): a reference from the    *)
(* database's sequence, the row and its commit, the notice to the          *)
(* dashboard, the answer.  A report is the pilgrim's filing of it: a       *)
(* filing that got no answer may be filed again.                           *)
(***************************************************************************)
EXTENDS Handles, FiniteSets

CONSTANTS
    Desks,          \* processes taking reports
    MaxReports      \* reports filed altogether, the repeated ones included

ASSUME DesksAssumption == Desks \subseteq Workers /\ MaxReports \in Nat

VARIABLES
    nextval,        \* the sequence lost_found_ref_seq
    filings,        \* filings so far; each takes the next number here
    reference,      \* reference[f]: the reference allocated to filing f, or 0
    rows,           \* filings whose row is committed
    deskPc, filing, \* a process's step, and the filing it takes
    told, noticed   \* history: filings answered with 201, and those published

lostVars == <<nextval, filings, reference, rows, deskPc, filing, told, noticed>>

Filings == 1..MaxReports

LostType ==
    /\ nextval \in 0..MaxReports /\ filings \in 0..MaxReports
    /\ reference \in [Filings -> 0..MaxReports]
    /\ {rows, told, noticed} \subseteq SUBSET Filings
    /\ deskPc \in [Desks -> {"idle", "allocate", "commit", "notify", "answer"}]
    /\ filing \in [Desks -> 0..MaxReports]

LostInit ==
    /\ nextval = 0 /\ filings = 0 /\ reference = [f \in Filings |-> 0]
    /\ rows = {} /\ told = {} /\ noticed = {}
    /\ deskPc = [w \in Desks |-> "idle"] /\ filing = [w \in Desks |-> 0]

Turn(w, from, to) ==
    /\ deskPc[w] = from /\ deskPc' = [deskPc EXCEPT ![w] = to]
    /\ filing' = IF to = "idle" THEN [filing EXCEPT ![w] = 0] ELSE filing

(* create_report, up to the session's row, which it does without if need   *)
(* be.                                                                     *)
create_report(w) ==
    /\ filings < MaxReports /\ deskPc[w] = "idle"
    /\ filings' = filings + 1
    /\ filing' = [filing EXCEPT ![w] = filings']
    /\ deskPc' = [deskPc EXCEPT ![w] = "allocate"]
    /\ UNCHANGED <<nextval, reference, rows, told, noticed>>

(* Mutant of allocate_reference_id: the number after those of the rows.    *)
AllocateByCount(w) ==
    /\ Turn(w, "allocate", IF Executes THEN "commit" ELSE "idle")
    /\ reference' = IF Executes THEN [reference EXCEPT ![filing[w]] = Cardinality(rows) + 1]
                               ELSE reference
    /\ UNCHANGED <<nextval, filings, rows, told, noticed>>

(* nextval is not undone by a rollback.                                    *)
allocate_reference_id(w) ==
    /\ Turn(w, "allocate", IF Executes THEN "commit" ELSE "idle")
    /\ IF Executes
       THEN /\ nextval' = nextval + 1
            /\ reference' = [reference EXCEPT ![filing[w]] = nextval']
       ELSE UNCHANGED <<nextval, reference>>
    /\ UNCHANGED <<filings, rows, told, noticed>>

(* The commit; its failure, and that of the refresh after it, is the       *)
(* request's.  The row may be stored when the answer to COMMIT is lost.    *)
report_commit(w) ==
    /\ \/ Executes /\ rows' = rows \cup {filing[w]} /\ Turn(w, "commit", "notify")
       \/ ~Executes /\ rows' \in {rows, rows \cup {filing[w]}} /\ Turn(w, "commit", "idle")
    /\ UNCHANGED <<nextval, filings, reference, told, noticed>>

_notify_dashboard(w) ==
    /\ noticed' = IF Answered(w) THEN noticed \cup {filing[w]} ELSE noticed
    /\ Turn(w, "notify", "answer")
    /\ UNCHANGED <<nextval, filings, reference, rows, told>>

report_answer(w) ==
    /\ told' = told \cup {filing[w]}
    /\ Turn(w, "answer", "idle")
    /\ UNCHANGED <<nextval, filings, reference, rows, noticed>>

DeskDies(w) ==
    /\ deskPc[w] # "idle" /\ Turn(w, deskPc[w], "idle")
    /\ UNCHANGED <<nextval, filings, reference, rows, told, noticed>>

LostNext ==
    /\ \E w \in Desks : \/ create_report(w) \/ allocate_reference_id(w) \/ report_commit(w)
                        \/ _notify_dashboard(w) \/ report_answer(w) \/ DeskDies(w)
    /\ UNCHANGED handleVars

(* get_report: the report a reference finds.                               *)
get_report(ref) == {f \in rows : reference[f] = ref}

(***************************************************************************)
(* A reference a pilgrim was given finds that pilgrim's report and no      *)
(* other: "two desks filing at the same moment can never mint the same id" *)
(* (routers/lost_found.py:43-45), through deaths, outages and references   *)
(* that were never used.                                                   *)
(***************************************************************************)
ReferenceFindsReport == \A f \in told : get_report(reference[f]) = {f}
=============================================================================
