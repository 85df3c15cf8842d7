------------------------------ MODULE Reports ------------------------------
(***************************************************************************)
(* The report job (evaluation/reports.py, runner.py): a daily report per   *)
(* UTC day and a weekly one per ISO week, from tables that other jobs      *)
(* keep.  The job keeps no state: what it owes it reads off the reports.   *)
(* What a report says, ten sections of ranked rows and their wording, is   *)
(* left out: it is computed from what the tables hold as it is made, and   *)
(* nothing but the API reads it back.                                      *)
(***************************************************************************)
EXTENDS Basics

CONSTANTS
    ReportDay, ReportWeek,   \* in ticks
    MaxReportNow \* bound

ASSUME ReportPeriods == ReportDay \in Nat \ {0} /\ ReportWeek \in Nat \ {0}

VARIABLES
    reportNow,
    reports,     \* [kind, at], in the order of their rows
    reportJob    \* [at, step], or None

reportVars == <<reportNow, reports, reportJob>>

ReportInit == reportNow = 0 /\ reports = <<>> /\ reportJob = None

-----------------------------------------------------------------------------
Length(kind) == IF kind = "daily" THEN ReportDay ELSE ReportWeek
PeriodStart(kind, t) == t - (t % Length(kind))

(* Faulty variant: a report made as the period began is overlooked.        *)
ExistsAfter(kind, now) ==
    \E i \in DOMAIN reports : reports[i].kind = kind /\ reports[i].at > PeriodStart(kind, now)
ReportExists(kind, now) ==
    \E i \in DOMAIN reports : reports[i].kind = kind /\ reports[i].at >= PeriodStart(kind, now)

(* The cycle's moment is taken once: a report made later counts for the    *)
(* period in which the cycle began.                                        *)
ReportCycle ==
    /\ reportJob = None
    /\ reportJob' = [at |-> reportNow, step |-> "daily"]
    /\ UNCHANGED <<reportNow, reports>>

AfterStep == IF reportJob.step = "daily" THEN [reportJob EXCEPT !.step = "weekly"] ELSE None

GenerateReport ==
    /\ reportJob # None
    /\ ~ReportExists(reportJob.step, reportJob.at)
    /\ reports' = Append(reports, [kind |-> reportJob.step, at |-> reportJob.at])
    /\ reportJob' = AfterStep
    /\ UNCHANGED reportNow

ReportThere ==
    /\ reportJob # None
    /\ ReportExists(reportJob.step, reportJob.at)
    /\ reportJob' = AfterStep
    /\ UNCHANGED <<reportNow, reports>>

(* The worker dies, or a query fails: the rest of the cycle is given up.   *)
ReportCycleFails ==
    /\ reportJob # None
    /\ reportJob' = None
    /\ UNCHANGED <<reportNow, reports>>

ReportTimePasses ==
    /\ reportNow < MaxReportNow
    /\ reportNow' = reportNow + 1
    /\ UNCHANGED <<reports, reportJob>>

ReportNext ==
    \/ ReportCycle
    \/ GenerateReport
    \/ ReportThere
    \/ ReportCycleFails
    \/ ReportTimePasses

-----------------------------------------------------------------------------
(* However often the worker restarts, and however long a cycle takes, a    *)
(* period has at most one report of its kind (reports.py: "exactly one     *)
(* weekly report per week regardless of interval or restarts").            *)
OneReportPerPeriod ==
    \A i, j \in DOMAIN reports :
        /\ reports[i].kind = reports[j].kind
        /\ PeriodStart(reports[i].kind, reports[i].at) = PeriodStart(reports[j].kind, reports[j].at)
        => i = j
=============================================================================
