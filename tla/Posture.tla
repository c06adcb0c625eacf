------------------------------ MODULE Posture ------------------------------
(***************************************************************************)
(* What the views over the platform's data compute: the security score     *)
(* (app/routers/security_score.py), the dashboard's summary                *)
(* (dashboard.py), the overview of a project (project_service.py) and the  *)
(* weekly report, which compute the score once more each, and the          *)
(* compliance audit (reports.py).                                          *)
(*                                                                         *)
(* The state is the numbers the views count.  A view counts each by a      *)
(* query of its own, and may combine numbers of different moments: every   *)
(* combination of numbers is a state here.                                 *)
(***************************************************************************)
EXTENDS Naturals

CONSTANTS
    MaxIncidents,   \* bound: incidents of the scope
    MaxRecords,     \* bound: compliance records of the scope
    MaxUsers        \* bound: accounts of the platform

ASSUME PostureLimits ==
    MaxIncidents \in Nat /\ MaxRecords \in Nat /\ MaxUsers \in Nat \ {0}

VARIABLES
    open,       \* open[v]: incidents of severity v that are not closed
    closed,     \* closed[c]: those that are, for critical and for others
    due,        \* due[x]: compliance records that are x
    users,      \* active accounts; none has MFA, which nothing enables
    forbidden   \* more than 50 403s on the audit log in 24 h?

postureVars == <<open, closed, due, users, forbidden>>

Severities == {"critical", "high", "medium", "low", "info"}

Class(v) == IF v = "critical" THEN "critical" ELSE "other"

Classes == {"critical", "other"}

Dues == {"pending", "overdue", "met"}

Minor == open["medium"] + open["low"]

Opened == open["critical"] + open["high"] + Minor + open["info"]

Resolved == closed["critical"] + closed["other"]

Unmet == due["pending"] + due["overdue"]

Duties == Unmet + due["met"]

PostureInit ==
    /\ open = [v \in Severities |-> 0]
    /\ closed = [c \in Classes |-> 0]
    /\ due = [x \in Dues |-> 0]
    /\ users = 1
    /\ forbidden = FALSE

OpenIncident(v) ==
    /\ Opened + Resolved < MaxIncidents
    /\ open' = [open EXCEPT ![v] = @ + 1]
    /\ UNCHANGED <<closed, due, users, forbidden>>

CloseIncident(v) ==
    /\ open[v] > 0
    /\ open' = [open EXCEPT ![v] = @ - 1]
    /\ closed' = [closed EXCEPT ![Class(v)] = @ + 1]
    /\ UNCHANGED <<due, users, forbidden>>

Regulate ==
    /\ Duties < MaxRecords
    /\ due' = [due EXCEPT !["pending"] = @ + 1]
    /\ UNCHANGED <<open, closed, users, forbidden>>

MoveRecord(from, to) ==
    /\ due[from] > 0
    /\ due' = [due EXCEPT ![from] = @ - 1, ![to] = @ + 1]
    /\ UNCHANGED <<open, closed, users, forbidden>>

Meet == MoveRecord("pending", "met") \/ MoveRecord("overdue", "met")

Lapse == MoveRecord("pending", "overdue")

(* Somebody is always there to look at a view.                             *)
Join ==
    /\ users < MaxUsers
    /\ users' = users + 1
    /\ UNCHANGED <<open, closed, due, forbidden>>

Leave ==
    /\ users > 1
    /\ users' = users - 1
    /\ UNCHANGED <<open, closed, due, forbidden>>

Probe == ~forbidden /\ forbidden' = TRUE /\ UNCHANGED <<open, closed, due, users>>

Calm == forbidden /\ forbidden' = FALSE /\ UNCHANGED <<open, closed, due, users>>

PostureNext ==
    \/ \E v \in Severities : OpenIncident(v) \/ CloseIncident(v)
    \/ Regulate \/ Meet \/ Lapse
    \/ Join \/ Leave \/ Probe \/ Calm

PostureSpec == PostureInit /\ [][PostureNext]_postureVars

-----------------------------------------------------------------------------
Least(a, b) == IF a < b THEN a ELSE b

Score100(plus, minus) == IF minus > 100 + plus THEN 0 ELSE Least(100, 100 + plus - minus)

(* What both scores take off.                                              *)
Deductions ==
    Least(open["critical"] * 15, 45) + Least(open["high"] * 8, 24)
    + Least(Minor * 2, 10) + Least(due["overdue"] * 5, 15)
    + IF forbidden THEN 10 ELSE 0

(* get_security_score.                                                     *)
Score == Score100(IF Unmet = 0 THEN 5 ELSE 0, Deductions)

(* Its recommendations, by their subject.                                  *)
Recommended ==
    {x \in {"critical", "high", "overdue", "forbidden"} :
        CASE x = "critical" -> open["critical"] > 0
          [] x = "high" -> open["high"] > 0 /\ open["critical"] = 0
          [] x = "overdue" -> due["overdue"] > 0
          [] OTHER -> forbidden}

(* Mutant of ReportScore: one obligation met earns the bonus.              *)
ReportScorePartly ==
    Score100(IF due["met"] > 0 THEN 5 ELSE 0, Deductions + Least(users * 4, 20))

(* _build_report_data: accounts without MFA count, and somebody has to     *)
(* have met something for the bonus.                                       *)
ReportScore ==
    Score100(IF Duties > 0 /\ Unmet = 0 THEN 5 ELSE 0,
             Deductions + Least(users * 4, 20))

(* What the report lists and counts; all incidents are of the week.        *)
ReportCounts ==
    [total |-> Opened + Resolved,
     open |-> [v \in Severities \ {"info"} |-> open[v]],
     listed |-> Least(open["critical"], 5),
     resolved |-> Least(Resolved, 5),
     met |-> due["met"], obligations |-> Duties]

ReportRecommended ==
    {x \in {"critical", "mfa", "overdue", "forbidden"} :
        CASE x = "critical" -> open["critical"] > 0
          [] x = "mfa" -> users > 0
          [] x = "overdue" -> due["overdue"] > 0
          [] OTHER -> forbidden}

Grade(n) == IF n >= 90 THEN "A" ELSE IF n >= 75 THEN "B"
            ELSE IF n >= 60 THEN "C" ELSE IF n >= 40 THEN "D" ELSE "F"

(* Sections of the weekly PDF that are not always there, if all closures   *)
(* are of the week; another lists the week's attack types.                 *)
Sections ==
    {x \in {"Open Critical Incidents", "Resolved This Week", "Recommendations"} :
        CASE x = "Open Critical Incidents" -> open["critical"] > 0
          [] x = "Resolved This Week" -> Resolved > 0
          [] OTHER -> ReportRecommended # {}}

(* The dashboard's summary; its critical incidents are closed ones too.    *)
Summary == [total |-> Opened + Resolved,
            open |-> Opened,
            critical |-> open["critical"] + closed["critical"],
            overdue |-> due["overdue"]]

(* ProjectService.get_dashboard: its critical incidents are open ones.     *)
Overview == [open |-> Opened, critical |-> open["critical"],
             overdue |-> due["overdue"]]

(* ProjectService._quick_score.                                            *)
QuickScore ==
    100 - Least(open["critical"] * 15, 45) - Least(open["high"] * 8, 24)
        - Least(due["overdue"] * 5, 15)

OverviewRecommended ==
    {x \in {"critical", "overdue"} :
        IF x = "critical" THEN Overview.critical > 0 ELSE Overview.overdue > 0}

NoData == 101

Percentage(met, total) == IF total = 0 THEN NoData ELSE (met * 100) \div total

(* The compliance audit counts the records of one query; the compliance    *)
(* dashboard queries each number.                                          *)
Audit == [total |-> Duties, met |-> due["met"],
          overdue |-> due["overdue"], pending |-> due["pending"],
          percent |-> Percentage(due["met"], Duties)]

-----------------------------------------------------------------------------
PostureTypeOK ==
    /\ open \in [Severities -> 0..MaxIncidents]
    /\ closed \in [Classes -> 0..MaxIncidents]
    /\ due \in [Dues -> 0..MaxRecords]
    /\ users \in 1..MaxUsers
    /\ forbidden \in BOOLEAN

(* The weekly report never shows a better score than the security score    *)
(* page, and one at most 25 points worse: its inline recalculation takes   *)
(* off more and gives the bonus for less.  The overview of a project,      *)
(* which "mirrors" the page (project_service.py), is at most 5 points      *)
(* below it and 20 above.  A grade below A comes with a recommendation,    *)
(* but on the overview for high severity alone.  The critical incidents of *)
(* the summary are those of the other pages and the closed ones.           *)
PagesAgree ==
    /\ ReportScore <= Score /\ Score <= ReportScore + 25
    /\ Score <= QuickScore + 5 /\ QuickScore <= Score + 20
    /\ Grade(Score) # "A" => Recommended # {}
    /\ Grade(ReportScore) # "A" => "Recommendations" \in Sections
    /\ Grade(QuickScore) # "A" => OverviewRecommended # {} \/ open["high"] > 1
    /\ ReportCounts.total = Summary.total /\ Overview.open = Summary.open
    /\ Overview.critical <= Summary.critical
    /\ ReportCounts.listed > 0 <=> "Open Critical Incidents" \in Sections
=============================================================================
