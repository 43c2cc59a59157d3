---------------------------- MODULE MCBackground ----------------------------
(* A behaviour is one of the server's background activities.                *)
EXTENDS ReportJobs, AuthoringJobs, PresentationReports, RoomBroadcasts,
        AudienceOutbox

CONSTANTS p1, s1

VARIABLE activity

MCHome == [s \in {s1} |-> p1]

Activities == {"report", "authoring", "presentation_report", "broadcasts", "outbox"}

MCInit ==
  /\ Init /\ AuthoringInit /\ ReportsInit /\ BroadcastsInit /\ OutboxInit
  /\ activity \in Activities

MCNext ==
  /\ UNCHANGED activity
  /\ \/ /\ activity = "report" /\ Next
        /\ UNCHANGED <<authoringVars, reportsVars, broadcastVars, outboxVars>>
     \/ /\ activity = "authoring" /\ AuthoringNext
        /\ UNCHANGED <<vars, reportsVars, broadcastVars, outboxVars>>
     \/ /\ activity = "presentation_report" /\ ReportsNext
        /\ UNCHANGED <<vars, authoringVars, broadcastVars, outboxVars>>
     \/ /\ activity = "broadcasts" /\ BroadcastsNext
        /\ UNCHANGED <<vars, authoringVars, reportsVars, outboxVars>>
     \/ /\ activity = "outbox" /\ OutboxNext
        /\ UNCHANGED <<vars, authoringVars, reportsVars, broadcastVars>>

MCFairness == Fairness /\ AuthoringFairness /\ ReportsFairness /\ BroadcastsFairness
              /\ OutboxFairness

MCSpec ==
  /\ MCInit /\ MCFairness
  /\ [][MCNext]_<<vars, authoringVars, reportsVars, broadcastVars, outboxVars, activity>>
-----------------------------------------------------------------------------
(* The properties of the activities, each about its own variables.          *)

\* Authoring jobs and Presentation reports are each in the hands of one worker, broadcasts
\* leave no socket behind, and no event of the audience counts as delivered before the room
\* was sent it and what it bears on: AuthoringInv, ReportsInv, BroadcastsInv and OutboxInv.
ActivitiesInv == AuthoringInv /\ ReportsInv /\ BroadcastsInv /\ OutboxInv

\* Both kinds of job are settled once and stay so: AuthoringIsLeased and
\* PresentationReportIsLeased.
OtherJobsAreLeased == AuthoringIsLeased /\ PresentationReportIsLeased

\* Every job settles, every broadcast reaches its sockets and the outbox drains.
BackgroundSettles ==
  /\ ReportSettles /\ JobSettles /\ PresentationReportSettles /\ SocketsCatchUp
  /\ OutboxDrains
=============================================================================
