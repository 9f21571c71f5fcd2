---------------------------- MODULE MCWorkspace ----------------------------
(* Small instances of CandidatePrivacy, PlacementPipeline, CalendarMirror  *)
(* and RankingRefresh.  A behaviour is about one scenario: a choice of the *)
(* requests that are served beside each other; the others do not arrive.   *)
EXTENDS CandidatePrivacy, PlacementPipeline, CalendarMirror, RankingRefresh, TLC

VARIABLE scenario

\* Requests about the candidate, and what the placement's clerks are at.
Privacy ==
  [leaving   |-> {"transition", "grant", "withdraw", "share", "submit", "update"},
   avoiding  |-> {"transition", "grant", "avoid", "share"},
   erasing   |-> {"transition", "grant", "share", "erase"},
   documents |-> {"transition", "grant", "upload", "scan", "erase"},
   ending    |-> {"grant", "share", "withdraw", "erase"}]
Pipeline ==
  [placing   |-> [steps |-> {"screening", "insertDecision", "fileDecision", "ask", "place"},
                  aims  |-> {"none", "in_progress", "evidence_pending",
                             "ready_for_owner_decision", "closed"} \cup Disposition],
   guarantee |-> [steps |-> {"insertDecision", "ask", "place", "move", "close", "forget"},
                  aims  |-> {"none", "advance", "confirmation", "replacement"} \cup
                            DOMAIN PlacementFlow]]

\* Two syncs of a connection that stays; one automatic sync; two authorizations.
OneSync == \A r, s \in Sync : sync'[r] # NoSync /\ sync'[s] # NoSync => r = s
Racing ==
  /\ connection'.revision = 1 /\ ~meeting'.cancelled
  /\ <<policy, stopped, flow>>' = <<policy, stopped, flow>>
Automating ==
  /\ OneSync /\ \A s \in Sync : sync'[s] # NoSync => sync'[s].mode = "automatic"
  /\ writes' <= 2 /\ connection'.revision <= 2 /\ flow' = flow
Connecting ==
  /\ OneSync /\ <<policy, stopped, remote, meeting>>' = <<policy, stopped, remote, meeting>>
Calendars == {"racing", "automating", "connecting"}

\* Cycles, with the attempts that were lost; the scores of one candidate.  Of
\* the events that get in the way a behaviour meets a few, not all of them.
One(b) == IF b THEN 1 ELSE 0
Busy == Cardinality({s \in Server : server'[s] # Off})
Attempts == {server'[s] : s \in Server}
OneGrant ==
  /\ work' # "stopped"
  /\ \A r \in DOMAIN plans' : plans'[r].on <=> plans'[r].budget > 0
  /\ Len(plans') = 2 => ~plans'[2].on
Planning ==
  /\ <<match, subjectVars>>' = <<match, subjectVars>>
  /\ \A a \in Attempts \cup {request'} : a.task \notin ScoreTask
  /\ \A k \in ScoreTask \cap DOMAIN row' : row'[k].grant # 0
  /\ request'.what = "cancelled" => request'.task[3] = 1
  /\ Busy + One(lapsed') + One(request' # NoRequest) + One(work' # "on") + Len(plans') <= 3
Inferring ==
  /\ request' = request /\ work' = "on" /\ Busy <= 1
  /\ \A run \in runs' : run.cycle = 1
  /\ \A a \in Attempts : a.outcome \in {Nil, "completed", "permanently_failed"}
  /\ \A k \in CycleTask \cap DOMAIN row' : row'[k].status # "blocked"
  /\ Cardinality({k \in DOMAIN row' : row'[k].status \in Unsettled \cup {"running"}}) <= 2
  /\ {p \in Profile : match'[p].status # Nil \/ evidence'[p] > 0}
       \subseteq {k[2] : k \in ScoreTask \cap DOMAIN row'}
  /\ job'.stage # "open"
  /\ job'.version + One(job'.stage # "draft") + One(lapsed') + Len(plans')
       + Cardinality({p \in Profile : evidence'[p] > 0}) <= 2
Rankings == {"planning", "scoring"}

Init ==
  /\ PrivacyInit /\ PipelineInit /\ MirrorInit /\ RankingInit
  /\ scenario \in DOMAIN Privacy \cup DOMAIN Pipeline \cup Calendars \cup Rankings
  /\ Cardinality(Profile \ scorable) = One(scenario = "scoring")
  /\ scenario \notin DOMAIN Privacy => profileState = "imported"
  /\ IF scenario \in {"racing", "automating"} THEN connection.status = "active"
     ELSE connection.status # "active" /\ resource = "interview"

Next ==
  /\ \/ /\ scenario \in DOMAIN Privacy /\ PrivacyNext
        /\ \A c \in Clerk : desk'[c] = Idle \/ desk'[c].task \in Privacy[scenario]
        /\ UNCHANGED <<pipelineVars, mirrorVars, rankingVars>>
     \/ /\ scenario \in DOMAIN Pipeline /\ PipelineNext
        /\ \A c \in Clerk :
             /\ bench'[c].step \in {NoOne} \cup Pipeline[scenario].steps
             /\ bench'[c].aim \in Pipeline[scenario].aims
        /\ UNCHANGED <<privacyVars, mirrorVars, rankingVars>>
     \/ /\ scenario \in Calendars /\ MirrorNext
        /\ \/ scenario = "racing" /\ Racing
           \/ scenario = "automating" /\ Automating
           \/ scenario = "connecting" /\ Connecting
        /\ UNCHANGED <<privacyVars, pipelineVars, rankingVars>>
     \/ /\ scenario \in Rankings /\ RankingNext
        /\ OneGrant
        /\ scenario = "planning" => Planning
        /\ scenario = "scoring" => Inferring
        /\ UNCHANGED <<privacyVars, pipelineVars, mirrorVars>>
  /\ UNCHANGED scenario

Spec == Init /\ [][Next]_<<privacyVars, pipelineVars, mirrorVars, rankingVars, scenario>>
\* Whoever acts goes by the same names, which saves permutations.
Symmetry == Permutations(Clerk \cup Sync \cup Flow \cup Server \cup Profile)
=============================================================================
