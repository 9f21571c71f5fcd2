--------------------------- MODULE MCAppointments ---------------------------
(* Small instances of InterviewRecovery, ClientThread and CandidateReviews,*)
(* which share no state here.  A behaviour is about one scenario: a part of*)
(* the rows, of their states and of the requests; the rest does not occur  *)
(* in it.                                                                  *)
EXTENDS InterviewRecovery, ClientThread, CandidateReviews, TLC

VARIABLE scenario

OneInterview == Cardinality({i \in Interview : interview'[i] # NoInterview}) <= 1
StatesIn(S) == \A i \in Interview : interview'[i].status \in S \cup {"none"}
CountUpTo(n) == \A i \in Interview : interview'[i].count <= n
NoHolds == meeting' = {} /\ \A h \in Hold : hold'[h] = NoHold
NoWindows == \A g \in Group : group'[g].windows = NoGroup.windows
\* Two starts far enough from each other.
Apart == {s \in Start : \E t \in Start : t # s /\ ~Clash(s, t, Buffer)}
FarApart == \A i \in Interview : interview'[i].at \in Apart \cup {0}
Manually == connection' = 0 /\ \A g \in Group : automation'[g].revision = 0

\* Two interviews, a hold and a meeting contend for the calendar.
Booking ==
  /\ \A i \in Interview : pair'[i] = NoPair
  /\ \A g \in Group : group'[g] = NoGroup
  /\ Manually /\ CountUpTo(1)
  /\ StatesIn({"scheduled", "confirmed", "reschedule_requested", "cancelled"})

\* One interview is confirmed, declined and moved until it is over.
Confirming ==
  /\ OneInterview /\ FarApart /\ NoHolds /\ NoWindows /\ Manually
  /\ \A g \in Group : /\ group'[g].status \in {"none", "open"}
                      /\ ~group'[g].expired /\ ~group'[g].replaced
                      /\ group'[g] # NoGroup => group'[g].declined

\* Its recoveries are replaced, expire and come again.
Recovering ==
  /\ OneInterview /\ FarApart /\ NoHolds /\ NoWindows /\ Manually /\ CountUpTo(1) /\ schedulable'
  /\ StatesIn({"scheduled", "reschedule_requested", "cancelled"})

\* One group of answers is read, changed, and booked by hand or by the worker.
Selecting ==
  /\ OneInterview /\ NoHolds /\ CountUpTo(1) /\ schedulable'
  /\ StatesIn({"scheduled", "reschedule_requested", "cancelled"})
  /\ Cardinality({g \in Group : group'[g] # NoGroup}) <= 1
  /\ \A g \in Group :
       /\ ~group'[g].expired /\ group'[g].revision["interviewer"] <= 1
       /\ connection' = 1 => automation'[g].revision = 0
       /\ \A p \in Participant : group'[g].windows[p] \subseteq Apart
  /\ FarApart
  /\ \A i \in Interview, p \in Participant : pair'[i].answer[p] # "confirmed"

NoDiscoveries == \A d \in Discovery : discovery'[d] = NoDiscovery
NoResponses == \A t \in Task : response'[t] = "none"
NoDates == \A t \in Task : due'[t] = "none"
NotAssessed == \A r \in Reply : assessed'[r] = "none"
ActionsIn(S) == \A t \in Task : action'[t] \in S \cup {"none"}

\* Two replies with dated actions and their timers.
Dated ==
  /\ NoDiscoveries /\ NoResponses /\ permitted'
  /\ ActionsIn({"clarify_requirement", "close_no_interest", "stop_contact"})
  /\ optedOut' => conversation' = "opted_out"
  /\ Cardinality({t \in Task : action'[t] # "none"}) <= 2
  /\ Cardinality({t \in Task : timer'[t] = "running"}) <= 1
  /\ \A t \in Task : due'[t] = "past" => due[t] # "none"

\* Two replies, up to three actions and their response mails.
Answering ==
  /\ NoDiscoveries /\ NoDates /\ NotAssessed
  /\ ActionsIn({"prepare_response", "clarify_requirement"})
  /\ Cardinality({t \in Task : action'[t] # "none"}) <= 3

\* One reply and the discovery it asks for.
Discovering ==
  /\ NoResponses /\ NoDates /\ NotAssessed /\ cursor' <= 1
  /\ ActionsIn({"arrange_discovery", "review_reply"})

OneAtWork == Cardinality({d \in Deadline : held'[d] # "nothing"}) <= 1

TheReview == CHOOSE r \in Review : TRUE

\* The answers of one review are corrected and time out; the first one's job has trouble.
Correcting ==
  /\ \A r \in Review \ {TheReview} : review'[r] = NoReview
  /\ review'[TheReview].mail = "none" /\ OneAtWork
  /\ source' # source => review'[TheReview].outcomes # {}
  /\ \A d \in Deadline :
       task'[d] \in {"blocked", "retried"} => d = Owed(TheReview, 1)

\* Two reviews, one of which may clarify the other, are answered once; one is mailed.
Clarifying ==
  /\ OneAtWork /\ open'
  /\ \A d \in Deadline : task'[d] \notin {"blocked", "retried"} /\ held'[d] # "deferred"
  /\ \A r \in Review : review'[r].answer <= 1 /\ ~review'[r].aged
  /\ \A r \in Review \ {TheReview} : review'[r].mail = "none"

Appointing == {"booking", "confirming", "recovering", "selecting"}
Talking == {"dated", "answering", "discovering"}
Asking == {"correcting", "clarifying"}
Init ==
  /\ RecoveryInit /\ ThreadInit /\ ReviewInit
  /\ scenario \in Appointing \cup Talking \cup Asking
  /\ scenario # "dated" => cursor = 0
  /\ scenario \in Asking => permitted

Next ==
  /\ \/ scenario = "booking" /\ RecoveryNext /\ Booking
     \/ scenario = "confirming" /\ RecoveryNext /\ Confirming
     \/ scenario = "recovering" /\ RecoveryNext /\ Recovering
     \/ scenario = "selecting" /\ RecoveryNext /\ Selecting
     \/ scenario = "dated" /\ ThreadNext /\ Dated
     \/ scenario = "answering" /\ ThreadNext /\ Answering
     \/ scenario = "discovering" /\ ThreadNext /\ Discovering
     \/ scenario = "correcting" /\ ReviewNext /\ Correcting
     \/ scenario = "clarifying" /\ ReviewNext /\ Clarifying
  /\ scenario \notin Appointing => UNCHANGED interviewVars
  /\ scenario \notin Talking => UNCHANGED threadVars
  /\ scenario \notin Asking => UNCHANGED reviewVars
  /\ UNCHANGED scenario

Spec == Init /\ [][Next]_<<interviewVars, threadVars, reviewVars, scenario>>
Symmetry == Permutations(Interview) \cup Permutations(Group) \cup Permutations(Discovery)
=============================================================================
