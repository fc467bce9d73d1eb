----------------------------- MODULE UpdateCheck -----------------------------
(***************************************************************************)
(* Looking for new releases.  Three callers ask GitHub for the latest      *)
(* release and record it in the update service: a goroutine at startup,    *)
(* the handler behind the web interface, and a cron job, which alone       *)
(* notifies.  The checkForUpdates switch may change at any time.           *)
(***************************************************************************)
EXTENDS Naturals, Sequences

CONSTANTS
  Current,       \* number of the running version
  Prereleases,   \* numbers of the releases that are pre-releases
  Develop,       \* TRUE: a development build, which looks for no release
  Handlers,      \* identities of concurrently running update handlers
  Startup, Job,  \* the startup goroutine and the cron job
  OnAtFirst,     \* the values of checkForUpdates a behaviour may begin with
  MaxRelease,    \* bound: releases published
  MaxToggles,    \* bound: changes of checkForUpdates
  MaxRestarts    \* bound: restarts of the process

ASSUME ConstantsAssumption ==
  /\ Current \in Nat /\ MaxRelease \in Nat /\ MaxToggles \in Nat /\ MaxRestarts \in Nat
  /\ Current # 0 /\ Current <= MaxRelease
  /\ Prereleases \subseteq Nat
  /\ Develop \in BOOLEAN
  /\ OnAtFirst \subseteq BOOLEAN
  /\ Startup # Job /\ Startup \notin Handlers /\ Job \notin Handlers

VARIABLES
  published,   \* GitHub's latest release; the others are those before it
  on,          \* config.CheckForUpdates
  toggles, restarts,
  latest,      \* the update service's latestRelease, or None
  caller,      \* caller[c]: what a caller is doing
  last,        \* the job's lastCheckVersion, or None
  sent         \* history: releases notified since the process started

vars == <<published, on, toggles, restarts, latest, caller, last, sent>>

None == 0

Callers == Handlers \cup {Startup, Job}

Waiting(c) == [pc |-> c, got |-> None]

Booted ==
  [c \in Callers |-> Waiting(IF c \in Handlers THEN "idle" ELSE "boot")]

(* checkNewVersion: newer than the running version, and no pre-release     *)
(* unless that is what is running.                                         *)
Newer(v) ==
  /\ ~Develop
  /\ v > Current
  /\ v \in Prereleases => Current \in Prereleases

Init ==
  /\ published = Current
  /\ on \in OnAtFirst
  /\ toggles = 0 /\ restarts = 0
  /\ latest = None
  /\ caller = Booted
  /\ last = None
  /\ sent = <<>>

-----------------------------------------------------------------------------
Publish ==
  /\ published < MaxRelease
  /\ published' = published + 1
  /\ UNCHANGED <<on, toggles, restarts, latest, caller, last, sent>>

(* The configuration is changed in the web interface or in its file.       *)
Toggle ==
  /\ toggles < MaxToggles
  /\ toggles' = toggles + 1
  /\ on' = ~on
  /\ UNCHANGED <<published, restarts, latest, caller, last, sent>>

Becomes(c, pc) == caller' = [caller EXCEPT ![c] = Waiting(pc)]

(* server.checkUpdates: once, if the switch is on at that moment.          *)
StartupCheck ==
  /\ caller[Startup].pc = "boot"
  /\ Becomes(Startup, IF on THEN "asking" ELSE "idle")
  /\ UNCHANGED <<published, on, toggles, restarts, latest, last, sent>>

(* scheduler.addAppJobs, five seconds after the start: the job exists if   *)
(* the switch is on at that moment.                                        *)
AddAppJobs ==
  /\ caller[Job].pc = "boot"
  /\ Becomes(Job, IF on THEN "idle" ELSE "absent")
  /\ UNCHANGED <<published, on, toggles, restarts, latest, last, sent>>

(* Two hours have passed.  SkipIfStillRunning: one run at a time.          *)
Tick ==
  /\ caller[Job].pc = "idle"
  /\ Becomes(Job, "asking")
  /\ UNCHANGED <<published, on, toggles, restarts, latest, last, sent>>

(* GET /api/updates/check.                                                 *)
CheckUpdates(h) ==
  /\ caller[h].pc = "idle"
  /\ Becomes(h, "asking")
  /\ UNCHANGED <<published, on, toggles, restarts, latest, last, sent>>

(* GitHub's answer taken for a new release whatever it is.                 *)
AnsweredAny(c) ==
  /\ caller[c].pc = "asking"
  /\ caller' = [caller EXCEPT ![c] = [pc |-> "answered", got |-> published]]
  /\ UNCHANGED <<published, on, toggles, restarts, latest, last, sent>>

(* GitHub answers a caller; the answer is on its way until it is recorded. *)
Answered(c) ==
  /\ caller[c].pc = "asking"
  /\ IF Newer(published)
       THEN caller' = [caller EXCEPT ![c] = [pc |-> "answered", got |-> published]]
       ELSE Becomes(c, "idle")
  /\ UNCHANGED <<published, on, toggles, restarts, latest, last, sent>>

(* The call fails: CheckUpdateAvailable logs it and reports no error.      *)
CallFails(c) ==
  /\ caller[c].pc = "asking"
  /\ Becomes(c, "idle")
  /\ UNCHANGED <<published, on, toggles, restarts, latest, last, sent>>

(* The lock's part of CheckUpdateAvailable keeping the first release.      *)
RecordFirst(c) ==
  /\ caller[c].pc = "answered"
  /\ LET got == caller[c].got IN
       IF latest # None
         THEN UNCHANGED <<latest, last, sent>>
         ELSE /\ latest' = got
              /\ last' = IF c = Job THEN got ELSE last
              /\ sent' = IF c = Job /\ got # last THEN Append(sent, got) ELSE sent
  /\ Becomes(c, "idle")
  /\ UNCHANGED <<published, on, toggles, restarts>>

(* Run without the comparison with lastCheckVersion.                       *)
RecordAndNotify(c) ==
  /\ caller[c].pc = "answered"
  /\ LET got == caller[c].got IN
       IF latest = got
         THEN UNCHANGED <<latest, last, sent>>
         ELSE /\ latest' = got
              /\ last' = IF c = Job THEN got ELSE last
              /\ sent' = IF c = Job THEN Append(sent, got) ELSE sent
  /\ Becomes(c, "idle")
  /\ UNCHANGED <<published, on, toggles, restarts>>

(* CheckUpdateAvailable under its lock: a release that is recorded already *)
(* is no news, whoever recorded it.  The job's Run notifies of news that   *)
(* is not the news of its last run.                                        *)
Record(c) ==
  /\ caller[c].pc = "answered"
  /\ LET got  == caller[c].got
         news == latest # got
     IN /\ latest' = got
        /\ last' = IF c = Job /\ news THEN got ELSE last
        /\ sent' = IF c = Job /\ news /\ got # last THEN Append(sent, got) ELSE sent
  /\ Becomes(c, "idle")
  /\ UNCHANGED <<published, on, toggles, restarts>>

(* Nothing but the configuration is persistent.                            *)
Restart ==
  /\ restarts < MaxRestarts
  /\ restarts' = restarts + 1
  /\ latest' = None /\ last' = None
  /\ caller' = Booted
  /\ sent' = <<>>
  /\ UNCHANGED <<published, on, toggles>>

Next ==
  \/ Publish \/ Toggle \/ Restart
  \/ StartupCheck \/ AddAppJobs \/ Tick
  \/ \E h \in Handlers : CheckUpdates(h)
  \/ \E c \in Callers : Answered(c) \/ CallFails(c) \/ Record(c)

Spec == Init /\ [][Next]_vars

(* Goroutines run, cron ticks, and GitHub does not fail a caller for ever. *)
(* (A call has no time limit of its own: one that hangs stops the job.)    *)
Fairness ==
  /\ WF_vars(StartupCheck) /\ WF_vars(AddAppJobs) /\ WF_vars(Tick)
  /\ \A c \in Callers : SF_vars(Answered(c)) /\ WF_vars(Record(c))

FairSpec == Spec /\ Fairness

-----------------------------------------------------------------------------
(* Properties                                                              *)

(* Types of the state; only new releases are ever recorded or notified.    *)
TypeOK ==
  LET News == {v \in 1..MaxRelease : Newer(v)} IN
  /\ published \in Current..MaxRelease
  /\ on \in BOOLEAN
  /\ toggles \in 0..MaxToggles /\ restarts \in 0..MaxRestarts
  /\ latest \in News \cup {None} /\ last \in News \cup {None}
  /\ \A c \in Callers :
       \/ caller[c].pc = "answered" /\ caller[c].got \in News
       \/ caller[c].pc \in {"boot", "absent", "idle", "asking"} /\ caller[c].got = None
  /\ sent \in Seq(News)

(* Between restarts no release is notified twice (comment in Run: "lets    *)
(* check if we have different versions between runs"), although a check of *)
(* the web interface that was overtaken records an older release again.    *)
NotifiedOnce == \A i, j \in DOMAIN sent : sent[i] = sent[j] => i = j

(* While the switch stays on from the start, the latest release ends up    *)
(* recorded for good, and so shown: a late answer to an older check is put *)
(* right, and a restart made good.                                         *)
ReleasesAreRecorded == []on => <>[](Newer(published) => latest = published)
=============================================================================
