-------------------------- MODULE UpdateCheckProofs --------------------------
(* Theorems about UpdateCheck, for any number of callers and releases.     *)
EXTENDS UpdateCheck, TLAPS

(* What a caller may hold.                                                 *)
CallerOK(c) ==
  /\ caller[c].got \in Nat
  /\ caller[c].pc = "answered" => caller[c].got \in 1..published

(* The job is answered with ever later releases, so the releases notified  *)
(* rise strictly and end with its last one.                                *)
Inv ==
  /\ published \in Nat \ {0}
  /\ last \in 0..published
  /\ DOMAIN caller = Callers
  /\ \A c \in Callers : CallerOK(c)
  /\ caller[Job].pc = "answered" => last <= caller[Job].got
  /\ sent \in Seq(Nat)
  /\ \A i \in 1..Len(sent) : sent[i] <= last
  /\ \A i, j \in 1..Len(sent) : i < j => sent[i] < sent[j]

(* A process that has just started satisfies the invariant.                *)
LEMMA BootInv ==
  ASSUME published' \in Nat \ {0}, last' = None, caller' = Booted, sent' = <<>>
  PROVE  Inv'
BY DEF Inv, CallerOK, Booted, Waiting, Callers, None

(* So does a first one.                                                    *)
LEMMA InitInv == Init => Inv
BY ConstantsAssumption DEF Init, Inv, CallerOK, Booted, Waiting, Callers, None

(* A caller goes on, with nothing answered.                                *)
LEMMA BecomesStep ==
  ASSUME Inv, NEW c \in Callers, NEW pc, pc # "answered", Becomes(c, pc),
         UNCHANGED <<published, last, sent>>
  PROVE  Inv'
BY DEF Inv, CallerOK, Becomes, Waiting, None

(* GitHub's answer is the latest release.                                  *)
LEMMA AnsweredStep ==
  ASSUME Inv, NEW c \in Callers, Answered(c)
  PROVE  Inv'
<1>1. CASE Becomes(c, "idle")
  BY <1>1, BecomesStep DEF Answered
<1>2. CASE caller' = [caller EXCEPT ![c] = [pc |-> "answered", got |-> published]]
  BY <1>2 DEF Answered, Inv, CallerOK
<1> QED  BY <1>1, <1>2 DEF Answered

(* An answer is recorded.  The job's own is at least as late as the last   *)
(* it notified, and different from it when it notifies.                    *)
LEMMA RecordStep ==
  ASSUME Inv, NEW c \in Callers, Record(c)
  PROVE  Inv'
<1> DEFINE got == caller[c].got
<1>1. caller[c].pc = "answered" /\ got \in 1..published /\ published' = published
  BY DEF Record, Inv, CallerOK
<1>2. CASE last' = last /\ sent' = sent
  BY <1>2, BecomesStep DEF Record
<1>3. CASE c = Job /\ last' = got /\ (sent' = sent \/ (sent' = Append(sent, got) /\ got # last))
  <2>1. got \in Nat /\ last \in Nat /\ last <= got /\ last' = got
    BY <1>1, <1>3 DEF Inv
  <2>2. /\ DOMAIN caller' = Callers
        /\ \A d \in Callers : CallerOK(d)'
        /\ caller'[Job].pc = "idle"
    BY <1>1, <1>3 DEF Record, Becomes, Waiting, None, Inv, CallerOK
  <2>3. CASE sent' = sent
    <3>1. \A i \in 1..Len(sent) : sent[i] \in Nat /\ sent[i] <= last
      BY DEF Inv
    <3> QED  BY <1>1, <2>1, <2>2, <2>3, <3>1 DEF Inv
  <2>4. CASE sent' = Append(sent, got) /\ got # last
    <3>1. /\ sent \in Seq(Nat) /\ Len(sent) \in Nat
          /\ \A i \in 1..Len(sent) : sent[i] \in Nat /\ sent[i] < got
      BY <2>1, <2>4 DEF Inv
    <3>2. /\ sent' \in Seq(Nat) /\ Len(sent') = Len(sent) + 1
          /\ \A i \in 1..Len(sent) : sent'[i] = sent[i]
          /\ sent'[Len(sent) + 1] = got
      BY <2>1, <2>4, <3>1
    <3>3. \A i \in 1..Len(sent') : sent'[i] <= last'
      <4> SUFFICES ASSUME NEW i \in 1..Len(sent')
                   PROVE  sent'[i] <= last'
        OBVIOUS
      <4>1. CASE i \in 1..Len(sent)
        BY <2>1, <3>1, <3>2, <4>1
      <4>2. CASE i = Len(sent) + 1
        BY <2>1, <3>2, <4>2
      <4> QED  BY <3>1, <3>2, <4>1, <4>2
    <3>4. \A i, j \in 1..Len(sent') : i < j => sent'[i] < sent'[j]
      <4> SUFFICES ASSUME NEW i \in 1..Len(sent'), NEW j \in 1..Len(sent'), i < j
                   PROVE  sent'[i] < sent'[j]
        OBVIOUS
      <4>1. i \in 1..Len(sent) /\ j \in 1..(Len(sent) + 1)
        BY <3>1, <3>2
      <4>2. CASE j \in 1..Len(sent)
        BY <3>2, <4>1, <4>2 DEF Inv
      <4>3. CASE j = Len(sent) + 1
        BY <3>1, <3>2, <4>1, <4>3
      <4>4. j \in 1..Len(sent) \/ j = Len(sent) + 1
        BY <3>1, <4>1
      <4> QED  BY <4>2, <4>3, <4>4
    <3> QED  BY <1>1, <2>1, <2>2, <3>2, <3>3, <3>4 DEF Inv
  <2> QED  BY <1>3, <2>3, <2>4
<1> QED  BY <1>2, <1>3 DEF Record

(* Every step keeps the invariant.                                         *)
LEMMA NextInv == Inv /\ [Next]_vars => Inv'
<1> SUFFICES ASSUME Inv, [Next]_vars  PROVE Inv'
  OBVIOUS
<1> USE DEF Callers
<1>1. CASE Publish
  BY <1>1 DEF Publish, Inv, CallerOK
<1>2. CASE Toggle \/ UNCHANGED vars
  BY <1>2 DEF Toggle, vars, Inv, CallerOK
<1>3. CASE Restart
  <2>1. published' \in Nat \ {0}
    BY <1>3 DEF Restart, Inv
  <2> QED  BY <1>3, <2>1, BootInv DEF Restart
<1>4. CASE StartupCheck
  BY <1>4, BecomesStep DEF StartupCheck
<1>5. CASE AddAppJobs
  BY <1>5, BecomesStep DEF AddAppJobs
<1>6. CASE Tick
  BY <1>6, BecomesStep DEF Tick
<1>7. ASSUME NEW h \in Handlers, CheckUpdates(h)  PROVE Inv'
  BY <1>7, BecomesStep DEF CheckUpdates
<1>8. ASSUME NEW c \in Callers, Answered(c) \/ CallFails(c) \/ Record(c)  PROVE Inv'
  BY <1>8, AnsweredStep, BecomesStep, RecordStep DEF CallFails
<1> QED  BY <1>1, <1>2, <1>3, <1>4, <1>5, <1>6, <1>7, <1>8 DEF Next

-----------------------------------------------------------------------------
(* Types                                                                   *)

(* The releases that a check may report.                                   *)
News == {v \in 1..MaxRelease : Newer(v)}

TypeInv == TypeOK /\ DOMAIN caller = Callers

CallerTyped(c) ==
  \/ caller[c].pc = "answered" /\ caller[c].got \in News
  \/ caller[c].pc \in {"boot", "absent", "idle", "asking"} /\ caller[c].got = None

(* A process that has just started.                                        *)
LEMMA BootTyped ==
  ASSUME caller' = Booted
  PROVE  DOMAIN caller' = Callers /\ \A c \in Callers : CallerTyped(c)'
BY DEF Booted, Waiting, CallerTyped

(* A caller that holds no release goes on.                                 *)
LEMMA BecomesTyped ==
  ASSUME TypeInv, NEW c \in Callers,
         NEW pc \in {"boot", "absent", "idle", "asking"}, Becomes(c, pc)
  PROVE  DOMAIN caller' = Callers /\ \A d \in Callers : CallerTyped(d)'
BY DEF TypeInv, TypeOK, CallerTyped, News, Becomes, Waiting

(* Every step keeps the types.                                             *)
LEMMA NextTypeInv == TypeInv /\ [Next]_vars => TypeInv'
<1> SUFFICES ASSUME TypeInv, [Next]_vars  PROVE TypeInv'
  OBVIOUS
<1> DEFINE Rest == /\ published \in Current..MaxRelease /\ on \in BOOLEAN
                   /\ toggles \in 0..MaxToggles /\ restarts \in 0..MaxRestarts
           Held == latest \in News \cup {None} /\ last \in News \cup {None} /\ sent \in Seq(News)
           Calls == DOMAIN caller = Callers /\ \A c \in Callers : CallerTyped(c)
<1>1. TypeInv <=> Rest /\ Held /\ Calls
  BY DEF TypeInv, TypeOK, News, CallerTyped
<1>2. TypeInv' <=> Rest' /\ Held' /\ Calls'
  BY DEF TypeInv, TypeOK, News, CallerTyped
<1> HIDE DEF Rest, Held, Calls
<1>3. CASE Publish \/ Toggle
  <2>1. Rest'
    <3>1. CASE Publish
      BY <1>1, <3>1, ConstantsAssumption DEF Publish, Rest
    <3>2. CASE Toggle
      <4>1. on' \in BOOLEAN
        BY <3>2 DEF Toggle
      <4>2. toggles' \in 0..MaxToggles
        BY <1>1, <3>2, ConstantsAssumption DEF Toggle, Rest
      <4> QED BY <1>1, <3>2, <4>1, <4>2 DEF Toggle, Rest
    <3> QED BY <1>3, <3>1, <3>2
  <2>2. Held' /\ Calls'
    BY <1>1, <1>3 DEF Publish, Toggle, Held, Calls, CallerTyped
  <2> QED BY <1>2, <2>1, <2>2
<1>4. CASE Restart
  <2>1. Rest'
    BY <1>1, <1>4, ConstantsAssumption DEF Restart, Rest
  <2>2. Held'
    BY <1>4 DEF Restart, Held
  <2>3. Calls'
    BY <1>4, BootTyped DEF Restart, Calls
  <2> QED BY <1>2, <2>1, <2>2, <2>3
<1>5. ASSUME NEW c \in Callers, NEW pc \in {"boot", "absent", "idle", "asking"}, Becomes(c, pc),
             UNCHANGED <<published, on, toggles, restarts, latest, last, sent>>
      PROVE  TypeInv'
  BY <1>1, <1>2, <1>5, BecomesTyped DEF Rest, Held, Calls
<1>6. CASE StartupCheck \/ AddAppJobs \/ Tick \/ \E h \in Handlers : CheckUpdates(h)
  BY <1>5, <1>6 DEF StartupCheck, AddAppJobs, Tick, CheckUpdates, Callers
<1>7. ASSUME NEW c \in Callers, CallFails(c)  PROVE TypeInv'
  BY <1>5, <1>7 DEF CallFails
<1>8. ASSUME NEW c \in Callers, Answered(c)  PROVE TypeInv'
  <2>1. CASE Becomes(c, "idle")
    BY <1>5, <1>8, <2>1 DEF Answered
  <2>2. CASE Newer(published) /\ caller' = [caller EXCEPT ![c] = [pc |-> "answered", got |-> published]]
    <3>1. published \in News
      BY <1>1, <2>2, ConstantsAssumption DEF News, Rest
    <3>2. Calls'
      BY <1>1, <2>2, <3>1 DEF Calls, CallerTyped
    <3>3. Rest' /\ Held'
      BY <1>1, <1>8 DEF Answered, Rest, Held
    <3> QED BY <1>2, <3>2, <3>3
  <2> QED BY <1>8, <2>1, <2>2 DEF Answered
<1>9. ASSUME NEW c \in Callers, Record(c)  PROVE TypeInv'
  <2>1. caller[c].got \in News
    BY <1>1, <1>9 DEF Record, Calls, CallerTyped
  <2>2. Held'
    BY <1>1, <1>9, <2>1 DEF Record, Held
  <2>3. Rest'
    BY <1>1, <1>9 DEF Record, Rest
  <2>4. Calls'
    BY <1>9, BecomesTyped DEF Record, Calls
  <2> QED BY <1>2, <2>2, <2>3, <2>4
<1>10. CASE UNCHANGED vars
  BY <1>1, <1>2, <1>10 DEF vars, Rest, Held, Calls, CallerTyped
<1> QED  BY <1>3, <1>4, <1>6, <1>7, <1>8, <1>9, <1>10 DEF Next

(* Only new releases are ever recorded and notified.                       *)
THEOREM TypeCorrect == Spec => []TypeOK
<1>1. Init => TypeInv
  BY ConstantsAssumption DEF Init, TypeInv, TypeOK, Booted, Waiting
<1>2. TypeInv => TypeOK
  BY DEF TypeInv
<1> QED  BY <1>1, <1>2, NextTypeInv, PTL DEF Spec

-----------------------------------------------------------------------------
(* No release is notified twice in the life of a process.                  *)
THEOREM NoticesAreOnce == Spec => []NotifiedOnce
<1>1. Spec => []Inv
  BY InitInv, NextInv, PTL DEF Spec
<1>2. Inv => NotifiedOnce
  <2> SUFFICES ASSUME Inv, NEW i \in DOMAIN sent, NEW j \in DOMAIN sent, sent[i] = sent[j]
               PROVE  i = j
    BY DEF NotifiedOnce
  <2>1. i \in 1..Len(sent) /\ j \in 1..Len(sent) /\ sent[i] \in Nat /\ sent[j] \in Nat
    BY DEF Inv
  <2> QED  BY <2>1 DEF Inv
<1> QED  BY <1>1, <1>2, PTL
=============================================================================
