-------------------------- MODULE SessionControlProofs --------------------------
(***************************************************************************)
(* Proof that the state of an Agent Session never has two writers, for     *)
(* every set of processes that prompt for a person and every number of     *)
(* transfers and turns.                                                    *)
(*                                                                         *)
(* A prompt outlives the lease and the process that sent it, so the lease  *)
(* says nothing about who writes.  What does is the token of the admission: *)
(* it is neither replaced nor released while the prompt it admitted may    *)
(* still run, and control is not transferred, no turn started and no state *)
(* exported while there is one.                                            *)
(*                                                                         *)
(* And proof that the credential a manager presents is the newest one of a *)
(* login that stands: the token on disk is replaced by the provider before *)
(* anybody can save the new one, so it is the intent saved before that     *)
(* keeps a successor from presenting the old one.                          *)
(*                                                                         *)
(* And proof that a registry is left alone for as long as it asked to be:  *)
(* whoever records a failure has read the state it replaces under the lock *)
(* that it still holds.                                                    *)
(*                                                                         *)
(* And proof that every ending of a prompt but an unknown one is evidence  *)
(* that Pi is not at work on it, and that a settlement that was read is    *)
(* lost to nothing but the caller: a command on its way is about the       *)
(* prompt there is, an abort left behind takes the connection with it, and *)
(* a settlement is the last thing that is said of its prompt.              *)
(***************************************************************************)
EXTENDS SessionControl, ProviderAuth, ImageCache, PiConnection, SequenceTheorems, FiniteSetTheorems, TLAPS

controlVars == <<session, turn, runner, person, writing, exporting, turns>>
ControlSpec == ControlInit /\ [][ControlNext]_controlVars

\* The two words that stand for the absence of a token and for the turn's own prompt are no process.
DistinctNames == Persons \cap {"none", "turn"} = {}

-----------------------------------------------------------------------------
(* The inductive invariant.                                                *)

SessionRows == [owner : {"automation", "human"}, revision : Nat, runtime : {"none", "reserved"},
                bound : BOOLEAN, token : Persons \cup {"none"}, live : BOOLEAN]
Processes   == [at : {"idle", "acquire", "connect", "prompt", "prompting", "release", "unknown"}, revision : Nat]
TypeOK ==
    /\ session \in SessionRows
    /\ turn \in [active : BOOLEAN, live : BOOLEAN, revision : Nat]
    /\ person \in [Persons -> Processes]
    /\ writing \subseteq Persons \cup {"turn"}
    /\ exporting \in BOOLEAN

\* An admission holds off turns, and control stays with whom it was admitted for.
ControlHeld ==
    /\ turn.active => session.owner = "automation"
    /\ session.token # "none" => session.owner = "human"

\* A process that was admitted and has not released its admission still has it.
Admitted(p) == person[p].at \in {"connect", "prompt", "prompting", "release", "unknown"} => session.token = p

\* A prompt that runs, whether its process lives or not, runs under the admission of that process; one that has
\* still to be sent, or has come back, does not run.
PromptAdmitted(p) ==
    /\ p \in writing => session.token = p
    /\ person[p].at \in {"connect", "prompt", "release"} => p \notin writing

\* Nothing that could write begins while the state is exported.
ExportExclusive == exporting => ~Busy

ControlInv ==
    /\ TypeOK
    /\ ControlHeld
    /\ \A p \in Persons : Admitted(p) /\ PromptAdmitted(p)
    /\ "turn" \in writing => turn.active
    /\ ExportExclusive

\* The initial state satisfies the invariant.
LEMMA ControlInitially == ASSUME DistinctNames, ControlInit PROVE ControlInv
  BY DEF DistinctNames, ControlInit, ControlInv, TypeOK, SessionRows, Processes, ControlHeld, Admitted, PromptAdmitted, ExportExclusive, Busy

-----------------------------------------------------------------------------
(* Every step preserves it.                                                *)

\* A transfer keeps the types (TransferAgentSessionControl).
LEMMA TransferTypes ==
    ASSUME TypeOK, NEW o \in {"automation", "human"}, TransferAgentSessionControl(o) PROVE TypeOK'
<1>1. session.revision + 1 \in Nat
  BY DEF TypeOK, SessionRows
<1>2. session' \in SessionRows
  BY <1>1 DEF TypeOK, SessionRows, TransferAgentSessionControl
<1> QED BY <1>2 DEF TypeOK, TransferAgentSessionControl

\* So does an admission (AcquireHumanPromptLease).
LEMMA AcquireTypes ==
    ASSUME TypeOK, NEW p \in Persons, AcquireHumanPromptLease(p) PROVE TypeOK'
<1>1. session' \in SessionRows
  BY DEF TypeOK, SessionRows, AcquireHumanPromptLease
<1>2. person' \in [Persons -> Processes]
  BY DEF TypeOK, Processes, AcquireHumanPromptLease, PersonGoes
<1> QED BY <1>1, <1>2 DEF TypeOK, AcquireHumanPromptLease

\* So does a release (ReleaseHumanPromptLease).
LEMMA ReleaseTypes ==
    ASSUME TypeOK, NEW p \in Persons, Release(p) PROVE TypeOK'
<1>1. session' \in SessionRows
  BY DEF TypeOK, SessionRows, Release
<1>2. person' \in [Persons -> Processes]
  BY DEF TypeOK, Processes, Release, PersonGoes
<1> QED BY <1>1, <1>2 DEF TypeOK, Release

\* A transfer of control, and the steps of the turn of the automation and of the export.
LEMMA AutomationSteps ==
    ASSUME DistinctNames, ControlInv,
           \/ \E o \in {"automation", "human"} : TransferAgentSessionControl(o)
           \/ StartTurn \/ Reserve \/ ConnectRuntime \/ Bind \/ ValidatePrompt \/ PromptTurn \/ EndTurn \/ LoseTurnLease
           \/ ExpireHumanPromptLease \/ Export
    PROVE  ControlInv'
<1> USE DEF DistinctNames, ControlInv, TypeOK, SessionRows, Processes, ControlHeld, Admitted, PromptAdmitted, ExportExclusive, Busy, Unlocked
<1>1. ASSUME NEW o \in {"automation", "human"}, TransferAgentSessionControl(o) PROVE ControlInv'
  <2>1. TypeOK'
    BY <1>1, TransferTypes
  <2> QED BY <1>1, <2>1 DEF TransferAgentSessionControl
<1>2. CASE StartTurn
  BY <1>2 DEF StartTurn
<1>3. CASE Reserve
  BY <1>3 DEF Reserve, RunnerGoes, TurnFence
<1>4. CASE ConnectRuntime
  BY <1>4 DEF ConnectRuntime
<1>5. CASE Bind
  BY <1>5 DEF Bind, RunnerGoes, TurnFence
<1>6. CASE ValidatePrompt
  BY <1>6 DEF ValidatePrompt, RunnerGoes
<1>7. CASE PromptTurn
  BY <1>7 DEF PromptTurn
<1>8. CASE EndTurn
  BY <1>8 DEF EndTurn
<1>9. CASE LoseTurnLease
  BY <1>9 DEF LoseTurnLease
<1>10. CASE ExpireHumanPromptLease
  BY <1>10 DEF ExpireHumanPromptLease
<1>11. CASE Export
  BY <1>11 DEF Export
<1> QED BY <1>1, <1>2, <1>3, <1>4, <1>5, <1>6, <1>7, <1>8, <1>9, <1>10, <1>11

\* The steps of a process that prompts for a person.
LEMMA PersonSteps ==
    ASSUME DistinctNames, ControlInv, NEW p \in Persons,
           \/ ReadSession(p) \/ AcquireHumanPromptLease(p) \/ ReplayHistory(p) \/ PromptPerson(p)
           \/ PromptReturns(p) \/ Release(p) \/ PersonDies(p) \/ PromptEndsAlone(p)
    PROVE  ControlInv'
<1> USE DEF DistinctNames, ControlInv, TypeOK, SessionRows, Processes, ControlHeld, Admitted, PromptAdmitted, ExportExclusive, Busy, Unlocked
<1>1. CASE ReadSession(p)
  BY <1>1 DEF ReadSession
<1>2. CASE AcquireHumanPromptLease(p)
  <2> USE DEF AcquireHumanPromptLease, PersonGoes
  <2>1. CASE Admissible(p)
    <3>1. session' = [session EXCEPT !.token = p, !.live = TRUE] /\ person' = [person EXCEPT ![p].at = "connect"]
      BY <1>2, <2>1
    <3>2. TypeOK'
      BY <1>2, AcquireTypes
    <3>3. ControlHeld' /\ ExportExclusive'
      BY <1>2, <2>1, <3>1 DEF Admissible
    <3>4. \A q \in Persons : Admitted(q)' /\ PromptAdmitted(q)'
      BY <1>2, <2>1, <3>1 DEF Admissible
    <3> QED BY <1>2, <3>2, <3>3, <3>4
  <2>2. CASE ~Admissible(p)
    BY <1>2, <2>2
  <2> QED BY <2>1, <2>2
<1>3. CASE ReplayHistory(p)
  BY <1>3 DEF ReplayHistory, PersonGoes
<1>4. CASE PromptPerson(p)
  BY <1>4 DEF PromptPerson, PersonGoes
<1>5. CASE PromptReturns(p)
  BY <1>5 DEF PromptReturns, PersonGoes
<1>6. CASE Release(p)
  <2> USE DEF Release, Releases, PersonGoes
  <2>1. CASE person[p].at = "release" /\ session.token = p
    <3>1. session' = [session EXCEPT !.token = "none", !.live = FALSE] /\ person' = [person EXCEPT ![p].at = "idle"]
      BY <1>6, <2>1
    <3>2. TypeOK'
      BY <1>6, ReleaseTypes
    <3>3. ControlHeld' /\ ExportExclusive'
      BY <1>6, <2>1, <3>1
    <3>4. \A q \in Persons : Admitted(q)' /\ PromptAdmitted(q)'
      BY <1>6, <2>1, <3>1
    <3> QED BY <1>6, <3>2, <3>3, <3>4
  <2>2. CASE ~(person[p].at = "release" /\ session.token = p)
    BY <1>6, <2>2
  <2> QED BY <2>1, <2>2
<1>7. CASE PersonDies(p)
  BY <1>7 DEF PersonDies, PersonGoes
<1>8. CASE PromptEndsAlone(p)
  BY <1>8 DEF PromptEndsAlone
<1> QED BY <1>1, <1>2, <1>3, <1>4, <1>5, <1>6, <1>7, <1>8

\* The invariant holds in every reachable state.
THEOREM Invariance == ASSUME DistinctNames PROVE ControlSpec => []ControlInv
<1>1. ControlInit => ControlInv
  BY ControlInitially
<1>2. ControlInv /\ [ControlNext]_controlVars => ControlInv'
  <2> SUFFICES ASSUME ControlInv, [ControlNext]_controlVars PROVE ControlInv'
    OBVIOUS
  <2>1. CASE ControlNext
    BY <2>1, AutomationSteps, PersonSteps DEF ControlNext
  <2>2. CASE UNCHANGED controlVars
    BY <2>2 DEF controlVars, ControlInv, TypeOK, SessionRows, Processes, ControlHeld, Admitted, PromptAdmitted, ExportExclusive, Busy
  <2> QED BY <2>1, <2>2
<1> QED BY <1>1, <1>2, PTL DEF ControlSpec

\* The state of a session has one writer, a turn or a person, and none while it is exported.
THEOREM OneWriterAlways == ASSUME DistinctNames PROVE ControlSpec => []OneWriter
<1>1. ControlInv => OneWriter
  BY DEF DistinctNames, ControlInv, TypeOK, SessionRows, Processes, ControlHeld, PromptAdmitted, ExportExclusive, Busy, OneWriter
<1> QED BY <1>1, Invariance, PTL

-----------------------------------------------------------------------------
(* The login of the installation: a file that is replaced with every       *)
(* renewal, whatever step its owner dies at.  The intent that precedes the *)
(* renewal stays on disk until its answer does, so that a token which the  *)
(* provider has replaced is never on disk without it or a block; and a     *)
(* login is begun and completed between the same two logouts.              *)

authVars == <<disk, holder, memory, broken, login, renewal, provider, logouts, reports, misused>>
AuthSpec == AuthInit /\ [][AuthNext]_authVars

AuthStates == [token : Nat, since : Nat, generation : Nat, authBlocked : BOOLEAN, quotaBlocked : BOOLEAN,
               refreshPending : BOOLEAN]
Renewals   == [at : {"idle", "asked", "answered"}, answer : {"none", "renewed", "refused", "temporary"}]
AuthTypes ==
    /\ disk \in AuthStates
    /\ memory \in AuthStates
    /\ broken \in BOOLEAN
    /\ login \in [generation : Nat, since : Nat]
    /\ renewal \in Renewals
    /\ provider \in [issued : Nat, spent : SUBSET Nat, unheard : SUBSET Nat]
    /\ logouts \in Nat

\* The provider has replaced tokens it issued, and the Manager has tokens it issued.
Issued ==
    /\ \A token \in provider.spent : token <= provider.issued
    /\ disk.token <= provider.issued
    /\ memory.token <= provider.issued

\* Replaced, and the provider's answer arrived.
Replaced(token) == token \in provider.spent \ provider.unheard

\* What the Manager remembers is what is on disk; a renewal has its intent there, and nothing else does.
RemembersDisk ==
    /\ Owned => disk = memory
    /\ renewal.at = "idle" => renewal = NoRenewal
    /\ renewal.at # "idle" => Owned /\ memory.refreshPending /\ memory.token # 0
    /\ renewal.at = "answered" => renewal.answer # "none"
    /\ Quiet => ~memory.refreshPending

\* A token that was replaced is not used again, until the login is blocked: its renewal has an intent on disk.
RenewalHasIntent ==
    /\ Replaced(disk.token) => disk.refreshPending \/ disk.authBlocked
    /\ renewal.at = "asked" \/ renewal.answer = "temporary" => ~Replaced(memory.token)
    /\ renewal.answer = "renewed" => provider.issued \notin provider.spent

\* A sign-in under way, and a login, were begun after the last logout.
LoginsSurvive ==
    /\ login # NoLogin => login.since = logouts
    /\ disk.token # 0 => disk.since = logouts

CredentialInv ==
    /\ AuthTypes /\ Issued /\ RemembersDisk /\ RenewalHasIntent /\ LoginsSurvive
    /\ ~misused

\* The initial state satisfies it.
LEMMA CredentialInitially == ASSUME AuthInit PROVE CredentialInv
<1> USE DEF AuthInit, NewState, Nobody, CredentialInv, AuthTypes, AuthStates, Renewals, Issued, Replaced, RemembersDisk, RenewalHasIntent, LoginsSurvive, Owned, Quiet, NoRenewal, NoLogin
<1>1. AuthTypes
  OBVIOUS
<1>2. Issued /\ RemembersDisk
  OBVIOUS
<1>3. RenewalHasIntent /\ LoginsSurvive
  OBVIOUS
<1> QED BY <1>1, <1>2, <1>3

\* A save leaves the old state or the new one on disk, and the Manager broken or with the new one (save).
LEMMA SaveKeeps ==
    ASSUME AuthTypes, NEW next \in AuthStates, Save(next)
    PROVE  /\ disk' \in AuthStates /\ memory' \in AuthStates /\ broken' \in BOOLEAN
           /\ disk' = disk \/ disk' = next
           /\ \/ disk' = next /\ memory' = next /\ broken' = broken
              \/ memory' = memory /\ broken'
  BY DEF AuthTypes, Save

\* A process that takes the lock blocks a login whose renewal was cut short (New).
LEMMA OpenManagerKeeps == ASSUME CredentialInv, NEW p \in {"server", "operator"}, OpenManager(p) PROVE CredentialInv'
<1> USE DEF OpenManager, Recovered, Nobody, CredentialInv, AuthTypes, AuthStates, Renewals, Issued, Replaced, RemembersDisk, RenewalHasIntent, LoginsSurvive, Owned, Quiet, NoRenewal, NoLogin
<1>1. AuthTypes'
  OBVIOUS
<1>2. Issued'
  OBVIOUS
<1>3. RemembersDisk'
  OBVIOUS
<1>4. RenewalHasIntent'
  OBVIOUS
<1>5. LoginsSurvive'
  OBVIOUS
<1>6. ~misused'
  OBVIOUS
<1> QED BY <1>1, <1>2, <1>3, <1>4, <1>5, <1>6

\* A process that ends leaves the file as it is, the intent included (the writer lock).
LEMMA ExitKeeps == ASSUME CredentialInv, Exit PROVE CredentialInv'
<1> USE DEF Exit, Nobody, NewState, CredentialInv, AuthTypes, AuthStates, Renewals, Issued, Replaced, RemembersDisk, RenewalHasIntent, LoginsSurvive, Owned, Quiet, NoRenewal, NoLogin
<1>1. AuthTypes'
  OBVIOUS
<1>2. Issued'
  OBVIOUS
<1>3. RemembersDisk'
  OBVIOUS
<1>4. RenewalHasIntent'
  OBVIOUS
<1>5. LoginsSurvive'
  OBVIOUS
<1>6. ~misused'
  OBVIOUS
<1> QED BY <1>1, <1>2, <1>3, <1>4, <1>5, <1>6

\* A renewal begins on a token that was not replaced, with its intent on disk (Manager.refresh).
LEMMA BeginRefreshKeeps == ASSUME CredentialInv, BeginRefresh PROVE CredentialInv'
<1> USE DEF BeginRefresh, Save, Saved, CredentialInv, AuthTypes, AuthStates, Renewals, Issued, Replaced, RemembersDisk, RenewalHasIntent, LoginsSurvive, Owned, Quiet, NoRenewal, NoLogin
<1>1. AuthTypes'
  OBVIOUS
<1>2. Issued'
  OBVIOUS
<1>3. RemembersDisk'
  OBVIOUS
<1>4. RenewalHasIntent'
  OBVIOUS
<1>5. LoginsSurvive'
  OBVIOUS
<1>6. ~misused'
  OBVIOUS
<1> QED BY <1>1, <1>2, <1>3, <1>4, <1>5, <1>6

\* The answer of the provider (Manager.refresh).
LEMMA RenewKeeps == ASSUME CredentialInv, NEW answer \in {"renewed", "refused", "temporary", "lost"}, Renew(answer) PROVE CredentialInv'
<1> USE DEF Renew, CredentialInv, AuthTypes, AuthStates, Renewals, Issued, Replaced, RemembersDisk, RenewalHasIntent, LoginsSurvive, Owned, Quiet, NoRenewal, NoLogin
<1>1. AuthTypes'
  OBVIOUS
<1>2. Issued'
  OBVIOUS
<1>3. RemembersDisk'
  OBVIOUS
<1>4. RenewalHasIntent'
  OBVIOUS
<1>5. LoginsSurvive'
  OBVIOUS
<1>6. ~misused'
  OBVIOUS
<1> QED BY <1>1, <1>2, <1>3, <1>4, <1>5, <1>6

\* The answer is recorded, or the Manager is broken and the intent may stay (Manager.refresh).
LEMMA FinishRefreshKeeps == ASSUME CredentialInv, FinishRefresh PROVE CredentialInv'
<1> DEFINE next == [memory EXCEPT !.refreshPending = FALSE,
                                  !.authBlocked = @ \/ renewal.answer = "refused",
                                  !.token = IF renewal.answer = "renewed" THEN provider.issued ELSE @]
<1>1. /\ Save(next) /\ renewal.at = "answered" /\ renewal' = NoRenewal
      /\ UNCHANGED <<holder, login, provider, logouts, reports, misused>>
  BY DEF FinishRefresh
<1>2. next \in AuthStates
  BY DEF CredentialInv, AuthTypes, AuthStates
<1>3. /\ ~next.refreshPending /\ next.since = memory.since
      /\ next.token = IF renewal.answer = "renewed" THEN provider.issued ELSE memory.token
      /\ renewal.answer = "refused" => next.authBlocked
      /\ memory.authBlocked => next.authBlocked
  BY DEF CredentialInv, AuthTypes, AuthStates
<1>4. /\ disk' \in AuthStates /\ memory' \in AuthStates /\ broken' \in BOOLEAN
      /\ disk' = disk \/ disk' = next
      /\ \/ disk' = next /\ memory' = next /\ broken' = broken
         \/ memory' = memory /\ broken'
  BY <1>1, <1>2, SaveKeeps DEF CredentialInv
<1> HIDE DEF next
<1> USE DEF CredentialInv, AuthTypes, AuthStates, Renewals, Issued, Replaced, RemembersDisk, RenewalHasIntent, LoginsSurvive, Owned, Quiet, NoRenewal, NoLogin
<1>5. AuthTypes'
  BY <1>1, <1>4
<1>6. Issued'
  BY <1>1, <1>3, <1>4
<1>a. disk = memory /\ memory.refreshPending /\ ~broken
  BY <1>1
<1>b. renewal'.at = "idle" /\ renewal'.answer = "none"
  BY <1>1
<1>7. RemembersDisk'
  BY <1>1, <1>3, <1>4
<1>8. RenewalHasIntent'
  <2>1. CASE disk' = disk
    BY <1>1, <1>a, <1>b, <2>1
  <2>2. CASE disk' = next /\ renewal.answer = "renewed"
    BY <1>1, <1>3, <1>b, <2>2
  <2>3. CASE disk' = next /\ renewal.answer # "renewed"
    BY <1>1, <1>3, <1>a, <1>b, <2>3
  <2> QED BY <1>4, <2>1, <2>2, <2>3
<1>9. LoginsSurvive'
  BY <1>1, <1>3, <1>4
<1> QED BY <1>1, <1>5, <1>6, <1>7, <1>8, <1>9

\* A sign-in is begun (BeginLogin).
LEMMA BeginLoginKeeps == ASSUME CredentialInv, BeginLogin PROVE CredentialInv'
<1> USE DEF BeginLogin, CredentialInv, AuthTypes, AuthStates, Renewals, Issued, Replaced, RemembersDisk, RenewalHasIntent, LoginsSurvive, Owned, Quiet, NoRenewal, NoLogin
<1>1. AuthTypes'
  OBVIOUS
<1>2. Issued'
  OBVIOUS
<1>3. RemembersDisk'
  OBVIOUS
<1>4. RenewalHasIntent'
  OBVIOUS
<1>5. LoginsSurvive'
  OBVIOUS
<1>6. ~misused'
  OBVIOUS
<1> QED BY <1>1, <1>2, <1>3, <1>4, <1>5, <1>6

\* A sign-in is completed with a token of its own (CompleteLogin).
LEMMA CompleteLoginKeeps == ASSUME CredentialInv, NEW verified \in BOOLEAN, CompleteLogin(verified) PROVE CredentialInv'
<1>1. CASE UNCHANGED <<provider, disk, memory, broken>>
  <2> USE <1>1 DEF CompleteLogin, CredentialInv, AuthTypes, AuthStates, Renewals, Issued, Replaced, RemembersDisk, RenewalHasIntent, LoginsSurvive, Owned, Quiet, NoRenewal, NoLogin
  <2>1. AuthTypes' /\ Issued' /\ RemembersDisk'
    OBVIOUS
  <2>2. RenewalHasIntent' /\ LoginsSurvive'
    OBVIOUS
  <2> QED BY <2>1, <2>2
<1>2. CASE ~UNCHANGED <<provider, disk, memory, broken>>
  <2> DEFINE next == [token |-> provider.issued + 1, since |-> login.since,
                      generation |-> memory.generation + 1, authBlocked |-> FALSE,
                      quotaBlocked |-> memory.quotaBlocked, refreshPending |-> FALSE]
  <2>1. /\ Save(next) /\ Quiet /\ login # NoLogin /\ login' = NoLogin
        /\ provider' = [provider EXCEPT !.issued = @ + 1]
        /\ UNCHANGED <<holder, renewal, logouts, reports, misused>>
    BY <1>2 DEF CompleteLogin
  <2>2. next \in AuthStates
    BY DEF CredentialInv, AuthTypes, AuthStates
  <2>3. next.token = provider.issued + 1 /\ next.since = login.since /\ ~next.refreshPending
    BY DEF CredentialInv, AuthTypes, AuthStates
  <2>4. /\ disk' \in AuthStates /\ memory' \in AuthStates /\ broken' \in BOOLEAN
        /\ disk' = disk \/ disk' = next
        /\ \/ disk' = next /\ memory' = next /\ broken' = broken
           \/ memory' = memory /\ broken'
    BY <2>1, <2>2, SaveKeeps DEF CredentialInv
  <2> HIDE DEF next
  <2> USE DEF CredentialInv, AuthTypes, AuthStates, Renewals, Issued, Replaced, RemembersDisk, RenewalHasIntent, LoginsSurvive, Owned, Quiet, NoRenewal, NoLogin
  <2>5. AuthTypes'
    BY <2>1, <2>4
  <2>6. Issued'
    BY <2>1, <2>3, <2>4
  <2>7. RemembersDisk'
    BY <2>1, <2>3, <2>4
  <2>8. RenewalHasIntent'
    BY <2>1, <2>3, <2>4
  <2>9. LoginsSurvive'
    BY <2>1, <2>3, <2>4
  <2> QED BY <2>1, <2>5, <2>6, <2>7, <2>8, <2>9
<1> QED BY <1>1, <1>2

\* A logout forgets the token and the sign-in under way (Logout).
LEMMA LogoutKeeps == ASSUME CredentialInv, Logout PROVE CredentialInv'
<1> DEFINE next == SignedOut
<1>1. /\ Save(next) /\ Quiet /\ UNCHANGED <<holder, renewal, provider, reports, misused>>
      /\ IF Saved(next) THEN login' = NoLogin /\ logouts' = logouts + 1 ELSE UNCHANGED <<login, logouts>>
  BY DEF Logout
<1>g. memory \in AuthStates /\ memory.generation + 1 \in Nat
  BY DEF CredentialInv, AuthTypes, AuthStates
<1>2. next \in AuthStates
  BY <1>g DEF AuthStates, SignedOut
<1>3. next.token = 0 /\ ~next.refreshPending /\ next.authBlocked
  BY DEF CredentialInv, AuthTypes, AuthStates, SignedOut
<1>4. /\ disk' \in AuthStates /\ memory' \in AuthStates /\ broken' \in BOOLEAN
      /\ disk' = disk \/ disk' = next
      /\ \/ disk' = next /\ memory' = next /\ broken' = broken
         \/ memory' = memory /\ broken'
  BY <1>1, <1>2, SaveKeeps DEF CredentialInv
<1> HIDE DEF next
<1> USE DEF Saved, CredentialInv, AuthTypes, AuthStates, Renewals, Issued, Replaced, RemembersDisk, RenewalHasIntent, LoginsSurvive, Owned, Quiet, NoRenewal, NoLogin
<1>5. AuthTypes'
  BY <1>1, <1>4
<1>6. Issued'
  BY <1>1, <1>3, <1>4
<1>7. RemembersDisk'
  BY <1>1, <1>3, <1>4
<1>8. RenewalHasIntent'
  BY <1>1, <1>3, <1>4
<1>9. LoginsSurvive'
  <2>1. CASE Saved(next)
    <3>1. login' = NoLogin /\ disk' = next
      BY <1>1, <1>4, <2>1
    <3> QED BY <1>3, <3>1
  <2>2. CASE ~Saved(next)
    <3>1. UNCHANGED <<login, logouts>>
      BY <1>1, <2>2
    <3> QED BY <1>3, <1>4, <3>1
  <2> QED BY <2>1, <2>2
<1> QED BY <1>1, <1>5, <1>6, <1>7, <1>8, <1>9

\* An unblock lifts no block of the login (Unblock).
LEMMA UnblockKeeps == ASSUME CredentialInv, Unblock PROVE CredentialInv'
<1> DEFINE next == [memory EXCEPT !.quotaBlocked = FALSE, !.generation = @ + 1]
<1>1. Save(next) /\ Quiet /\ UNCHANGED <<holder, login, renewal, provider, logouts, reports, misused>>
  BY DEF Unblock
<1>g. memory \in AuthStates /\ memory.generation + 1 \in Nat
  BY DEF CredentialInv, AuthTypes, AuthStates
<1>2. next \in AuthStates
  BY <1>g DEF AuthStates
<1>3. /\ next.token = memory.token /\ next.since = memory.since
      /\ next.authBlocked = memory.authBlocked /\ next.refreshPending = memory.refreshPending
  BY DEF CredentialInv, AuthTypes, AuthStates
<1>4. /\ disk' \in AuthStates /\ memory' \in AuthStates /\ broken' \in BOOLEAN
      /\ disk' = disk \/ disk' = next
      /\ \/ disk' = next /\ memory' = next /\ broken' = broken
         \/ memory' = memory /\ broken'
  BY <1>1, <1>2, SaveKeeps DEF CredentialInv
<1> HIDE DEF next
<1> USE DEF CredentialInv, AuthTypes, AuthStates, Renewals, Issued, Replaced, RemembersDisk, RenewalHasIntent, LoginsSurvive, Owned, Quiet, NoRenewal, NoLogin
<1>5. AuthTypes'
  BY <1>1, <1>4
<1>6. Issued'
  BY <1>1, <1>3, <1>4
<1>7. RemembersDisk'
  BY <1>1, <1>3, <1>4
<1>8. RenewalHasIntent'
  BY <1>1, <1>3, <1>4
<1>9. LoginsSurvive'
  BY <1>1, <1>3, <1>4
<1> QED BY <1>1, <1>5, <1>6, <1>7, <1>8, <1>9

\* A Turn reports what its provider refused (Report).
LEMMA ReportKeeps ==
    ASSUME CredentialInv, NEW generation \in Nat, NEW quota \in BOOLEAN, Report(generation, quota)
    PROVE  CredentialInv'
<1> DEFINE next == IF quota THEN [memory EXCEPT !.quotaBlocked = TRUE] ELSE [memory EXCEPT !.authBlocked = TRUE]
<1>1. /\ Save(next) \/ UNCHANGED <<disk, memory, broken>>
      /\ Quiet /\ UNCHANGED <<holder, login, renewal, provider, logouts, misused>>
  BY DEF Report
<1>2. next \in AuthStates
  BY DEF CredentialInv, AuthTypes, AuthStates
<1>3. /\ next.token = memory.token /\ next.since = memory.since /\ next.refreshPending = memory.refreshPending
      /\ memory.authBlocked => next.authBlocked
  BY DEF CredentialInv, AuthTypes, AuthStates
<1>4. /\ disk' \in AuthStates /\ memory' \in AuthStates /\ broken' \in BOOLEAN
      /\ disk' = disk \/ disk' = next
      /\ \/ disk' = next /\ memory' = next /\ broken' = broken
         \/ memory' = memory /\ broken'
         \/ UNCHANGED <<disk, memory, broken>>
  <2>1. CASE Save(next)
    BY <2>1, <1>2, SaveKeeps DEF CredentialInv
  <2>2. CASE UNCHANGED <<disk, memory, broken>>
    BY <2>2 DEF CredentialInv, AuthTypes
  <2> QED BY <1>1, <2>1, <2>2
<1> HIDE DEF next
<1> USE DEF CredentialInv, AuthTypes, AuthStates, Renewals, Issued, Replaced, RemembersDisk, RenewalHasIntent, LoginsSurvive, Owned, Quiet, NoRenewal, NoLogin
<1>5. AuthTypes'
  BY <1>1, <1>4
<1>6. Issued'
  BY <1>1, <1>3, <1>4
<1>7. RemembersDisk'
  BY <1>1, <1>3, <1>4
<1>8. RenewalHasIntent'
  BY <1>1, <1>3, <1>4
<1>9. LoginsSurvive'
  BY <1>1, <1>3, <1>4
<1> QED BY <1>1, <1>5, <1>6, <1>7, <1>8, <1>9

\* The invariant holds in every reachable state.
THEOREM AuthInvariance == AuthSpec => []CredentialInv
<1>1. AuthInit => CredentialInv
  BY CredentialInitially
<1>2. CredentialInv /\ [AuthNext]_authVars => CredentialInv'
  <2> SUFFICES ASSUME CredentialInv, [AuthNext]_authVars PROVE CredentialInv'
    OBVIOUS
  <2>1. ASSUME NEW generation \in 1 .. memory.generation, NEW quota \in BOOLEAN, Report(generation, quota)
        PROVE  CredentialInv'
    <3>1. generation \in Nat
      BY DEF CredentialInv, AuthTypes, AuthStates
    <3> QED BY <2>1, <3>1, ReportKeeps
  <2>2. CASE AuthNext
    BY <2>1, <2>2, OpenManagerKeeps, ExitKeeps, BeginRefreshKeeps, RenewKeeps, FinishRefreshKeeps, BeginLoginKeeps,
       CompleteLoginKeeps, LogoutKeeps, UnblockKeeps DEF AuthNext
  <2>3. CASE UNCHANGED authVars
    BY <2>3 DEF authVars, CredentialInv, AuthTypes, AuthStates, Renewals, Issued, Replaced, RemembersDisk, RenewalHasIntent, LoginsSurvive, Owned, Quiet, NoRenewal, NoLogin
  <2> QED BY <2>2, <2>3
<1> QED BY <1>1, <1>2, PTL DEF AuthSpec

\* The credential in use is the newest one, and of a login that no logout has ended (Manager).
THEOREM CredentialIsCurrentAlways == AuthSpec => []CredentialIsCurrent
<1>1. CredentialInv => CredentialIsCurrent
  BY DEF CredentialInv, LoginsSurvive, CredentialIsCurrent, SpentTokenIsNotPresented, LogoutHolds
<1> QED BY <1>1, AuthInvariance, PTL

-----------------------------------------------------------------------------
(* The registry that executions share: when it may be asked.               *)

\* The word that stands for the absence of a holder is no fetcher.
HolderIsNobody == NoHolder \notin Fetchers

-----------------------------------------------------------------------------
(* The inductive invariant.                                                *)

RetryStates == [failures : Nat, until : Nat]

\* A fetcher that is idle is about no document in particular.
Fetches == [at : {"idle", "waiting", "locked", "fetching", "published", "failed", "throttled", "recording"},
            ref : Refs \cup {NoFetch.ref}, asked : Nat, seen : RetryStates]

CacheTypeOK ==
    /\ time \in Nat
    /\ locks \in [Refs -> Fetchers \cup {NoHolder}] /\ throttle \in Fetchers \cup {NoHolder}
    /\ cooldown \in [Refs -> RetryStates] /\ origin \in RetryStates
    /\ fetcher \in [Fetchers -> Fetches]

Holding == {"locked", "fetching", "published", "failed", "throttled", "recording"}

\* Whoever is past the lock of a document holds it, and whoever records a failure of the registry holds the registry's.
LocksInv == \A f \in Fetchers :
    /\ fetcher[f].at # "idle" => fetcher[f].ref \in Refs
    /\ fetcher[f].at \in Holding => locks[fetcher[f].ref] = f
    /\ fetcher[f].at = "recording" => throttle = f /\ fetcher[f].seen = origin

\* Under the lock, a document that was missing is missing still and its cooldown over, as far as it can be read.
FetchingInv == \A f \in Fetchers :
    fetcher[f].at = "fetching" => ~Cached(fetcher[f].ref) /\ ~Cools(cooldown[fetcher[f].ref])

CacheInv == CacheTypeOK /\ LocksInv /\ FetchingInv

-----------------------------------------------------------------------------
LEMMA CacheInitInv == CacheInit => CacheInv
<1>. SUFFICES ASSUME CacheInit PROVE CacheInv
  OBVIOUS
<1>1. NoState \in RetryStates
  BY DEF NoState, RetryStates
<1>2. NoFetch \in Fetches /\ NoFetch.at = "idle"
  BY <1>1 DEF NoFetch, Fetches
<1>3. CacheTypeOK
  BY <1>1, <1>2 DEF CacheInit, CacheTypeOK
<1>4. LocksInv /\ FetchingInv
  BY <1>2 DEF CacheInit, LocksInv, FetchingInv, Holding
<1>. QED  BY <1>3, <1>4 DEF CacheInv

\* The next time a registry may be asked is never before one that was read back and still runs, and while there is room
\* for a failure more, it can be read back too.
LEMMA NextRetryIsLater ==
    ASSUME time \in Nat, NEW seen \in RetryStates, NEW asked \in Nat, NEW backoff \in Backoffs(seen)
    PROVE  /\ NextRetry(seen, asked, backoff) \in RetryStates
           /\ Cools(seen) => NextRetry(seen, asked, backoff).until >= seen.until
           /\ seen.failures < ReadableFailures => Readable(NextRetry(seen, asked, backoff))
<1>1. backoff \in Nat
  BY DEF Backoffs
<1> DEFINE failures == IF seen.failures <= ReadableFailures THEN seen.failures + 1 ELSE seen.failures
           deadline == time + (IF asked > backoff THEN asked ELSE backoff)
           until == IF Cools(seen) /\ seen.until > deadline THEN seen.until ELSE deadline
<1>2. NextRetry(seen, asked, backoff) = [failures |-> failures, until |-> until]
  BY DEF NextRetry
<1>3. failures \in Nat /\ (seen.failures < ReadableFailures => failures \in 1 .. ReadableFailures)
  BY CacheAssumption DEF RetryStates
<1>4. deadline \in Nat
  BY <1>1
<1>. HIDE DEF failures, deadline
<1>5. until \in Nat /\ (Cools(seen) => until >= seen.until)
  BY <1>4 DEF RetryStates
<1>. HIDE DEF until
<1>. QED  BY <1>2, <1>3, <1>5 DEF RetryStates, Readable

\* A fetch that ends lets go of its own locks only.
LEMMA EndsKept ==
    ASSUME CacheInv, NEW f \in Fetchers, Ends(f)
    PROVE  /\ locks' \in [Refs -> Fetchers \cup {NoHolder}] /\ throttle' \in Fetchers \cup {NoHolder}
           /\ fetcher' \in [Fetchers -> Fetches] /\ fetcher'[f].at = "idle"
           /\ \A g \in Fetchers \ {f} :
                /\ fetcher'[g] = fetcher[g]
                /\ fetcher[g].at \in Holding => locks'[fetcher[g].ref] = g
                /\ fetcher[g].at = "recording" => throttle' = g
<1>1. NoFetch \in Fetches /\ NoFetch.at = "idle"
  BY DEF NoFetch, Fetches, NoState, RetryStates
<1>2. /\ fetcher' = [fetcher EXCEPT ![f] = NoFetch]
      /\ locks' = [r \in Refs |-> IF locks[r] = f THEN NoHolder ELSE locks[r]]
      /\ throttle' = IF throttle = f THEN NoHolder ELSE throttle
  BY DEF Ends
<1>3. /\ fetcher \in [Fetchers -> Fetches] /\ locks \in [Refs -> Fetchers \cup {NoHolder}]
      /\ throttle \in Fetchers \cup {NoHolder}
  BY DEF CacheInv, CacheTypeOK
<1>4. fetcher' \in [Fetchers -> Fetches] /\ fetcher'[f].at = "idle" /\ \A g \in Fetchers \ {f} : fetcher'[g] = fetcher[g]
  BY <1>1, <1>2, <1>3
<1>5. ASSUME NEW g \in Fetchers \ {f}
      PROVE  /\ fetcher[g].at \in Holding => locks'[fetcher[g].ref] = g
             /\ fetcher[g].at = "recording" => throttle' = g
  BY <1>2, <1>3 DEF CacheInv, LocksInv, Holding
<1>. QED  BY <1>2, <1>3, <1>4, <1>5

\* A step of a fetcher that keeps the locks and the cooldowns.
LEMMA GoesKept ==
    ASSUME CacheInv, NEW f \in Fetchers, NEW n \in Fetches, fetcher' = [fetcher EXCEPT ![f] = n],
           UNCHANGED <<time, locks, throttle, cooldown, origin>>,
           n.at # "idle" => n.ref \in Refs,
           n.at \in Holding => locks[n.ref] = f,
           n.at = "recording" => throttle = f /\ n.seen = origin,
           n.at = "fetching" => ~Cached(n.ref) /\ ~Cools(cooldown[n.ref]),
           \/ UNCHANGED documents
           \/ documents' = documents \cup {n.ref} /\ n.at \in Holding \ {"fetching"}
    PROVE  CacheInv'
<1>1. fetcher' \in [Fetchers -> Fetches] /\ fetcher'[f] = n /\ \A g \in Fetchers \ {f} : fetcher'[g] = fetcher[g]
  BY DEF CacheInv, CacheTypeOK
<1>2. CacheTypeOK'
  BY <1>1 DEF CacheInv, CacheTypeOK
<1>3. LocksInv'
  BY <1>1 DEF CacheInv, LocksInv
<1>4. FetchingInv'
  <2>. SUFFICES ASSUME NEW g \in Fetchers, fetcher'[g].at = "fetching"
                PROVE  fetcher'[g].ref \notin documents' /\ ~Cools(cooldown[fetcher[g].ref])'
    BY DEF FetchingInv, Cached
  <2>1. CASE g = f
    BY <2>1, <1>1 DEF Cached, Cools
  <2>2. CASE g # f
    <3>1. fetcher'[g] = fetcher[g] /\ fetcher[g].at \in Holding /\ fetcher[g].at = "fetching"
      BY <2>2, <1>1 DEF Holding
    <3>2. locks[fetcher[g].ref] = g /\ ~Cached(fetcher[g].ref) /\ ~Cools(cooldown[fetcher[g].ref])
      BY <3>1 DEF CacheInv, LocksInv, FetchingInv
    <3>3. fetcher[g].ref \notin documents'
      BY <2>2, <3>2 DEF Cached
    <3>. QED  BY <3>1, <3>2, <3>3 DEF Cools
  <2>. QED  BY <2>1, <2>2
<1>. QED  BY <1>2, <1>3, <1>4 DEF CacheInv

\* A fetch that ends, and what it wrote under the locks it held.
LEMMA WrittenKept ==
    ASSUME CacheInv, NEW f \in Fetchers, Ends(f), UNCHANGED <<time, documents>>,
           cooldown' \in [Refs -> RetryStates], origin' \in RetryStates,
           \/ UNCHANGED cooldown
           \/ fetcher[f].at \in Holding /\ \A r \in Refs \ {fetcher[f].ref} : cooldown'[r] = cooldown[r],
           UNCHANGED origin \/ fetcher[f].at = "recording"
    PROVE  CacheInv'
<1>1. CacheTypeOK'
  BY EndsKept DEF CacheInv, CacheTypeOK
<1>2. \A g \in Fetchers \ {f} : fetcher[g].at = "recording" => origin' = origin
  BY DEF CacheInv, LocksInv
<1>3. LocksInv'
  <2>. SUFFICES ASSUME NEW g \in Fetchers
                PROVE  /\ fetcher'[g].at # "idle" => fetcher'[g].ref \in Refs
                       /\ fetcher'[g].at \in Holding => locks'[fetcher'[g].ref] = g
                       /\ fetcher'[g].at = "recording" => throttle' = g /\ fetcher'[g].seen = origin'
    BY DEF LocksInv
  <2>1. CASE g = f
    BY <2>1, EndsKept DEF Holding
  <2>2. CASE g # f
    BY <2>2, <1>2, EndsKept DEF CacheInv, LocksInv
  <2>. QED  BY <2>1, <2>2
<1>4. FetchingInv'
  <2>. SUFFICES ASSUME NEW g \in Fetchers, fetcher'[g].at = "fetching"
                PROVE  fetcher'[g].ref \notin documents' /\ ~Cools(cooldown[fetcher[g].ref])'
    BY DEF FetchingInv, Cached
  <2>1. g # f /\ fetcher'[g] = fetcher[g] /\ fetcher[g].at = "fetching" /\ fetcher[g].at \in Holding
    BY EndsKept DEF Holding
  <2>2. locks[fetcher[g].ref] = g /\ ~Cached(fetcher[g].ref) /\ ~Cools(cooldown[fetcher[g].ref]) /\ fetcher[g].ref \in Refs
    BY <2>1 DEF CacheInv, LocksInv, FetchingInv
  <2>3. cooldown'[fetcher[g].ref] = cooldown[fetcher[g].ref]
    BY <2>1, <2>2 DEF CacheInv, LocksInv
  <2>. QED  BY <2>1, <2>2, <2>3 DEF Cached, Cools
<1>. QED  BY <1>1, <1>3, <1>4 DEF CacheInv

\* Every step but the two that record a failure, one at a time.
LEMMA CacheStep ==
    ASSUME HolderIsNobody, CacheInv, CacheNext
    PROVE  CacheInv' /\ (UNCHANGED origin \/ \E f \in Fetchers : RecordOriginFailure(f))
<1>1. ASSUME NEW f \in Fetchers, NEW r \in Refs, LookUp(f, r) PROVE CacheInv' /\ UNCHANGED origin
  <2> DEFINE n == [NoFetch EXCEPT !.at = "waiting", !.ref = r]
  <2>1. n \in Fetches /\ n.at = "waiting" /\ n.ref = r
    BY DEF NoFetch, Fetches, NoState, RetryStates
  <2>2. fetcher' = [fetcher EXCEPT ![f] = n] /\ UNCHANGED <<time, documents, locks, throttle, cooldown, origin>>
    BY <1>1 DEF LookUp
  <2>. HIDE DEF n
  <2>3. CacheInv'
    BY <2>1, <2>2, GoesKept DEF Holding
  <2>. QED  BY <2>2, <2>3
<1>2. ASSUME NEW f \in Fetchers, LockDocument(f) PROVE CacheInv' /\ UNCHANGED origin
  <2>1. /\ fetcher[f].at = "waiting" /\ fetcher[f].ref \in Refs /\ locks[fetcher[f].ref] = NoHolder
        /\ locks' = [locks EXCEPT ![fetcher[f].ref] = f] /\ fetcher' = [fetcher EXCEPT ![f].at = "locked"]
        /\ UNCHANGED <<time, documents, throttle, cooldown, origin>>
    BY <1>2 DEF LockDocument, FetchAt, FetchGoes, CacheInv, LocksInv
  <2>2. CacheTypeOK'
    BY <2>1 DEF CacheInv, CacheTypeOK, Fetches
  <2>3. /\ fetcher'[f].at = "locked" /\ fetcher'[f].ref = fetcher[f].ref
        /\ \A g \in Fetchers \ {f} : fetcher'[g] = fetcher[g]
    BY <2>1 DEF CacheInv, CacheTypeOK, Fetches
  <2>4. LocksInv'
    BY <2>1, <2>3 DEF CacheInv, CacheTypeOK, LocksInv, Holding, HolderIsNobody
  <2>5. FetchingInv'
    BY <2>1, <2>3 DEF CacheInv, FetchingInv, Cached, Cools
  <2>. QED  BY <2>1, <2>2, <2>4, <2>5 DEF CacheInv
<1>3. ASSUME NEW f \in Fetchers, RecheckDocument(f) PROVE CacheInv' /\ UNCHANGED origin
  <2>1. CASE Cached(fetcher[f].ref) \/ InCooldown(fetcher[f].ref)
    <3>1. Ends(f) /\ UNCHANGED <<time, documents, cooldown, origin>>
      BY <1>3, <2>1 DEF RecheckDocument
    <3>. QED  BY <3>1, WrittenKept DEF CacheInv, CacheTypeOK
  <2>2. CASE ~(Cached(fetcher[f].ref) \/ InCooldown(fetcher[f].ref))
    <3> DEFINE n == [fetcher[f] EXCEPT !.at = "fetching"]
    <3>1. /\ fetcher[f].at = "locked" /\ fetcher' = [fetcher EXCEPT ![f] = n]
          /\ UNCHANGED <<time, documents, locks, throttle, cooldown, origin>>
      BY <1>3, <2>2 DEF RecheckDocument, FetchAt, FetchGoes
    <3>2. n \in Fetches /\ n.at = "fetching" /\ n.ref = fetcher[f].ref /\ n.ref \in Refs /\ locks[n.ref] = f
      BY <3>1 DEF CacheInv, CacheTypeOK, LocksInv, Fetches, Holding
    <3>3. ~Cached(n.ref) /\ ~Cools(cooldown[n.ref])
      BY <2>2, <3>2 DEF InCooldown
    <3>. HIDE DEF n
    <3>. QED  BY <3>1, <3>2, <3>3, GoesKept
  <2>. QED  BY <2>1, <2>2
<1>4. ASSUME NEW f \in Fetchers, RegistryAnswers(f) PROVE CacheInv' /\ UNCHANGED origin
  <2>0. /\ fetcher[f].at = "fetching" /\ fetcher[f] \in Fetches /\ fetcher[f].ref \in Refs /\ locks[fetcher[f].ref] = f
        /\ UNCHANGED <<time, locks, throttle, cooldown, origin>>
    BY <1>4 DEF RegistryAnswers, FetchAt, CacheInv, CacheTypeOK, LocksInv, Holding
  <2>1. PICK n : /\ fetcher' = [fetcher EXCEPT ![f] = n]
                 /\ \/ /\ documents' = documents \cup {fetcher[f].ref}
                       /\ n = [fetcher[f] EXCEPT !.at = "published"]
                    \/ /\ UNCHANGED documents
                       /\ \E asked \in {0, Long} :
                            \/ n = [fetcher[f] EXCEPT !.at = "failed", !.asked = asked, !.seen = cooldown[fetcher[f].ref]]
                            \/ n = [fetcher[f] EXCEPT !.at = "throttled", !.asked = asked]
    <3>1. CASE documents' = documents \cup {fetcher[f].ref} /\ FetchGoes(f, "published")
      BY <3>1, Zenon DEF FetchGoes
    <3>2. CASE /\ \E asked \in {0, Long} :
                    fetcher' = [fetcher EXCEPT ![f] = [@ EXCEPT !.at = "failed", !.asked = asked,
                                                                !.seen = cooldown[fetcher[f].ref]]]
               /\ UNCHANGED documents
      BY <3>2
    <3>3. CASE /\ \E asked \in {0, Long} :
                    fetcher' = [fetcher EXCEPT ![f] = [@ EXCEPT !.at = "throttled", !.asked = asked]]
               /\ UNCHANGED documents
      BY <3>3
    <3>. QED  BY <1>4, <3>1, <3>2, <3>3 DEF RegistryAnswers
  <2>2. cooldown[fetcher[f].ref] \in RetryStates
    BY <2>0 DEF CacheInv, CacheTypeOK
  <2>3. n \in Fetches /\ n.ref = fetcher[f].ref /\ n.at \in {"published", "failed", "throttled"}
    <3>1. CASE n = [fetcher[f] EXCEPT !.at = "published"]
      BY <2>0, <3>1 DEF Fetches
    <3>2. ASSUME NEW asked \in {0, Long},
                 \/ n = [fetcher[f] EXCEPT !.at = "failed", !.asked = asked, !.seen = cooldown[fetcher[f].ref]]
                 \/ n = [fetcher[f] EXCEPT !.at = "throttled", !.asked = asked]
          PROVE  n \in Fetches /\ n.ref = fetcher[f].ref /\ n.at \in {"published", "failed", "throttled"}
      <4>1. asked \in Nat
        BY CacheAssumption
      <4>2. CASE n = [fetcher[f] EXCEPT !.at = "failed", !.asked = asked, !.seen = cooldown[fetcher[f].ref]]
        BY <2>0, <2>2, <4>1, <4>2 DEF Fetches
      <4>3. CASE n = [fetcher[f] EXCEPT !.at = "throttled", !.asked = asked]
        BY <2>0, <4>1, <4>3 DEF Fetches
      <4>. QED  BY <3>2, <4>2, <4>3
    <3>. QED  BY <2>1, <3>1, <3>2
  <2>. QED  BY <2>0, <2>1, <2>3, GoesKept DEF Holding
<1>5. ASSUME NEW f \in Fetchers, PublishDocument(f) PROVE CacheInv' /\ UNCHANGED origin
  <2>1. /\ fetcher[f].at = "published" /\ Ends(f) /\ UNCHANGED <<time, documents, origin>>
        /\ cooldown' = [cooldown EXCEPT ![fetcher[f].ref] = NoState]
    BY <1>5 DEF PublishDocument, FetchAt
  <2>2. cooldown' \in [Refs -> RetryStates] /\ \A r \in Refs \ {fetcher[f].ref} : cooldown'[r] = cooldown[r]
    BY <2>1 DEF CacheInv, CacheTypeOK, NoState, RetryStates
  <2>3. fetcher[f].at \in Holding /\ origin' \in RetryStates
    BY <2>1 DEF Holding, CacheInv, CacheTypeOK
  <2>. QED  BY <2>1, <2>2, <2>3, WrittenKept
<1>6. ASSUME NEW f \in Fetchers, RecordRefFailure(f) PROVE CacheInv' /\ UNCHANGED origin
  <2>1. PICK backoff \in Backoffs(fetcher[f].seen) :
           cooldown' = [cooldown EXCEPT ![fetcher[f].ref] = NextRetry(fetcher[f].seen, fetcher[f].asked, backoff)]
    BY <1>6 DEF RecordRefFailure
  <2>2. fetcher[f].at = "failed" /\ Ends(f) /\ UNCHANGED <<time, documents, origin>>
    BY <1>6 DEF RecordRefFailure, FetchAt
  <2>3. NextRetry(fetcher[f].seen, fetcher[f].asked, backoff) \in RetryStates
    BY NextRetryIsLater DEF CacheInv, CacheTypeOK, Fetches
  <2>4. cooldown' \in [Refs -> RetryStates] /\ \A r \in Refs \ {fetcher[f].ref} : cooldown'[r] = cooldown[r]
    BY <2>1, <2>3 DEF CacheInv, CacheTypeOK
  <2>5. fetcher[f].at \in Holding /\ origin' \in RetryStates
    BY <2>2 DEF Holding, CacheInv, CacheTypeOK
  <2>. QED  BY <2>2, <2>4, <2>5, WrittenKept
<1>7. ASSUME NEW f \in Fetchers, ReadOrigin(f) PROVE CacheInv' /\ UNCHANGED origin
  <2> DEFINE n == [fetcher[f] EXCEPT !.at = "recording", !.seen = origin]
  <2>1. /\ fetcher[f].at = "throttled" /\ throttle = NoHolder /\ throttle' = f /\ fetcher' = [fetcher EXCEPT ![f] = n]
        /\ UNCHANGED <<time, documents, locks, cooldown, origin>>
    BY <1>7 DEF ReadOrigin, FetchAt
  <2>2. /\ n \in Fetches /\ n.at = "recording" /\ n.seen = origin /\ n.ref = fetcher[f].ref
        /\ n.ref \in Refs /\ locks[n.ref] = f
    BY <2>1 DEF CacheInv, CacheTypeOK, LocksInv, Fetches, Holding
  <2>. HIDE DEF n
  <2>3. fetcher' \in [Fetchers -> Fetches] /\ fetcher'[f] = n /\ \A g \in Fetchers \ {f} : fetcher'[g] = fetcher[g]
    BY <2>1, <2>2 DEF CacheInv, CacheTypeOK
  <2>4. CacheTypeOK'
    BY <2>1, <2>3 DEF CacheInv, CacheTypeOK
  <2>5. LocksInv'
    BY <2>1, <2>2, <2>3 DEF CacheInv, LocksInv, HolderIsNobody
  <2>6. FetchingInv'
    BY <2>1, <2>2, <2>3 DEF CacheInv, FetchingInv, Cached, Cools
  <2>. QED  BY <2>1, <2>4, <2>5, <2>6 DEF CacheInv
<1>8. ASSUME NEW f \in Fetchers, RecordOriginFailure(f) PROVE CacheInv'
  <2>1. PICK backoff \in Backoffs(fetcher[f].seen) : origin' = NextRetry(fetcher[f].seen, fetcher[f].asked, backoff)
    BY <1>8 DEF RecordOriginFailure
  <2>2. fetcher[f].at = "recording" /\ Ends(f) /\ UNCHANGED <<time, documents, cooldown>>
    BY <1>8 DEF RecordOriginFailure, FetchAt
  <2>3. NextRetry(fetcher[f].seen, fetcher[f].asked, backoff) \in RetryStates
    BY NextRetryIsLater DEF CacheInv, CacheTypeOK, Fetches
  <2>. QED  BY <2>1, <2>2, <2>3, WrittenKept DEF CacheInv, CacheTypeOK
<1>9. ASSUME NEW f \in Fetchers, FetchGivesUp(f) PROVE CacheInv' /\ UNCHANGED origin
  <2>1. Ends(f) /\ UNCHANGED <<time, documents, cooldown, origin>>
    BY <1>9 DEF FetchGivesUp
  <2>. QED  BY <2>1, WrittenKept DEF CacheInv, CacheTypeOK
<1>10. ASSUME TimePasses PROVE CacheInv' /\ UNCHANGED origin
  <2>1. time' = time + 1 /\ UNCHANGED <<documents, locks, throttle, cooldown, origin, fetcher>>
    BY <1>10 DEF TimePasses
  <2>2. CacheTypeOK' /\ LocksInv'
    BY <2>1 DEF CacheInv, CacheTypeOK, LocksInv
  <2>3. FetchingInv'
    \* A deadline that is over stays over.
    BY <2>1 DEF CacheInv, CacheTypeOK, RetryStates, LocksInv, FetchingInv, Cached, Cools, Holding
  <2>. QED  BY <2>1, <2>2, <2>3 DEF CacheInv
<1>. QED  BY <1>1, <1>2, <1>3, <1>4, <1>5, <1>6, <1>7, <1>8, <1>9, <1>10 DEF CacheNext

\* One request at a time: those past the lock of a document are its one holder.
LEMMA HeldIsAlone == CacheInv => OneRequestAtATime
<1>. SUFFICES ASSUME CacheInv PROVE OneRequestAtATime
  OBVIOUS
<1>1. ASSUME NEW r \in Refs
      PROVE  Cardinality({f \in Fetchers : fetcher[f].ref = r /\ fetcher[f].at \in {"fetching", "published", "failed"}}) <= 1
  <2> DEFINE S == {f \in Fetchers : fetcher[f].ref = r /\ fetcher[f].at \in {"fetching", "published", "failed"}}
  <2>1. S \subseteq {locks[r]}
    BY DEF CacheInv, LocksInv, Holding
  <2>. HIDE DEF S
  <2>2. IsFiniteSet({locks[r]}) /\ Cardinality({locks[r]}) = 1
    BY FS_Singleton
  <2>3. Cardinality(S) <= Cardinality({locks[r]})
    BY <2>1, <2>2, FS_Subset
  <2>. QED  BY <2>2, <2>3 DEF S
<1>. QED  BY <1>1 DEF OneRequestAtATime, FetchAt, CacheInv, FetchingInv

\* The registry's deadline, while one failure more can be read back.
LeftAlone == (Cools(origin) /\ origin.failures < ReadableFailures)
                    => (origin'.until >= origin.until /\ Readable(origin'))

\* Whoever records a failure of the registry has read its state under the lock.
LEMMA RegistryStep ==
    ASSUME HolderIsNobody, CacheInv, [CacheNext]_cacheVars
    PROVE  CacheInv' /\ LeftAlone
<1>1. ASSUME UNCHANGED origin PROVE LeftAlone
  BY <1>1 DEF LeftAlone, Cools, CacheInv, CacheTypeOK, RetryStates
<1>2. CASE UNCHANGED cacheVars
  BY <1>1, <1>2 DEF cacheVars, CacheInv, CacheTypeOK, LocksInv, FetchingInv, Cached, Cools
<1>3. CASE CacheNext
  <2>1. CASE UNCHANGED origin
    BY <1>1, <1>3, <2>1, CacheStep
  <2>2. ASSUME NEW f \in Fetchers, RecordOriginFailure(f) PROVE LeftAlone
    <3>1. PICK backoff \in Backoffs(fetcher[f].seen) : origin' = NextRetry(fetcher[f].seen, fetcher[f].asked, backoff)
      BY <2>2 DEF RecordOriginFailure
    <3>2. fetcher[f].seen = origin
      BY <2>2 DEF RecordOriginFailure, FetchAt, CacheInv, LocksInv
    <3>. QED  BY <3>1, <3>2, NextRetryIsLater DEF LeftAlone, CacheInv, CacheTypeOK, Fetches
  <2>. QED  BY <1>3, <2>1, <2>2, CacheStep
<1>. QED  BY <1>2, <1>3

\* While the failures of a registry are fewer than can be read back, a time it asked to be left alone is neither cut short
\* nor lost to the next fetch; and, however many failures there were, a document is asked for by one fetch at a time,
\* never before a cooldown it can read is over nor after it was published (recordOriginFailure, recordRefFailure, fetch).
THEOREM RegistryLeftAlone == ASSUME HolderIsNobody PROVE CacheSpec => RegistryIsLeftAlone
<1>1. CacheInv /\ [CacheNext]_cacheVars => CacheInv'
  BY RegistryStep
<1>2. CacheInv /\ CacheInv' /\ [CacheNext]_cacheVars => [LeftAlone /\ OneRequestAtATime']_cacheVars
  <2>1. CacheInv' => OneRequestAtATime'
    BY HeldIsAlone, PTL
  <2>. QED  BY <2>1, RegistryStep
<1>3. LeftAlone /\ OneRequestAtATime'
      <=> (/\ Cools(origin) /\ origin.failures < ReadableFailures
                => origin'.until >= origin.until /\ Readable(origin')
           /\ OneRequestAtATime')
  BY DEF LeftAlone
<1>. QED  BY <1>1, <1>2, <1>3, CacheInitInv, PTL DEF CacheSpec, RegistryIsLeftAlone

-----------------------------------------------------------------------------
(* The connection to Pi.                                                   *)

ConnectionSpec == ConnectionInit /\ [][ConnectionNext]_connectionVars

-----------------------------------------------------------------------------
(* The inductive invariant.                                                *)

Answers  == {"none", "ok", "refused", "busy"}
Reasons  == {"", "stop", "error", "aborted"}
Causes   == {"", "deadline", "failure", "sink"}
Errors   == {"", "none", "transport", "backpressure", "protocol", "deadline", "runtime", "sink", "failure"}
Commands == [type : {"prompt", "abort", "get_state"}, id : Callers \X Nat, of : Nat]
Records  == [type : {"response"}, to : Callers \X Nat, answer : Answers \ {"none"}]
            \cup [type : {"message_end", "agent_settled"}, to : {<<"", 0>>}, answer : Reasons]
PiStates == [working : Nat, started : BOOLEAN, ended : BOOLEAN, aborting : BOOLEAN, owes : SUBSET (Callers \X Nat),
             stdin : Seq(Commands), stdout : Seq(Records), link : BOOLEAN]
Connections == [failure : Errors, ready : BOOLEAN, active : Nat, cancelling : Nat, reading : BOOLEAN]
PiTurns  == [n : Nat, events : Seq({"activity", "prompt_settled"}), settled : BOOLEAN, reason : Reasons,
             outcome : {"", "aborted", "completed", "failed"}, cancelRequested : BOOLEAN]
Prompts  == [n : Nat, at : {"idle", "exchange", "emit", "loop", "wait", "interrupted", "cancelled"},
             event : {"", "prompt_admitted", "activity", "prompt_settled"}, admitted : BOOLEAN, late : BOOLEAN,
             cause : Causes, status : {"none", "rejected", "", "aborted", "completed", "failed", "unknown"}]
Calls    == [at : {"idle", "called", "exchange", "settling"}, k : Nat, of : Nat, written : BOOLEAN, answer : Answers]
ConnectionTypeOK ==
    /\ pi \in PiStates /\ writes \in Seq(Commands) /\ conn \in Connections /\ piTurn \in PiTurns
    /\ prompt \in Prompts /\ calls \in [Callers -> Calls] /\ struck \subseteq Nat \X Nat

\* The calls, and the barrier they hold: the prompt's exchange is a step of the prompt, a cancellation that goes on is
\* about the prompt there is.
Ongoing(c) == IF calls[c].at = "idle" THEN 0 ELSE 1
CallsSound ==
    /\ prompt.n = 0 => prompt.at = "idle" /\ prompt.status = "none"
    /\ conn.active = IF prompt.at = "idle" THEN 0 ELSE prompt.n
    /\ conn.cancelling = Ongoing("own") + Ongoing("control") + Ongoing("prepare")
    /\ calls["prompt"].k = prompt.n /\ calls["prompt"].of = prompt.n /\ calls["prompt"].at # "settling"
    /\ calls["prompt"].at \in {"called", "exchange"} <=> prompt.at = "exchange"
    /\ \A c \in Callers : calls[c].at = "called" => calls[c].answer = "none"
    /\ \A c \in Cancellers : calls[c].at # "idle" => calls[c].of = prompt.n

\* A command of a call that was made, if of the last one then after it was made.
Fresh(id) == id[2] <= calls[id[1]].k /\ (id[2] = calls[id[1]].k => calls[id[1]].at # "called")

Responded(id) == \E i \in 1 .. Len(pi.stdout) : pi.stdout[i].type = "response" /\ pi.stdout[i].to = id
NoEvents(s) == \A i \in 1 .. Len(s) : s[i].type = "response"
NoPrompts(s) == \A i \in 1 .. Len(s) : s[i].type # "prompt"
Alike(s) == \A i, j \in 1 .. Len(s) : s[i].id = s[j].id => i = j
Apart(s, t) == \A i \in 1 .. Len(s), j \in 1 .. Len(t) : s[i].id # t[j].id

\* Pi does not work on a prompt, will not be asked to, and has nothing more to say of one.
AtRest == pi.working = 0 /\ NoPrompts(writes) /\ NoPrompts(pi.stdin) /\ NoEvents(pi.stdout)

\* A call still waits for the answer to its command.
Waits(id) == calls[id[1]].at = "exchange" /\ calls[id[1]].k = id[2] /\ calls[id[1]].answer = "none"

\* A command on its way is about the prompt there is; and an abort whose call does not wait for it any more takes the
\* connection with it.
CommandSound(e) ==
    /\ e.type = "prompt" => /\ e.id = <<"prompt", prompt.n>> /\ e.of = prompt.n
                            /\ pi.working = 0 /\ NoEvents(pi.stdout)
    /\ e.type = "abort" => /\ e.id[1] \in Cancellers /\ e.of = prompt.n
                           /\ ConnectionFailed \/ Waits(e.id)
    /\ e.type = "get_state" => e.id[1] = "prepare"
    /\ e.id \notin pi.owes /\ ~Responded(e.id) /\ Fresh(e.id)
CommandsSound ==
    /\ Alike(writes) /\ Alike(pi.stdin) /\ Apart(writes, pi.stdin)
    /\ \A i \in 1 .. Len(writes) : CommandSound(writes[i])
    /\ \A i \in 1 .. Len(pi.stdin) : CommandSound(pi.stdin[i])

\* A prompt's exchange that has no answer yet.
Unadmitted == prompt.at = "exchange" /\ calls["prompt"].answer = "none"

\* The prompt's settlement is the last that is said of it, its refusal the only thing, and before it was admitted
\* nothing is said of it.
RecordSound(i) ==
    /\ pi.stdout[i].type = "response" =>
         /\ pi.stdout[i].to[1] \in Callers /\ Fresh(pi.stdout[i].to)
         /\ pi.stdout[i].to = <<"prompt", prompt.n>> /\ pi.stdout[i].answer # "ok" => AtRest
    /\ pi.stdout[i].type = "agent_settled" =>
         /\ pi.working = 0 /\ NoPrompts(writes) /\ NoPrompts(pi.stdin)
         /\ \A j \in i + 1 .. Len(pi.stdout) : pi.stdout[j].type = "response"
    /\ pi.stdout[i].type # "response" /\ Unadmitted =>
         \E j \in 1 .. i - 1 : pi.stdout[j].type = "response" /\ pi.stdout[j].to = <<"prompt", prompt.n>>
RecordsSound ==
    /\ \A id \in pi.owes : id[1] \in Cancellers /\ Fresh(id)
    /\ \A i \in 1 .. Len(pi.stdout) : RecordSound(i)

\* What Pi works on, and what it was told to abort.
WorkSound ==
    /\ pi.working \in {0, prompt.n} /\ (pi.started => pi.working # 0) /\ (pi.ended => pi.started)
    /\ pi.working # 0 /\ ~pi.started => NoEvents(pi.stdout)
    /\ Unadmitted /\ pi.started /\ pi.link => Responded(<<"prompt", prompt.n>>)
    /\ \A s \in struck : s[1] = s[2]

\* What a prompt's ending, its settlement, its refusal and the time before it is sent tell of Pi.
EvidenceSound ==
    /\ prompt.at = "idle" /\ prompt.status = "unknown" => ConnectionFailed
    /\ prompt.at = "idle" /\ prompt.status # "unknown" => AtRest
    /\ piTurn.settled => AtRest
    /\ calls["prompt"].answer \notin {"none", "ok"} => AtRest
    /\ calls["prompt"].at = "called" => AtRest
    /\ Unadmitted => ~piTurn.settled
    /\ prompt.event = "prompt_settled" /\ prompt.at = "emit" => piTurn.settled
    /\ \A i \in 1 .. Len(piTurn.events) : piTurn.events[i] = "prompt_settled" => piTurn.settled

ConnectionInv ==
    ConnectionTypeOK /\ CallsSound /\ CommandsSound /\ RecordsSound /\ WorkSound /\ EvidenceSound

-----------------------------------------------------------------------------
LEMMA ConnectionInitInv == ConnectionInit => ConnectionInv
<1>. SUFFICES ASSUME ConnectionInit PROVE ConnectionInv
  OBVIOUS
<1>1. /\ pi = [working |-> 0, started |-> FALSE, ended |-> FALSE, aborting |-> FALSE, owes |-> {},
               stdin |-> <<>>, stdout |-> <<>>, link |-> TRUE]
      /\ writes = <<>> /\ struck = {}
      /\ conn = [failure |-> "none", ready |-> FALSE, active |-> 0, cancelling |-> 0, reading |-> TRUE]
  BY DEF ConnectionInit
<1>2. piTurn = [n |-> 0, events |-> <<>>, settled |-> FALSE, reason |-> "", outcome |-> "", cancelRequested |-> FALSE]
  BY DEF ConnectionInit, NewTurn
<1>3. \A c \in Callers : calls[c] = [at |-> "idle", k |-> 0, of |-> 0, written |-> FALSE, answer |-> "none"]
  BY DEF ConnectionInit, NoCall
<1>4. prompt = [n |-> 0, at |-> "idle", event |-> "", admitted |-> FALSE, late |-> FALSE, cause |-> "",
                status |-> "none"]
  BY DEF ConnectionInit
<1>5. ConnectionTypeOK
  <2>1. pi \in PiStates /\ writes \in Seq(Commands)
    BY <1>1 DEF PiStates
  <2>2. conn \in Connections
    BY <1>1 DEF Connections, Errors
  <2>3. piTurn \in PiTurns
    <3>1. <<>> \in Seq({"activity", "prompt_settled"})
      OBVIOUS
    <3>. QED  BY <1>2, <3>1 DEF PiTurns, Reasons
  <2>4. prompt \in Prompts
    BY <1>4 DEF Prompts, Causes
  <2>5. NoCall \in Calls
    BY DEF NoCall, Calls, Answers
  <2>6. calls \in [Callers -> Calls]
    BY <2>5 DEF ConnectionInit
  <2>. QED  BY <1>1, <2>1, <2>2, <2>3, <2>4, <2>6 DEF ConnectionTypeOK
<1>6. CallsSound
  <2>1. \A c \in {"own", "control", "prompt", "prepare"} :
           calls[c].at = "idle" /\ calls[c].k = 0 /\ calls[c].of = 0 /\ calls[c].answer = "none"
    BY <1>3 DEF Callers, Cancellers
  <2>2. conn.active = 0 /\ conn.cancelling = 0 /\ prompt.at = "idle" /\ prompt.n = 0 /\ prompt.status = "none"
    BY <1>1, <1>4
  <2>. QED  BY <2>1, <2>2 DEF CallsSound, Ongoing, Callers, Cancellers
<1>7. Len(writes) = 0 /\ Len(pi.stdin) = 0 /\ Len(pi.stdout) = 0
  BY <1>1
<1>8. CommandsSound
  BY <1>7 DEF CommandsSound, Alike, Apart
<1>9. RecordsSound
  BY <1>1, <1>7 DEF RecordsSound
<1>10. AtRest
  BY <1>1, <1>7 DEF AtRest, NoPrompts, NoEvents
<1>11. WorkSound
  BY <1>1 DEF WorkSound
<1>12. EvidenceSound
  <2>1. calls["prompt"].at = "idle" /\ calls["prompt"].answer = "none"
    BY <1>3 DEF Callers
  <2>2. /\ prompt.at = "idle" /\ prompt.status = "none" /\ prompt.event = "" /\ ~piTurn.settled
        /\ Len(piTurn.events) = 0
    BY <1>2, <1>4
  <2>3. ~Unadmitted
    BY <2>2 DEF Unadmitted
  <2>4. Len(piTurn.events) = 0
    BY <2>2
  <2>5. \A i \in 1 .. Len(piTurn.events) : piTurn.events[i] = "prompt_settled" => piTurn.settled
    BY <2>4
  <2>. QED  BY <1>10, <2>1, <2>2, <2>3, <2>5 DEF EvidenceSound
<1>. QED  BY <1>5, <1>6, <1>8, <1>9, <1>11, <1>12 DEF ConnectionInv

-----------------------------------------------------------------------------
(* The calls: steps that leave what is on its way alone.                   *)

LEMMA StreamsKept ==
    ASSUME ConnectionInv, UNCHANGED <<pi, writes, struck>>, prompt'.n = prompt.n, ConnectionFailed => ConnectionFailed',
           \A c \in Callers : /\ calls'[c].k \in Nat /\ calls'[c].k >= calls[c].k
                              /\ calls'[c].k = calls[c].k /\ calls'[c].at = "called" => calls[c].at = "called",
           \A c \in Cancellers : calls[c].at = "exchange" /\ calls[c].answer = "none" =>
               \/ ConnectionFailed'
               \/ calls'[c].at = "exchange" /\ calls'[c].answer = "none" /\ calls'[c].k = calls[c].k,
           Unadmitted' => Unadmitted
    PROVE  CommandsSound' /\ RecordsSound' /\ WorkSound' /\ AtRest' = AtRest
<1>1. AtRest' = AtRest
  BY DEF AtRest
<1>2. pi \in PiStates /\ writes \in Seq(Commands) /\ calls \in [Callers -> Calls] /\ Cancellers \subseteq Callers
  BY DEF ConnectionInv, ConnectionTypeOK, Callers
<1>3. \A id : id[1] \in Callers /\ id[2] \in Nat /\ Fresh(id) => Fresh(id)'
  BY <1>2 DEF Fresh, Calls
<1>4. \A id : Responded(id)' = Responded(id)
  BY DEF Responded
<1>5. ASSUME NEW e \in Commands, CommandSound(e) PROVE CommandSound(e)'
  <2>1. e.id[1] \in Callers /\ e.id[2] \in Nat
    BY <1>5 DEF Commands
  <2>2. e.type = "abort" => ConnectionFailed' \/ Waits(e.id)'
    BY <1>5 DEF CommandSound, Waits
  <2>3. Fresh(e.id)' /\ Responded(e.id)' = Responded(e.id)
    BY <1>3, <1>4, <1>5, <2>1 DEF CommandSound
  <2>. QED  BY <1>5, <2>2, <2>3 DEF CommandSound
<1>6. \A i \in 1 .. Len(writes) : writes[i] \in Commands
  BY <1>2
<1>7. \A i \in 1 .. Len(pi.stdin) : pi.stdin[i] \in Commands
  <2>1. pi.stdin \in Seq(Commands)
    BY <1>2 DEF PiStates
  <2>. QED  BY <2>1
<1>8. CommandsSound'
  <2>1. ASSUME NEW i \in 1 .. Len(writes) PROVE CommandSound(writes[i])'
    <3>1. PICK e : e = writes[i]
      OBVIOUS
    <3>2. CommandSound(e)'
      BY <1>5, <1>6, <3>1 DEF ConnectionInv, CommandsSound
    <3>. QED  BY <3>1, <3>2 DEF CommandSound
  <2>2. ASSUME NEW i \in 1 .. Len(pi.stdin) PROVE CommandSound(pi.stdin[i])'
    <3>1. PICK e : e = pi.stdin[i]
      OBVIOUS
    <3>2. CommandSound(e)'
      BY <1>5, <1>7, <3>1 DEF ConnectionInv, CommandsSound
    <3>. QED  BY <3>1, <3>2 DEF CommandSound
  <2>. QED  BY <2>1, <2>2 DEF ConnectionInv, CommandsSound
<1>9. RecordsSound'
  <2>1. pi.owes \subseteq Callers \X Nat /\ pi.stdout \in Seq(Records)
    BY <1>2 DEF PiStates
  <2>2. \A id \in pi.owes : Fresh(id)'
    BY <1>3, <2>1 DEF ConnectionInv, RecordsSound
  <2>3. ASSUME NEW i \in 1 .. Len(pi.stdout) PROVE RecordSound(i)'
    <3>1. pi.stdout[i].to[2] \in Nat /\ RecordSound(i)
      <4>1. pi.stdout[i] \in Records
        BY <2>1
      <4>2. pi.stdout[i].to \in Callers \X Nat \/ pi.stdout[i].to = <<"", 0>>
        BY <4>1 DEF Records
      <4>3. PICK to : to = pi.stdout[i].to
        OBVIOUS
      <4>4. to[2] \in Nat
        <5>1. CASE to \in Callers \X Nat
          BY <5>1
        <5>2. CASE to = <<"", 0>>
          BY <5>2
        <5>. QED  BY <4>2, <4>3, <5>1, <5>2
      <4>. QED  BY <4>3, <4>4 DEF ConnectionInv, RecordsSound
    <3>2. pi.stdout[i].type = "response" => Fresh(pi.stdout[i].to)'
      BY <1>3, <3>1 DEF RecordSound
    <3>. QED  BY <1>1, <3>1, <3>2 DEF RecordSound
  <2>. QED  BY <2>2, <2>3 DEF ConnectionInv, RecordsSound
<1>10. WorkSound'
  BY <1>4 DEF ConnectionInv, WorkSound, NoEvents
<1>. QED  BY <1>1, <1>8, <1>9, <1>10

\* The first error stays.
LEMMA FailIs ==
    ASSUME NEW c \in Connections, NEW err \in Errors \ {"none"}
    PROVE  /\ Fail(c, err) \in Connections /\ Fail(c, err).failure # "none"
           /\ Fail(c, err).active = c.active /\ Fail(c, err).cancelling = c.cancelling /\ Fail(c, err).ready = c.ready
           /\ Fail(c, err).reading = c.reading
BY DEF Fail, Connections, Errors

\* A call that ends lifts its part of the barrier; one that leaves its abort behind takes the connection with it.
LEMMA ReleasedKept ==
    ASSUME ConnectionInv, NEW c \in Cancellers \cup {"prepare"}, calls[c].at # "idle", NEW connection \in Connections,
           connection.cancelling = conn.cancelling, connection.active = conn.active,
           ConnectionFailed => connection.failure # "none",
           calls[c].at = "exchange" /\ calls[c].answer = "none" => connection.failure # "none" \/ c = "prepare",
           Released(c, connection)
    PROVE  ConnectionInv'
<1>1. /\ conn' = [connection EXCEPT !.cancelling = connection.cancelling - 1]
      /\ calls' = [calls EXCEPT ![c].at = "idle"]
      /\ UNCHANGED <<pi, writes, piTurn, prompt, struck>>
  BY DEF Released
<1>2. calls \in [Callers -> Calls] /\ c \in Callers /\ c # "prompt" /\ conn \in Connections
  BY DEF ConnectionInv, ConnectionTypeOK, Callers, Cancellers
<1>3. conn.cancelling \in Nat \ {0}
  BY <1>2 DEF ConnectionInv, CallsSound, Ongoing, Cancellers
<1>4. /\ conn' \in Connections /\ conn'.cancelling = conn.cancelling - 1 /\ conn'.active = conn.active
      /\ conn'.failure = connection.failure
  BY <1>1, <1>2, <1>3 DEF Connections
<1>5. /\ calls' \in [Callers -> Calls] /\ calls'[c].at = "idle" /\ calls'[c].k = calls[c].k
      /\ calls'[c].answer = calls[c].answer /\ calls'[c].of = calls[c].of
      /\ \A d \in Callers \ {c} : calls'[d] = calls[d]
  BY <1>1, <1>2 DEF Calls
<1>6. ConnectionTypeOK'
  BY <1>1, <1>4, <1>5 DEF ConnectionInv, ConnectionTypeOK
<1>7. CallsSound'
  <2>1. "own" \in Callers /\ "control" \in Callers /\ "prepare" \in Callers /\ "prompt" \in Callers
    BY DEF Callers, Cancellers
  <2>2. conn'.cancelling = Ongoing("own")' + Ongoing("control")' + Ongoing("prepare")'
    BY <1>2, <1>4, <1>5, <2>1 DEF ConnectionInv, CallsSound, Ongoing, Cancellers
  <2>. QED  BY <1>1, <1>2, <1>4, <1>5, <2>1, <2>2 DEF ConnectionInv, CallsSound, Callers
<1>8. ConnectionFailed => ConnectionFailed'
  BY <1>4 DEF ConnectionFailed
<1>9. CommandsSound' /\ RecordsSound' /\ WorkSound' /\ AtRest' = AtRest
  <2>1. Unadmitted' = Unadmitted
    BY <1>1, <1>2, <1>5 DEF Unadmitted, Callers
  <2>2. \A d \in Callers : /\ calls'[d].k \in Nat /\ calls'[d].k >= calls[d].k
                           /\ calls'[d].k = calls[d].k /\ calls'[d].at = "called" => calls[d].at = "called"
    BY <1>2, <1>5 DEF Calls
  <2>3. \A d \in Cancellers : calls[d].at = "exchange" /\ calls[d].answer = "none" =>
           \/ ConnectionFailed'
           \/ calls'[d].at = "exchange" /\ calls'[d].answer = "none" /\ calls'[d].k = calls[d].k
    BY <1>4, <1>5 DEF ConnectionFailed, Callers, Cancellers
  <2>. QED  BY <1>1, <1>8, <2>1, <2>2, <2>3, StreamsKept
<1>10. EvidenceSound'
  BY <1>1, <1>2, <1>5, <1>8, <1>9 DEF ConnectionInv, EvidenceSound, Unadmitted, Callers
<1>. QED  BY <1>6, <1>7, <1>9, <1>10 DEF ConnectionInv

\* What answers come does not end a call before it ends itself.
LEMMA CancelStepKept ==
    ASSUME ConnectionInv, NEW c \in Cancellers, CancelUnconfirmed(c) \/ CancelConfirmed(c) \/ CancelEnds(c)
    PROVE  ConnectionInv'
<1>1. conn \in Connections /\ calls \in [Callers -> Calls] /\ c \in Callers /\ c # "prompt"
  BY DEF ConnectionInv, ConnectionTypeOK, Callers, Cancellers
<1>2. CASE CancelUnconfirmed(c)
  <2>1. ASSUME NEW err \in {"deadline", "runtime"}, Released(c, Fail(conn, err)), calls[c].at # "idle"
        PROVE  ConnectionInv'
    <3>1. err \in Errors \ {"none"}
      BY DEF Errors
    <3>2. PICK connection : connection = Fail(conn, err)
      OBVIOUS
    <3>. QED  BY <1>1, <2>1, <3>1, <3>2, FailIs, ReleasedKept
  <2>. QED  BY <1>2, <2>1 DEF CancelUnconfirmed, Unanswered
<1>3. CASE CancelEnds(c)
  BY <1>1, <1>3, ReleasedKept DEF CancelEnds, ConnectionFailed
<1>4. CASE CancelConfirmed(c)
  <2>1. /\ calls[c].at = "exchange" /\ calls[c].answer = "ok" /\ calls' = [calls EXCEPT ![c].at = "settling"]
        /\ UNCHANGED <<pi, writes, conn, piTurn, prompt, struck>>
    BY <1>4 DEF CancelConfirmed, Answered
  <2>2. /\ calls' \in [Callers -> Calls] /\ calls'[c].at = "settling" /\ calls'[c].k = calls[c].k
        /\ calls'[c].answer = calls[c].answer /\ calls'[c].of = calls[c].of
        /\ \A d \in Callers \ {c} : calls'[d] = calls[d]
    BY <1>1, <2>1 DEF Calls
  <2>3. ConnectionTypeOK'
    BY <2>1, <2>2 DEF ConnectionInv, ConnectionTypeOK
  <2>4. CallsSound'
    BY <1>1, <2>1, <2>2 DEF ConnectionInv, CallsSound, Ongoing, Callers, Cancellers
  <2>5. CommandsSound' /\ RecordsSound' /\ WorkSound' /\ AtRest' = AtRest
    <3>1. Unadmitted' = Unadmitted /\ (ConnectionFailed => ConnectionFailed')
      BY <1>1, <2>1, <2>2 DEF Unadmitted, Callers, ConnectionFailed
    <3>2. \A d \in Callers : /\ calls'[d].k \in Nat /\ calls'[d].k >= calls[d].k
                             /\ calls'[d].k = calls[d].k /\ calls'[d].at = "called" => calls[d].at = "called"
      BY <1>1, <2>2 DEF Calls
    <3>3. \A d \in Cancellers : calls[d].at = "exchange" /\ calls[d].answer = "none" =>
             calls'[d].at = "exchange" /\ calls'[d].answer = "none" /\ calls'[d].k = calls[d].k
      BY <2>1, <2>2 DEF Callers
    <3>. QED  BY <2>1, <3>1, <3>2, <3>3, StreamsKept
  <2>6. EvidenceSound'
    BY <1>1, <2>1, <2>2, <2>5 DEF ConnectionInv, EvidenceSound, Unadmitted, Callers, ConnectionFailed
  <2>. QED  BY <2>3, <2>4, <2>5, <2>6 DEF ConnectionInv
<1>. QED  BY <1>2, <1>3, <1>4

\* Cancel holds the barrier, and is about the prompt there is.
LEMMA BeginCancelKept ==
    ASSUME ConnectionInv, NEW c \in Cancellers, BeginCancel(c), UNCHANGED <<pi, writes, struck>>,
           prompt' \in Prompts, prompt'.n = prompt.n,
           prompt' = prompt \/ (prompt.at # "exchange" /\ prompt'.at \notin {"idle", "exchange", "emit"})
    PROVE  ConnectionInv'
<1>1. /\ conn.active # 0 /\ calls[c].at = "idle"
      /\ conn' = [conn EXCEPT !.cancelling = conn.cancelling + 1]
      /\ piTurn' = [piTurn EXCEPT !.cancelRequested = TRUE]
  BY DEF BeginCancel
<1>2. calls \in [Callers -> Calls] /\ c \in Callers /\ c # "prompt" /\ conn \in Connections /\ piTurn \in PiTurns
  BY DEF ConnectionInv, ConnectionTypeOK, Callers, Cancellers
<1>3. conn.active = prompt.n /\ conn.active \in Nat /\ calls[c].k + 1 \in Nat /\ calls[c].k \in Nat
  BY <1>1, <1>2 DEF ConnectionInv, CallsSound, Connections, Calls
<1>4. PICK call : call = [NoCall EXCEPT !.at = "called", !.k = calls[c].k + 1, !.of = conn.active]
  OBVIOUS
<1>5. /\ call \in Calls /\ call.at = "called" /\ call.k = calls[c].k + 1 /\ call.of = prompt.n /\ call.answer = "none"
  BY <1>3, <1>4 DEF NoCall, Calls, Answers
<1>6. calls' = [calls EXCEPT ![c] = call]
  BY <1>4 DEF BeginCancel
<1>7. calls' \in [Callers -> Calls] /\ calls'[c] = call /\ \A d \in Callers \ {c} : calls'[d] = calls[d]
  BY <1>2, <1>5, <1>6
<1>8. /\ conn' \in Connections /\ conn'.cancelling = conn.cancelling + 1 /\ conn'.active = conn.active
      /\ conn'.failure = conn.failure
  BY <1>1, <1>2 DEF Connections
<1>9. piTurn' \in PiTurns /\ piTurn'.settled = piTurn.settled /\ piTurn'.events = piTurn.events
  BY <1>1, <1>2 DEF PiTurns
<1>10. ConnectionTypeOK'
  BY <1>7, <1>8, <1>9 DEF ConnectionInv, ConnectionTypeOK
<1>11. prompt.at # "idle" /\ prompt'.at # "idle" /\ (prompt.at = "exchange" <=> prompt'.at = "exchange")
  BY <1>1 DEF ConnectionInv, CallsSound
<1>12. CallsSound'
  <2>1. "own" \in Callers /\ "control" \in Callers /\ "prepare" \in Callers /\ "prompt" \in Callers
    BY DEF Callers, Cancellers
  <2>2. conn'.cancelling = Ongoing("own")' + Ongoing("control")' + Ongoing("prepare")'
    BY <1>1, <1>2, <1>5, <1>7, <1>8, <2>1 DEF ConnectionInv, CallsSound, Ongoing, Cancellers
  <2>. QED  BY <1>2, <1>5, <1>7, <1>8, <1>11, <2>1, <2>2 DEF ConnectionInv, CallsSound, Callers
<1>13. (Unadmitted' => Unadmitted) /\ ConnectionFailed' = ConnectionFailed
  BY <1>2, <1>7, <1>8 DEF Unadmitted, ConnectionFailed, Callers
<1>14. CommandsSound' /\ RecordsSound' /\ WorkSound' /\ AtRest' = AtRest
  <2>1. \A d \in Callers : /\ calls'[d].k \in Nat /\ calls'[d].k >= calls[d].k
                           /\ calls'[d].k = calls[d].k /\ calls'[d].at = "called" => calls[d].at = "called"
    BY <1>2, <1>3, <1>5, <1>7 DEF Calls
  <2>2. \A d \in Cancellers : calls[d].at = "exchange" /\ calls[d].answer = "none" =>
           calls'[d].at = "exchange" /\ calls'[d].answer = "none" /\ calls'[d].k = calls[d].k
    BY <1>1, <1>7 DEF Callers
  <2>. QED  BY <1>13, <2>1, <2>2, StreamsKept
<1>15. EvidenceSound'
  BY <1>2, <1>7, <1>9, <1>11, <1>13, <1>14 DEF ConnectionInv, EvidenceSound, Callers
<1>. QED  BY <1>10, <1>12, <1>14, <1>15 DEF ConnectionInv

\* Preparation holds the barrier too, while no prompt goes on.
LEMMA BeginPrepareKept == ASSUME ConnectionInv, BeginPrepare PROVE ConnectionInv'
<1>1. /\ calls["prepare"].at = "idle" /\ conn.active = 0
      /\ conn' = [conn EXCEPT !.ready = FALSE, !.cancelling = conn.cancelling + 1]
      /\ UNCHANGED <<pi, writes, piTurn, prompt, struck>>
  BY DEF BeginPrepare
<1>2. calls \in [Callers -> Calls] /\ "prepare" \in Callers /\ conn \in Connections /\ "prepare" \notin Cancellers
  BY DEF ConnectionInv, ConnectionTypeOK, Callers, Cancellers
<1>3. calls["prepare"].k + 1 \in Nat /\ calls["prepare"].k \in Nat
  BY <1>2 DEF Calls
<1>4. PICK call : call = [NoCall EXCEPT !.at = "called", !.k = calls["prepare"].k + 1]
  OBVIOUS
<1>5. call \in Calls /\ call.at = "called" /\ call.k = calls["prepare"].k + 1 /\ call.answer = "none"
  BY <1>3, <1>4 DEF NoCall, Calls, Answers
<1>6. calls' = [calls EXCEPT !["prepare"] = call]
  BY <1>4 DEF BeginPrepare
<1>7. calls' \in [Callers -> Calls] /\ calls'["prepare"] = call /\ \A d \in Callers \ {"prepare"} : calls'[d] = calls[d]
  BY <1>2, <1>5, <1>6
<1>8. /\ conn' \in Connections /\ conn'.cancelling = conn.cancelling + 1 /\ conn'.active = conn.active
      /\ conn'.failure = conn.failure
  <2>1. conn.cancelling + 1 \in Nat
    BY <1>2 DEF Connections
  <2>. QED  BY <1>1, <1>2, <2>1 DEF Connections
<1>9. ConnectionTypeOK'
  BY <1>1, <1>7, <1>8 DEF ConnectionInv, ConnectionTypeOK
<1>10. CallsSound'
  <2>1. "own" \in Callers /\ "control" \in Callers /\ "prompt" \in Callers
    BY DEF Callers, Cancellers
  <2>2. conn'.cancelling = Ongoing("own")' + Ongoing("control")' + Ongoing("prepare")'
    BY <1>1, <1>2, <1>5, <1>7, <1>8, <2>1 DEF ConnectionInv, CallsSound, Ongoing
  <2>. QED  BY <1>1, <1>2, <1>5, <1>7, <1>8, <2>1, <2>2 DEF ConnectionInv, CallsSound, Callers
<1>11. Unadmitted' = Unadmitted /\ ConnectionFailed' = ConnectionFailed
  BY <1>1, <1>7, <1>8 DEF Unadmitted, ConnectionFailed, Callers
<1>12. CommandsSound' /\ RecordsSound' /\ WorkSound' /\ AtRest' = AtRest
  <2>1. \A d \in Callers : /\ calls'[d].k \in Nat /\ calls'[d].k >= calls[d].k
                           /\ calls'[d].k = calls[d].k /\ calls'[d].at = "called" => calls[d].at = "called"
    BY <1>2, <1>3, <1>5, <1>7 DEF Calls
  <2>2. \A d \in Cancellers : calls'[d] = calls[d]
    BY <1>2, <1>7 DEF Callers
  <2>. QED  BY <1>1, <1>11, <2>1, <2>2, StreamsKept
<1>13. EvidenceSound'
  BY <1>1, <1>7, <1>11, <1>12 DEF ConnectionInv, EvidenceSound, Callers
<1>. QED  BY <1>9, <1>10, <1>12, <1>13 DEF ConnectionInv

LEMMA PrepareReleaseKept ==
    ASSUME ConnectionInv, PrepareStep, ~Exchange("prepare", "get_state") PROVE ConnectionInv'
<1>1. conn \in Connections /\ calls["prepare"] \in Calls
  BY DEF ConnectionInv, ConnectionTypeOK, Callers
<1>2. PICK failed \in Connections : failed = Fail(conn, "deadline")
  BY <1>1, FailIs DEF Errors
<1>3. PICK lost \in Connections : lost = Fail(conn, "transport")
  BY <1>1, FailIs DEF Errors
<1>4. /\ failed.cancelling = conn.cancelling /\ failed.active = conn.active /\ failed.failure # "none"
      /\ lost.cancelling = conn.cancelling /\ lost.active = conn.active /\ lost.failure # "none"
  BY <1>1, <1>2, <1>3, FailIs DEF Errors
<1>5. PICK prepared : prepared = [conn EXCEPT !.ready = calls["prepare"].answer = "ok" /\ ~ConnectionFailed]
  OBVIOUS
<1>6. /\ prepared \in Connections /\ prepared.cancelling = conn.cancelling /\ prepared.active = conn.active
      /\ prepared.failure = conn.failure
  <2>1. (calls["prepare"].answer = "ok" /\ ~ConnectionFailed) \in BOOLEAN
    OBVIOUS
  <2>2. PICK b \in BOOLEAN : b = (calls["prepare"].answer = "ok" /\ ~ConnectionFailed)
    BY <2>1
  <2>3. prepared = [conn EXCEPT !.ready = b]
    BY <1>5, <2>2
  <2>. QED  BY <1>1, <2>3 DEF Connections
<1>7. \E connection \in {failed, lost, conn, prepared} : Released("prepare", connection) /\ calls["prepare"].at # "idle"
  BY <1>2, <1>3, <1>5 DEF PrepareStep, Unanswered, Answered, TimedOut
<1>8. PICK connection \in {failed, lost, conn, prepared} :
          Released("prepare", connection) /\ calls["prepare"].at # "idle"
  BY <1>7
<1>9. /\ connection \in Connections /\ connection.cancelling = conn.cancelling /\ connection.active = conn.active
      /\ ConnectionFailed => connection.failure # "none"
  BY <1>1, <1>4, <1>6, <1>8 DEF ConnectionFailed
<1>. QED  BY <1>8, <1>9, ReleasedKept

-----------------------------------------------------------------------------
(* The prompt: steps between its exchange and its end.                     *)

\* A step of the prompt that makes no call and leaves the connection as usable as it is.
LEMMA PromptMoves ==
    ASSUME ConnectionInv, UNCHANGED <<pi, writes, struck>>, conn' \in Connections, piTurn' \in PiTurns,
           prompt' \in Prompts,
           calls' \in [Callers -> Calls], \A c \in Callers \ {"prompt"} : calls'[c] = calls[c],
           calls'["prompt"].k = prompt.n, calls'["prompt"].of = prompt.n,
           calls'["prompt"].answer = calls["prompt"].answer,
           calls'["prompt"].at = "idle" \/ calls'["prompt"] = calls["prompt"],
           calls'["prompt"].at \in {"called", "exchange"} <=> prompt'.at = "exchange",
           prompt'.n = prompt.n, prompt.at # "idle" \/ prompt' = prompt, conn'.cancelling = conn.cancelling,
           conn'.active = IF prompt'.at = "idle" THEN 0 ELSE prompt.n, ConnectionFailed => ConnectionFailed',
           piTurn'.settled = piTurn.settled,
           \A i \in 1 .. Len(piTurn'.events) : piTurn'.events[i] = "prompt_settled" => piTurn.settled,
           prompt'.at = "exchange" => prompt.at = "exchange",
           prompt'.event = "prompt_settled" /\ prompt'.at = "emit" => piTurn.settled,
           prompt'.at = "idle" /\ prompt'.status = "unknown" => ConnectionFailed',
           prompt'.at = "idle" /\ prompt'.status # "unknown" => AtRest
    PROVE  ConnectionInv'
<1>1. "prompt" \in Callers /\ "own" \in Callers /\ "control" \in Callers /\ "prepare" \in Callers
      /\ "prompt" \notin Cancellers /\ Cancellers \subseteq Callers
  BY DEF Callers, Cancellers
<1>2. calls \in [Callers -> Calls]
  BY DEF ConnectionInv, ConnectionTypeOK
<1>3. ConnectionTypeOK'
  BY DEF ConnectionInv, ConnectionTypeOK
<1>4. CallsSound'
  <2>1. Ongoing("own")' = Ongoing("own") /\ Ongoing("control")' = Ongoing("control")
        /\ Ongoing("prepare")' = Ongoing("prepare")
    BY <1>1 DEF Ongoing
  <2>2. \A c \in Callers : calls'[c].at = "called" => calls'[c].answer = "none"
    BY <1>1 DEF ConnectionInv, CallsSound
  <2>3. \A c \in Cancellers : calls'[c].at # "idle" => calls'[c].of = prompt.n
    BY <1>1 DEF ConnectionInv, CallsSound
  <2>4. calls'["prompt"].at # "settling"
    BY DEF ConnectionInv, CallsSound
  <2>. QED  BY <2>1, <2>2, <2>3, <2>4 DEF ConnectionInv, CallsSound
<1>5. Unadmitted' => Unadmitted
  BY DEF Unadmitted
<1>6. CommandsSound' /\ RecordsSound' /\ WorkSound' /\ AtRest' = AtRest
  <2>1. \A c \in Callers : /\ calls'[c].k \in Nat /\ calls'[c].k >= calls[c].k
                           /\ calls'[c].k = calls[c].k /\ calls'[c].at = "called" => calls[c].at = "called"
    <3>1. \A c \in Callers : calls[c].k \in Nat /\ calls'[c].k = calls[c].k
      BY <1>1, <1>2 DEF ConnectionInv, CallsSound, Calls
    <3>2. \A c \in Callers : calls'[c].at = "called" => calls[c].at = "called"
      BY <1>1
    <3>. QED  BY <3>1, <3>2
  <2>2. \A c \in Cancellers : calls'[c] = calls[c]
    BY <1>1
  <2>. QED  BY <1>5, <2>1, <2>2, StreamsKept
<1>7. EvidenceSound'
  <2>1. calls'["prompt"].at = "called" => calls["prompt"].at = "called"
    OBVIOUS
  <2>. QED  BY <1>5, <1>6, <2>1 DEF ConnectionInv, EvidenceSound
<1>. QED  BY <1>3, <1>4, <1>6, <1>7 DEF ConnectionInv

\* What the steps of the prompt go on from.
LEMMA PromptFacts ==
    ASSUME ConnectionInv
    PROVE  /\ prompt \in Prompts /\ piTurn \in PiTurns /\ conn \in Connections /\ calls \in [Callers -> Calls]
           /\ "prompt" \in Callers /\ calls["prompt"] \in Calls
           /\ conn.active = IF prompt.at = "idle" THEN 0 ELSE prompt.n
           /\ calls["prompt"].k = prompt.n /\ calls["prompt"].of = prompt.n
           /\ calls["prompt"].at \in {"called", "exchange"} <=> prompt.at = "exchange"
           /\ \A i \in 1 .. Len(piTurn.events) : piTurn.events[i] = "prompt_settled" => piTurn.settled
           /\ prompt.event = "prompt_settled" /\ prompt.at = "emit" => piTurn.settled
           /\ piTurn.settled => AtRest
BY DEF ConnectionInv, ConnectionTypeOK, CallsSound, EvidenceSound, Callers

LEMMA DeadlineKept == ASSUME ConnectionInv, Deadline PROVE ConnectionInv'
<1>1. prompt.at # "idle" /\ prompt' = [prompt EXCEPT !.late = TRUE]
      /\ UNCHANGED <<pi, writes, conn, piTurn, calls, struck>>
  BY DEF Deadline
<1>2. /\ prompt' \in Prompts /\ prompt'.at = prompt.at /\ prompt'.n = prompt.n /\ prompt'.event = prompt.event
      /\ prompt'.status = prompt.status
  BY <1>1, PromptFacts DEF Prompts
<1>3. ConnectionFailed => ConnectionFailed'
  BY <1>1 DEF ConnectionFailed
<1>. QED  BY <1>1, <1>2, <1>3, PromptFacts, PromptMoves

\* The prompt is interrupted, and its exchange over.
LEMMA InterruptKept ==
    ASSUME ConnectionInv, NEW cause \in {"deadline", "failure", "sink"}, Interrupt(cause), conn' \in Connections,
           conn'.cancelling = conn.cancelling, conn'.active = conn.active, ConnectionFailed => ConnectionFailed',
           prompt.at # "idle", UNCHANGED <<pi, writes, piTurn, struck>>,
           (calls' = calls /\ prompt.at # "exchange") \/ calls' = [calls EXCEPT !["prompt"].at = "idle"]
    PROVE  ConnectionInv'
<1>1. prompt' = [prompt EXCEPT !.at = "interrupted", !.cause = cause]
  BY DEF Interrupt
<1>2. /\ prompt' \in Prompts /\ prompt'.at = "interrupted" /\ prompt'.n = prompt.n
  BY <1>1, PromptFacts DEF Prompts, Causes
<1>3. /\ calls' \in [Callers -> Calls] /\ \A c \in Callers \ {"prompt"} : calls'[c] = calls[c]
      /\ calls'["prompt"].k = prompt.n /\ calls'["prompt"].of = prompt.n
      /\ calls'["prompt"].answer = calls["prompt"].answer
      /\ calls'["prompt"].at = "idle" \/ calls'["prompt"] = calls["prompt"]
      /\ calls'["prompt"].at \notin {"called", "exchange"}
  <2>1. CASE calls' = calls /\ prompt.at # "exchange"
    BY <2>1, PromptFacts
  <2>2. CASE calls' = [calls EXCEPT !["prompt"].at = "idle"]
    BY <2>2, PromptFacts DEF Calls
  <2>. QED  BY <2>1, <2>2
<1>. QED  BY <1>2, <1>3, PromptFacts, PromptMoves

\* A response that comes is taken, whatever else went wrong.
LEMMA PromptAnsweredKept == ASSUME ConnectionInv, PromptAnswered PROVE ConnectionInv'
<1>1. /\ prompt.at = "exchange" /\ calls["prompt"].answer # "none"
      /\ calls' = [calls EXCEPT !["prompt"].at = "idle"]
  BY DEF PromptAnswered, Answered
<1>2. /\ calls' \in [Callers -> Calls] /\ \A c \in Callers \ {"prompt"} : calls'[c] = calls[c]
      /\ calls'["prompt"].k = prompt.n /\ calls'["prompt"].of = prompt.n
      /\ calls'["prompt"].answer = calls["prompt"].answer /\ calls'["prompt"].at = "idle"
  BY <1>1, PromptFacts DEF Calls
<1>3. CASE calls["prompt"].answer = "ok"
  <2>1. /\ prompt' = [prompt EXCEPT !.at = "emit", !.event = "prompt_admitted", !.admitted = TRUE]
        /\ UNCHANGED <<pi, writes, conn, piTurn, struck>>
    BY <1>3 DEF PromptAnswered
  <2>2. prompt' \in Prompts /\ prompt'.at = "emit" /\ prompt'.event = "prompt_admitted" /\ prompt'.n = prompt.n
    BY <2>1, PromptFacts DEF Prompts
  <2>3. ConnectionFailed => ConnectionFailed'
    BY <2>1 DEF ConnectionFailed
  <2>. QED  BY <1>1, <1>2, <2>1, <2>2, <2>3, PromptFacts, PromptMoves
<1>4. CASE calls["prompt"].answer # "ok"
  <2>1. /\ prompt' = [prompt EXCEPT !.at = "idle", !.status = "rejected"]
        /\ conn' = [conn EXCEPT !.active = 0] /\ UNCHANGED <<pi, writes, piTurn, struck>>
    BY <1>4 DEF PromptAnswered, Returned
  <2>2. prompt' \in Prompts /\ prompt'.at = "idle" /\ prompt'.status = "rejected" /\ prompt'.n = prompt.n
    BY <2>1, PromptFacts DEF Prompts
  <2>3. conn' \in Connections /\ conn'.active = 0 /\ conn'.cancelling = conn.cancelling /\ conn'.failure = conn.failure
    BY <2>1, PromptFacts DEF Connections
  <2>4. ConnectionFailed => ConnectionFailed'
    BY <2>3 DEF ConnectionFailed
  <2>5. AtRest
    BY <1>1, <1>4 DEF ConnectionInv, EvidenceSound
  <2>. QED  BY <1>1, <1>2, <2>1, <2>2, <2>3, <2>4, <2>5, PromptFacts, PromptMoves
<1>. QED  BY <1>3, <1>4

LEMMA PromptUnansweredKept == ASSUME ConnectionInv, PromptUnanswered PROVE ConnectionInv'
<1>1. /\ prompt.at = "exchange" /\ calls' = [calls EXCEPT !["prompt"].at = "idle"]
      /\ UNCHANGED <<pi, writes, piTurn, struck>>
  BY DEF PromptUnanswered
<1>2. CASE Interrupt("deadline") /\ conn' = TimedOut("prompt")
  <2>1. /\ conn' \in Connections /\ conn'.cancelling = conn.cancelling /\ conn'.active = conn.active
        /\ conn'.failure # conn.failure => conn'.failure # "none"
    BY <1>2, PromptFacts, FailIs DEF TimedOut, Errors
  <2>2. ConnectionFailed => ConnectionFailed'
    BY <2>1 DEF ConnectionFailed
  <2>. QED  BY <1>1, <1>2, <2>1, <2>2, InterruptKept
<1>3. CASE Interrupt("failure") /\ UNCHANGED conn
  <2>1. ConnectionFailed => ConnectionFailed'
    BY <1>3 DEF ConnectionFailed
  <2>. QED  BY <1>1, <1>3, <2>1, PromptFacts, InterruptKept
<1>. QED  BY <1>2, <1>3 DEF PromptUnanswered

\* A prompt returns its outcome when the event of its settlement was taken.
LEMMA EmitKept == ASSUME ConnectionInv, Emit PROVE ConnectionInv'
<1>1. prompt.at = "emit" /\ UNCHANGED <<pi, writes, piTurn, calls, struck>>
  BY DEF Emit, Returned
<1>2. CASE prompt.event = "prompt_settled" /\ Returned(piTurn.outcome)
  <2>1. /\ prompt' = [prompt EXCEPT !.at = "idle", !.status = piTurn.outcome]
        /\ conn' = [conn EXCEPT !.active = 0]
    BY <1>2 DEF Returned
  <2>2. piTurn.outcome \in {"", "aborted", "completed", "failed"}
    BY PromptFacts DEF PiTurns
  <2>3. prompt' \in Prompts /\ prompt'.at = "idle" /\ prompt'.status # "unknown" /\ prompt'.n = prompt.n
    BY <2>1, <2>2, PromptFacts DEF Prompts
  <2>4. conn' \in Connections /\ conn'.active = 0 /\ conn'.cancelling = conn.cancelling /\ conn'.failure = conn.failure
    BY <2>1, PromptFacts DEF Connections
  <2>5. ConnectionFailed => ConnectionFailed'
    BY <2>4 DEF ConnectionFailed
  <2>6. AtRest
    BY <1>1, <1>2, PromptFacts
  <2>. QED  BY <1>1, <2>1, <2>3, <2>4, <2>5, <2>6, PromptFacts, PromptMoves
<1>3. CASE prompt' = [prompt EXCEPT !.at = "loop"] /\ UNCHANGED conn
  <2>1. prompt' \in Prompts /\ prompt'.at = "loop" /\ prompt'.n = prompt.n
    BY <1>3, PromptFacts DEF Prompts
  <2>2. ConnectionFailed => ConnectionFailed'
    BY <1>3 DEF ConnectionFailed
  <2>. QED  BY <1>1, <1>3, <2>1, <2>2, PromptFacts, PromptMoves
<1>4. CASE Interrupt("sink") /\ UNCHANGED conn
  <2>1. ConnectionFailed => ConnectionFailed'
    BY <1>4 DEF ConnectionFailed
  <2>. QED  BY <1>1, <1>4, <2>1, PromptFacts, InterruptKept
<1>. QED  BY <1>2, <1>3, <1>4 DEF Emit

LEMMA InterruptsKept == ASSUME ConnectionInv, EmitUnheard \/ WaitEnds PROVE ConnectionInv'
<1>1. /\ prompt.at \in {"emit", "wait"} /\ UNCHANGED <<pi, writes, conn, piTurn, calls, struck>>
      /\ Interrupt("deadline") \/ Interrupt("failure")
  BY DEF EmitUnheard, WaitEnds
<1>2. ConnectionFailed => ConnectionFailed'
  BY <1>1 DEF ConnectionFailed
<1>. QED  BY <1>1, <1>2, PromptFacts, InterruptKept

LEMMA TakeEventKept == ASSUME ConnectionInv, TakeEvent PROVE ConnectionInv'
<1>1. /\ prompt.at \in {"loop", "wait"} /\ piTurn.events # <<>>
      /\ prompt' = [prompt EXCEPT !.at = "emit", !.event = Head(piTurn.events)]
      /\ piTurn' = [piTurn EXCEPT !.events = Tail(piTurn.events)]
      /\ UNCHANGED <<pi, writes, conn, calls, struck>>
  BY DEF TakeEvent
<1>2. PICK events : events = piTurn.events
  OBVIOUS
<1>3. events \in Seq({"activity", "prompt_settled"})
  BY <1>2, PromptFacts DEF PiTurns
<1>4. /\ Tail(events) \in Seq({"activity", "prompt_settled"}) /\ Head(events) \in {"activity", "prompt_settled"}
      /\ Head(events) = events[1] /\ Len(events) >= 1 /\ Len(Tail(events)) = Len(events) - 1
      /\ \A i \in 1 .. Len(Tail(events)) : i + 1 \in 1 .. Len(events) /\ Tail(events)[i] = events[i + 1]
  BY <1>1, <1>2, <1>3
<1>5. piTurn' \in PiTurns /\ piTurn'.events = Tail(events) /\ piTurn'.settled = piTurn.settled
  BY <1>1, <1>2, <1>4, PromptFacts DEF PiTurns
<1>6. prompt' \in Prompts /\ prompt'.at = "emit" /\ prompt'.event = Head(events) /\ prompt'.n = prompt.n
  BY <1>1, <1>2, <1>4, PromptFacts DEF Prompts
<1>7. \A i \in 1 .. Len(events) : events[i] = "prompt_settled" => piTurn.settled
  BY <1>2, PromptFacts
<1>8. prompt'.event = "prompt_settled" => piTurn.settled
  BY <1>4, <1>6, <1>7
<1>9. \A i \in 1 .. Len(piTurn'.events) : piTurn'.events[i] = "prompt_settled" => piTurn.settled
  BY <1>4, <1>5, <1>7
<1>10. ConnectionFailed => ConnectionFailed'
  BY <1>1 DEF ConnectionFailed
<1>. QED  BY <1>1, <1>5, <1>6, <1>8, <1>9, <1>10, PromptFacts, PromptMoves

\* The end of the connection is the prompt's only if no settlement came.
LEMMA WaitKept == ASSUME ConnectionInv, Wait \/ ConnectionLost PROVE ConnectionInv'
<1>1. prompt.at \in {"loop", "wait"} /\ UNCHANGED <<pi, writes, piTurn, calls, struck>>
  BY DEF Wait, ConnectionLost
<1>2. CASE UNCHANGED conn /\ \E at \in {"wait", "loop"} : prompt' = [prompt EXCEPT !.at = at]
  <2>1. prompt' \in Prompts /\ prompt'.at \in {"wait", "loop"} /\ prompt'.n = prompt.n
    BY <1>2, PromptFacts DEF Prompts
  <2>2. ConnectionFailed => ConnectionFailed'
    BY <1>2 DEF ConnectionFailed
  <2>. QED  BY <1>1, <1>2, <2>1, <2>2, PromptFacts, PromptMoves
<1>3. CASE /\ ConnectionFailed /\ conn' = [conn EXCEPT !.active = 0]
           /\ prompt' = [prompt EXCEPT !.at = "idle", !.status = "unknown", !.cause = "failure"]
  <2>1. prompt' \in Prompts /\ prompt'.at = "idle" /\ prompt'.status = "unknown" /\ prompt'.n = prompt.n
    BY <1>3, PromptFacts DEF Prompts, Causes
  <2>2. conn' \in Connections /\ conn'.active = 0 /\ conn'.cancelling = conn.cancelling /\ conn'.failure = conn.failure
    BY <1>3, PromptFacts DEF Connections
  <2>3. ConnectionFailed'
    BY <1>3, <2>2 DEF ConnectionFailed
  <2>. QED  BY <1>1, <2>1, <2>2, <2>3, PromptFacts, PromptMoves
<1>. QED  BY <1>2, <1>3 DEF Wait, ConnectionLost

\* An interrupted prompt takes the connection with it.
LEMMA InterruptedKept == ASSUME ConnectionInv, Interrupted PROVE ConnectionInv'
<1>1. /\ prompt.at = "cancelled" /\ prompt' = [prompt EXCEPT !.at = "idle", !.status = "unknown"]
      /\ conn' = [Fail(conn, prompt.cause) EXCEPT !.active = 0] /\ UNCHANGED <<pi, writes, piTurn, calls, struck>>
  BY DEF Interrupted
<1>2. PICK failed \in Connections : failed = Fail(conn, prompt.cause)
  <2>1. prompt.cause \in Errors \ {"none"}
    BY PromptFacts DEF Prompts, Causes, Errors
  <2>. QED  BY <2>1, PromptFacts, FailIs
<1>3. failed.active = conn.active /\ failed.cancelling = conn.cancelling /\ failed.failure # "none"
  <2>1. prompt.cause \in Errors \ {"none"}
    BY PromptFacts DEF Prompts, Causes, Errors
  <2>. QED  BY <1>2, <2>1, PromptFacts, FailIs
<1>4. conn' \in Connections /\ conn'.active = 0 /\ conn'.cancelling = conn.cancelling /\ conn'.failure = failed.failure
  BY <1>1, <1>2, <1>3 DEF Connections
<1>5. ConnectionFailed'
  BY <1>3, <1>4 DEF ConnectionFailed
<1>6. prompt' \in Prompts /\ prompt'.at = "idle" /\ prompt'.status = "unknown" /\ prompt'.n = prompt.n
  BY <1>1, PromptFacts DEF Prompts
<1>. QED  BY <1>1, <1>4, <1>5, <1>6, PromptFacts, PromptMoves

LEMMA CancelBegunKept == ASSUME ConnectionInv, ControlCancel \/ InterruptedCancel PROVE ConnectionInv'
<1>1. CASE ControlCancel
  BY <1>1, BeginCancelKept, PromptFacts DEF ControlCancel, Cancellers
<1>2. CASE InterruptedCancel
  <2>1. prompt' = [prompt EXCEPT !.at = "cancelled"] /\ prompt.at = "interrupted"
    BY <1>2 DEF InterruptedCancel
  <2>2. prompt' \in Prompts /\ prompt'.at = "cancelled" /\ prompt'.n = prompt.n
    BY <2>1, PromptFacts DEF Prompts
  <2>. QED  BY <1>2, <2>1, <2>2, BeginCancelKept DEF InterruptedCancel, Cancellers
<1>. QED  BY <1>1, <1>2

LEMMA ReadEndKept == ASSUME ConnectionInv, ReadEnd PROVE ConnectionInv'
<1>1. /\ conn' = [Fail(conn, "transport") EXCEPT !.reading = FALSE]
      /\ UNCHANGED <<pi, writes, piTurn, prompt, calls, struck>>
  BY DEF ReadEnd
<1>2. Fail(conn, "transport") \in Connections
  BY PromptFacts, FailIs DEF Errors
<1>3. PICK failed \in Connections : failed = Fail(conn, "transport")
  BY <1>2
<1>4. failed.active = conn.active /\ failed.cancelling = conn.cancelling /\ failed.failure # "none"
  BY <1>3, PromptFacts, FailIs DEF Errors
<1>5. /\ conn' \in Connections /\ conn'.active = conn.active /\ conn'.cancelling = conn.cancelling
      /\ conn'.failure = failed.failure
  BY <1>1, <1>3, <1>4 DEF Connections
<1>6. ConnectionFailed'
  BY <1>4, <1>5 DEF ConnectionFailed
<1>7. prompt.at = "idle" /\ prompt.status # "unknown" => AtRest
  BY DEF ConnectionInv, EvidenceSound
<1>. QED  BY <1>1, <1>5, <1>6, <1>7, PromptFacts, PromptMoves
-----------------------------------------------------------------------------
(* What is on its way.                                                     *)

LEMMA AppendIs ==
    ASSUME NEW S, NEW s \in Seq(S), NEW e \in S
    PROVE  /\ Append(s, e) \in Seq(S) /\ Len(Append(s, e)) = Len(s) + 1 /\ Len(s) \in Nat
           /\ \A i \in 1 .. Len(s) : Append(s, e)[i] = s[i]
           /\ Append(s, e)[Len(s) + 1] = e
           /\ \A i \in 1 .. Len(Append(s, e)) : i \in 1 .. Len(s) \/ i = Len(s) + 1
OBVIOUS

LEMMA TailIs ==
    ASSUME NEW S, NEW s \in Seq(S), s # <<>>
    PROVE  /\ Tail(s) \in Seq(S) /\ Head(s) \in S /\ Head(s) = s[1] /\ Len(s) \in Nat /\ Len(s) >= 1
           /\ Len(Tail(s)) = Len(s) - 1
           /\ \A i \in 1 .. Len(Tail(s)) : i + 1 \in 1 .. Len(s) /\ Tail(s)[i] = s[i + 1]
OBVIOUS

LEMMA AlikeAppended ==
    ASSUME NEW s \in Seq(Commands), NEW e \in Commands, Alike(s), \A i \in 1 .. Len(s) : s[i].id # e.id
    PROVE  Alike(Append(s, e))
<1>1. SUFFICES ASSUME NEW i \in 1 .. Len(Append(s, e)), NEW j \in 1 .. Len(Append(s, e)),
                      Append(s, e)[i].id = Append(s, e)[j].id
               PROVE  i = j
  BY DEF Alike
<1>2. i \in 1 .. Len(s) /\ j \in 1 .. Len(s) => i = j
  BY <1>1, AppendIs DEF Alike
<1>. QED  BY <1>1, <1>2, AppendIs

LEMMA AlikeTail == ASSUME NEW s \in Seq(Commands), s # <<>>, Alike(s) PROVE Alike(Tail(s))
<1>1. ASSUME NEW i \in 1 .. Len(Tail(s)), NEW j \in 1 .. Len(Tail(s)), Tail(s)[i].id = Tail(s)[j].id PROVE i = j
  <2>1. s[i + 1].id = s[j + 1].id /\ i + 1 \in 1 .. Len(s) /\ j + 1 \in 1 .. Len(s)
    BY <1>1, TailIs
  <2>2. i + 1 = j + 1
    BY <2>1 DEF Alike
  <2>. QED  BY <2>2
<1>. QED  BY <1>1 DEF Alike

\* What the streams hold.
LEMMA StreamFacts ==
    ASSUME ConnectionInv
    PROVE  /\ pi \in PiStates /\ writes \in Seq(Commands) /\ pi.stdin \in Seq(Commands) /\ pi.stdout \in Seq(Records)
           /\ pi.owes \subseteq Callers \X Nat /\ calls \in [Callers -> Calls] /\ struck \subseteq Nat \X Nat
           /\ \A i \in 1 .. Len(writes) : writes[i] \in Commands /\ CommandSound(writes[i])
           /\ \A i \in 1 .. Len(pi.stdin) : pi.stdin[i] \in Commands /\ CommandSound(pi.stdin[i])
           /\ \A i \in 1 .. Len(pi.stdout) : pi.stdout[i] \in Records /\ RecordSound(i)
           /\ \A id \in pi.owes : id[1] \in Cancellers /\ Fresh(id)
           /\ Alike(writes) /\ Alike(pi.stdin) /\ Apart(writes, pi.stdin)
<1>1. /\ pi \in PiStates /\ writes \in Seq(Commands) /\ calls \in [Callers -> Calls] /\ struck \subseteq Nat \X Nat
      /\ CommandsSound /\ RecordsSound
  BY DEF ConnectionInv, ConnectionTypeOK
<1>2. pi.stdin \in Seq(Commands) /\ pi.stdout \in Seq(Records) /\ pi.owes \subseteq Callers \X Nat
  BY <1>1 DEF PiStates
<1>. QED  BY <1>1, <1>2 DEF CommandsSound, RecordsSound

\* A call's command is its own: nothing on its way has its name.
LEMMA ExchangeKept ==
    ASSUME ConnectionInv, NEW c, NEW type, Exchange(c, type),
           \/ c \in Cancellers /\ type = "abort"
           \/ c = "prepare" /\ type = "get_state"
           \/ c = "prompt" /\ type = "prompt"
    PROVE  ConnectionInv'
<1>0. c \in Callers /\ "prompt" \notin Cancellers /\ "prepare" \notin Cancellers
  BY DEF Callers, Cancellers
<1>1. /\ calls[c].at = "called" /\ ~ConnectionFailed
      /\ UNCHANGED <<pi, conn, piTurn, prompt, struck>>
      /\ calls' = [calls EXCEPT ![c].at = "exchange", ![c].written = FALSE, ![c].answer = "none"]
  BY DEF Exchange
<1>2. PICK e : e = [type |-> type, id |-> <<c, calls[c].k>>, of |-> calls[c].of]
  OBVIOUS
<1>3. calls \in [Callers -> Calls] /\ calls[c] \in Calls /\ calls[c].k \in Nat /\ calls[c].of \in Nat
  BY <1>0, StreamFacts DEF Calls
<1>4. e \in Commands /\ e.type = type /\ e.id = <<c, calls[c].k>> /\ e.of = calls[c].of /\ e.id[1] = c
      /\ e.id[2] = calls[c].k
  BY <1>0, <1>2, <1>3 DEF Commands
<1>5. writes' = Append(writes, e)
  BY <1>2 DEF Exchange
<1>6. /\ calls' \in [Callers -> Calls] /\ calls'[c].at = "exchange" /\ calls'[c].k = calls[c].k
      /\ calls'[c].of = calls[c].of /\ calls'[c].answer = "none"
      /\ \A d \in Callers \ {c} : calls'[d] = calls[d]
  BY <1>0, <1>1, <1>3 DEF Calls, Answers
<1>7. calls[c].answer = "none"
  BY <1>0, <1>1 DEF ConnectionInv, CallsSound
<1>8. ~Fresh(e.id)
  BY <1>1, <1>4 DEF Fresh
<1>9. Fresh(e.id)'
  <2>1. calls'[c].k <= calls'[c].k
    BY <1>3, <1>6
  <2>. QED  BY <1>4, <1>6, <2>1 DEF Fresh
<1>10. \A id : id[1] \in Callers /\ Fresh(id) => Fresh(id)'
  BY <1>0, <1>6 DEF Fresh
<1>11. c = "prompt" => AtRest
  BY <1>1 DEF ConnectionInv, EvidenceSound
<1>12. c # "prompt" => AtRest' = AtRest /\ NoPrompts(writes)' = NoPrompts(writes)
  <2>1. ASSUME c # "prompt" PROVE NoPrompts(writes)' = NoPrompts(writes)
    <3>1. e.type # "prompt"
      BY <1>4, <2>1
    <3>2. NoPrompts(writes) => NoPrompts(Append(writes, e))
      BY <1>4, <3>1, AppendIs, StreamFacts DEF NoPrompts
    <3>3. NoPrompts(Append(writes, e)) => NoPrompts(writes)
      BY <1>4, AppendIs, StreamFacts DEF NoPrompts
    <3>. QED  BY <1>5, <3>2, <3>3 DEF NoPrompts
  <2>. QED  BY <1>1, <2>1 DEF AtRest
<1>13. \A id : Responded(id)' = Responded(id)
  BY <1>1 DEF Responded
<1>14. ASSUME NEW d \in Commands, CommandSound(d) PROVE CommandSound(d)' /\ d.id # e.id
  <2>1. d.id[1] \in Callers /\ Fresh(d.id)
    BY <1>14 DEF Commands, CommandSound
  <2>2. Waits(d.id) => Waits(d.id)'
    BY <1>1, <1>6, <2>1 DEF Waits
  <2>3. ConnectionFailed' = ConnectionFailed
    BY <1>1 DEF ConnectionFailed
  <2>4. Fresh(d.id)' /\ Responded(d.id)' = Responded(d.id)
    BY <1>10, <1>13, <2>1
  <2>. QED  BY <1>1, <1>8, <1>14, <2>1, <2>2, <2>3, <2>4 DEF CommandSound
<1>15. CommandSound(e)'
  <2>1. type = "prompt" => e.id = <<"prompt", prompt.n>> /\ e.of = prompt.n /\ pi.working = 0 /\ NoEvents(pi.stdout)
    BY <1>4, <1>11 DEF ConnectionInv, CallsSound, AtRest
  <2>2. type = "abort" => c \in Cancellers /\ e.of = prompt.n
    BY <1>1, <1>4 DEF ConnectionInv, CallsSound
  <2>3. Waits(e.id)'
    BY <1>4, <1>6 DEF Waits
  <2>4. e.id \notin pi.owes /\ ~Responded(e.id)
    BY <1>8, StreamFacts DEF Responded, RecordSound
  <2>5. Responded(e.id)' = Responded(e.id)
    BY <1>13
  <2>. QED  BY <1>1, <1>4, <1>9, <2>1, <2>2, <2>3, <2>4, <2>5 DEF CommandSound
<1>16. CommandsSound'
  <2>1. Alike(Append(writes, e))
    BY <1>4, <1>14, StreamFacts, AlikeAppended
  <2>2. Apart(Append(writes, e), pi.stdin)
    <3>1. ASSUME NEW i \in 1 .. Len(Append(writes, e)), NEW j \in 1 .. Len(pi.stdin)
          PROVE  Append(writes, e)[i].id # pi.stdin[j].id
      BY <1>4, <1>14, StreamFacts, AppendIs DEF Apart
    <3>. QED  BY <3>1 DEF Apart
  <2>3. ASSUME NEW i \in 1 .. Len(writes') PROVE CommandSound(writes[i])'
    <3>1. PICK d : d = writes'[i]
      OBVIOUS
    <3>2. d = e \/ (d \in Commands /\ CommandSound(d))
      BY <1>4, <1>5, <3>1, StreamFacts, AppendIs
    <3>3. CommandSound(d)'
      BY <1>14, <1>15, <3>2
    <3>. QED  BY <3>1, <3>3 DEF CommandSound
  <2>4. ASSUME NEW i \in 1 .. Len(pi.stdin) PROVE CommandSound(pi.stdin[i])'
    <3>1. PICK d : d = pi.stdin[i]
      OBVIOUS
    <3>2. CommandSound(d)'
      BY <1>14, <3>1, StreamFacts
    <3>. QED  BY <1>1, <3>1, <3>2 DEF CommandSound
  <2>. QED  BY <1>1, <1>5, <2>1, <2>2, <2>3, <2>4, StreamFacts DEF CommandsSound, Alike, Apart
<1>17. c # "prompt" => Unadmitted' = Unadmitted
  BY <1>0, <1>1, <1>6 DEF Unadmitted, Callers
<1>18. RecordsSound'
  <2>1. \A id \in pi.owes : Fresh(id)'
    BY <1>10, StreamFacts
  <2>2. ASSUME NEW i \in 1 .. Len(pi.stdout) PROVE RecordSound(i)'
    <3>1. RecordSound(i)
      BY StreamFacts
    <3>2. pi.stdout[i].type = "response" => Fresh(pi.stdout[i].to)'
      <4>1. PICK id : id = pi.stdout[i].to
        OBVIOUS
      <4>2. pi.stdout[i].type = "response" => Fresh(id)'
        BY <1>10, <3>1, <4>1 DEF RecordSound
      <4>. QED  BY <1>1, <4>1, <4>2 DEF Fresh
    <3>3. CASE c # "prompt"
      BY <1>1, <1>12, <1>17, <3>1, <3>2, <3>3 DEF RecordSound
    <3>4. CASE c = "prompt"
      <4>1. pi.stdout[i].type = "response"
        BY <1>11, <3>4 DEF AtRest, NoEvents
      <4>2. pi.stdout[i].to # <<"prompt", prompt.n>>
        <5>1. e.id = <<"prompt", prompt.n>>
          BY <1>4, <3>4 DEF ConnectionInv, CallsSound
        <5>. QED  BY <1>8, <3>1, <4>1, <5>1 DEF RecordSound
      <4>. QED  BY <1>1, <3>1, <3>2, <4>1, <4>2 DEF RecordSound
    <3>. QED  BY <3>3, <3>4
  <2>. QED  BY <1>1, <2>1, <2>2, StreamFacts DEF RecordsSound
<1>19. WorkSound'
  <2>1. NoEvents(pi.stdout)' = NoEvents(pi.stdout)
    BY <1>1 DEF NoEvents
  <2>2. c = "prompt" => ~pi.started
    BY <1>11 DEF AtRest, ConnectionInv, WorkSound
  <2>3. Responded(<<"prompt", prompt.n>>)' = Responded(<<"prompt", prompt.n>>)
    BY <1>1 DEF Responded
  <2>. QED  BY <1>1, <1>17, <2>1, <2>2, <2>3 DEF ConnectionInv, WorkSound
<1>20. EvidenceSound'
  <2>1. CASE c # "prompt"
    <3>1. calls'["prompt"] = calls["prompt"]
      BY <1>6, <2>1 DEF Callers
    <3>. QED  BY <1>1, <1>12, <1>17, <2>1, <3>1 DEF ConnectionInv, EvidenceSound, ConnectionFailed
  <2>2. CASE c = "prompt"
    <3>1. prompt.at = "exchange" /\ Unadmitted /\ ~piTurn.settled
      BY <1>1, <1>7, <2>2 DEF ConnectionInv, CallsSound, EvidenceSound, Unadmitted
    <3>. QED  BY <1>1, <1>6, <2>2, <3>1 DEF ConnectionInv, EvidenceSound, Unadmitted
  <2>. QED  BY <2>1, <2>2
<1>21. CallsSound'
  <2>1. "own" \in Callers /\ "control" \in Callers /\ "prepare" \in Callers /\ "prompt" \in Callers
    BY DEF Callers, Cancellers
  <2>2. Ongoing("own")' = Ongoing("own") /\ Ongoing("control")' = Ongoing("control")
        /\ Ongoing("prepare")' = Ongoing("prepare")
    BY <1>1, <1>6, <2>1 DEF Ongoing
  <2>. QED  BY <1>1, <1>6, <2>1, <2>2 DEF ConnectionInv, CallsSound, Callers
<1>22. ConnectionTypeOK'
  <2>1. Append(writes, e) \in Seq(Commands)
    BY <1>4, StreamFacts, AppendIs
  <2>. QED  BY <1>1, <1>5, <1>6, <2>1 DEF ConnectionInv, ConnectionTypeOK
<1>. QED  BY <1>16, <1>18, <1>19, <1>20, <1>21, <1>22 DEF ConnectionInv

\* A prompt begins with nobody at work and no abort under way.
LEMMA SubmitKept == ASSUME ConnectionInv, Submit PROVE ConnectionInv'
<1>0. "own" \in Callers /\ "control" \in Callers /\ "prepare" \in Callers /\ "prompt" \in Callers
      /\ "prompt" \notin Cancellers /\ "prepare" \notin Cancellers
  BY DEF Callers, Cancellers
<1>1. /\ ~ConnectionFailed /\ conn.cancelling = 0 /\ prompt.at = "idle"
      /\ prompt' = [n |-> prompt.n + 1, at |-> "exchange", event |-> "", admitted |-> FALSE,
                    late |-> FALSE, cause |-> "", status |-> "none"]
      /\ conn' = [conn EXCEPT !.active = prompt.n + 1]
      /\ piTurn' = NewTurn(prompt.n + 1)
      /\ UNCHANGED <<pi, writes, struck>>
  BY DEF Submit, Submitted
<1>2. prompt.n \in Nat /\ prompt.n + 1 \in Nat /\ conn \in Connections
  <2>1. prompt.n \in Nat /\ conn \in Connections
    BY PromptFacts DEF Prompts
  <2>. QED  BY <2>1
<1>3. PICK call : call = [NoCall EXCEPT !.at = "called", !.k = prompt.n + 1, !.of = prompt.n + 1]
  OBVIOUS
<1>4. call \in Calls /\ call.at = "called" /\ call.k = prompt.n + 1 /\ call.of = prompt.n + 1 /\ call.answer = "none"
  BY <1>2, <1>3 DEF NoCall, Calls, Answers
<1>5. calls' = [calls EXCEPT !["prompt"] = call]
  BY <1>3 DEF Submit, Submitted
<1>6. calls' \in [Callers -> Calls] /\ calls'["prompt"] = call /\ \A d \in Callers \ {"prompt"} : calls'[d] = calls[d]
  BY <1>0, <1>4, <1>5, StreamFacts
<1>7. prompt' \in Prompts /\ prompt'.n = prompt.n + 1 /\ prompt'.at = "exchange" /\ prompt'.event = ""
  BY <1>1, <1>2 DEF Prompts, Causes
<1>8. /\ conn' \in Connections /\ conn'.active = prompt.n + 1 /\ conn'.cancelling = 0
      /\ conn'.failure = conn.failure
  BY <1>1, <1>2 DEF Connections
<1>9. piTurn' \in PiTurns /\ ~piTurn'.settled /\ Len(piTurn'.events) = 0
  <2>1. <<>> \in Seq({"activity", "prompt_settled"})
    OBVIOUS
  <2>2. piTurn' = [n |-> prompt.n + 1, events |-> <<>>, settled |-> FALSE, reason |-> "", outcome |-> "",
                   cancelRequested |-> FALSE]
    BY <1>1 DEF NewTurn
  <2>. QED  BY <1>2, <2>1, <2>2 DEF PiTurns, Reasons
<1>10. AtRest /\ AtRest'
  <2>1. AtRest
    BY <1>1 DEF ConnectionInv, EvidenceSound
  <2>. QED  BY <1>1, <2>1 DEF AtRest
<1>11. calls["own"].at = "idle" /\ calls["control"].at = "idle" /\ calls["prepare"].at = "idle"
  <2>1. Ongoing("own") + Ongoing("control") + Ongoing("prepare") = 0
    BY <1>1 DEF ConnectionInv, CallsSound
  <2>2. Ongoing("own") \in {0, 1} /\ Ongoing("control") \in {0, 1} /\ Ongoing("prepare") \in {0, 1}
    BY DEF Ongoing
  <2>3. Ongoing("own") = 0 /\ Ongoing("control") = 0 /\ Ongoing("prepare") = 0
    BY <2>1, <2>2
  <2>. QED  BY <2>3 DEF Ongoing
<1>12. calls["prompt"].k = prompt.n
  BY PromptFacts
<1>13. \A id : id[1] \in Callers /\ id[2] \in Nat /\ Fresh(id) =>
          Fresh(id)' /\ id # <<"prompt", prompt.n + 1>>
  <2>1. SUFFICES ASSUME NEW id, id[1] \in Callers, id[2] \in Nat, Fresh(id)
                 PROVE  Fresh(id)' /\ id # <<"prompt", prompt.n + 1>>
    OBVIOUS
  <2>2. CASE id[1] = "prompt"
    <3>1. id[2] <= prompt.n
      BY <1>12, <2>1, <2>2 DEF Fresh
    <3>2. id[2] < prompt.n + 1
      BY <1>2, <2>1, <3>1
    <3>. QED  BY <1>2, <1>4, <1>6, <2>1, <2>2, <3>2 DEF Fresh
  <2>3. CASE id[1] # "prompt"
    BY <1>6, <2>1, <2>3 DEF Fresh
  <2>. QED  BY <2>2, <2>3
<1>14. \A id : Responded(id)' = Responded(id)
  BY <1>1 DEF Responded
<1>15. ASSUME NEW d \in Commands, CommandSound(d), d.type # "prompt" PROVE CommandSound(d)'
  <2>1. d.id[1] \in Callers /\ d.id[2] \in Nat /\ Fresh(d.id)
    BY <1>15 DEF Commands, CommandSound
  <2>2. d.type # "abort"
    BY <1>1, <1>11, <1>15 DEF CommandSound, Waits, Cancellers
  <2>3. Fresh(d.id)' /\ Responded(d.id)' = Responded(d.id)
    BY <1>13, <1>14, <2>1
  <2>. QED  BY <1>1, <1>15, <2>2, <2>3 DEF CommandSound
<1>16. CommandsSound'
  <2>1. ASSUME NEW i \in 1 .. Len(writes) PROVE CommandSound(writes[i])'
    <3>1. PICK d : d = writes[i]
      OBVIOUS
    <3>2. CommandSound(d)'
      BY <1>10, <1>15, <3>1, StreamFacts DEF AtRest, NoPrompts
    <3>. QED  BY <1>1, <3>1, <3>2 DEF CommandSound
  <2>2. ASSUME NEW i \in 1 .. Len(pi.stdin) PROVE CommandSound(pi.stdin[i])'
    <3>1. PICK d : d = pi.stdin[i]
      OBVIOUS
    <3>2. CommandSound(d)'
      BY <1>10, <1>15, <3>1, StreamFacts DEF AtRest, NoPrompts
    <3>. QED  BY <1>1, <3>1, <3>2 DEF CommandSound
  <2>3. Alike(writes)' /\ Alike(pi.stdin)' /\ Apart(writes, pi.stdin)'
    <3>1. Alike(writes) /\ Alike(pi.stdin) /\ Apart(writes, pi.stdin)
      BY StreamFacts
    <3>2. writes' = writes /\ pi' = pi
      BY <1>1
    <3>. QED  BY <3>1, <3>2 DEF Alike, Apart
  <2>. QED  BY <1>1, <2>1, <2>2, <2>3 DEF CommandsSound
<1>17. RecordsSound'
  <2>1. \A id \in pi.owes : Fresh(id)'
    BY <1>13, StreamFacts
  <2>2. ASSUME NEW i \in 1 .. Len(pi.stdout) PROVE RecordSound(i)'
    <3>1. RecordSound(i) /\ pi.stdout[i].type = "response" /\ pi.stdout[i].to[2] \in Nat
      BY <1>10, StreamFacts DEF AtRest, NoEvents, Records
    <3>2. PICK id : id = pi.stdout[i].to
      OBVIOUS
    <3>3. Fresh(id)' /\ id # <<"prompt", prompt.n + 1>> /\ id[1] \in Callers
      BY <1>13, <3>1, <3>2 DEF RecordSound
    <3>. QED  BY <1>1, <1>7, <3>1, <3>2, <3>3 DEF RecordSound, Fresh
  <2>. QED  BY <1>1, <2>1, <2>2, StreamFacts DEF RecordsSound
<1>18. WorkSound'
  BY <1>1, <1>10 DEF AtRest, ConnectionInv, WorkSound
<1>19. EvidenceSound'
  <2>1. \A i \in 1 .. Len(piTurn'.events) : piTurn'.events[i] = "prompt_settled" => piTurn'.settled
    BY <1>9
  <2>. QED  BY <1>4, <1>6, <1>7, <1>9, <1>10, <2>1 DEF EvidenceSound
<1>20. CallsSound'
  <2>1. Ongoing("own")' = 0 /\ Ongoing("control")' = 0 /\ Ongoing("prepare")' = 0
    BY <1>0, <1>6, <1>11 DEF Ongoing
  <2>2. \A c \in Callers : calls'[c].at = "called" => calls'[c].answer = "none"
    BY <1>4, <1>6 DEF ConnectionInv, CallsSound
  <2>3. \A c \in Cancellers : calls'[c].at # "idle" => calls'[c].of = prompt'.n
    BY <1>6, <1>11 DEF Callers, Cancellers
  <2>4. conn'.cancelling = Ongoing("own")' + Ongoing("control")' + Ongoing("prepare")'
    BY <1>8, <2>1
  <2>5. conn'.active = prompt'.n /\ prompt'.at = "exchange"
    BY <1>7, <1>8
  <2>6. calls'["prompt"].k = prompt'.n /\ calls'["prompt"].of = prompt'.n /\ calls'["prompt"].at = "called"
    BY <1>4, <1>6, <1>7
  <2>7. prompt'.n # 0
    <3>1. prompt.n + 1 # 0
      BY <1>2
    <3>. QED  BY <1>7, <3>1
  <2>. QED  BY <2>2, <2>3, <2>4, <2>5, <2>6, <2>7 DEF CallsSound
<1>21. ConnectionTypeOK'
  BY <1>1, <1>6, <1>7, <1>8, <1>9 DEF ConnectionInv, ConnectionTypeOK
<1>. QED  BY <1>16, <1>17, <1>18, <1>19, <1>20, <1>21 DEF ConnectionInv

\* A command is written in its turn, or dropped with the connection.
LEMMA WriteKept == ASSUME ConnectionInv, Write PROVE ConnectionInv'
<1>1. /\ writes # <<>> /\ ~ConnectionFailed /\ writes' = Tail(writes)
      /\ UNCHANGED <<piTurn, prompt, struck>>
  BY DEF Write
<1>2. PICK job : job = Head(writes)
  OBVIOUS
<1>3. job \in Commands /\ job = writes[1] /\ Len(writes) >= 1 /\ job.id[1] \in Callers /\ CommandSound(job)
  <2>1. Head(writes) \in Commands /\ Head(writes) = writes[1] /\ Len(writes) >= 1 /\ Len(writes) \in Nat
    BY <1>1, StreamFacts, TailIs
  <2>2. 1 \in 1 .. Len(writes)
    BY <2>1
  <2>. QED  BY <1>2, <2>1, <2>2, StreamFacts DEF Commands
<1>4. /\ calls' \in [Callers -> Calls]
      /\ \A c \in Callers : /\ calls'[c].at = calls[c].at /\ calls'[c].k = calls[c].k
                            /\ calls'[c].of = calls[c].of /\ calls'[c].answer = calls[c].answer
  <2>1. CASE calls' = calls
    BY <2>1, StreamFacts
  <2>2. CASE calls' = [calls EXCEPT ![job.id[1]].written = @ \/ calls[job.id[1]].k = job.id[2]]
    <3>1. PICK b \in BOOLEAN : b = (calls[job.id[1]].written \/ calls[job.id[1]].k = job.id[2])
      OBVIOUS
    <3>2. calls' = [calls EXCEPT ![job.id[1]].written = b]
      BY <2>2, <3>1
    <3>. QED  BY <1>3, <3>2, StreamFacts DEF Calls
  <2>. QED  BY <1>2, <2>1, <2>2 DEF Write
<1>5. /\ pi' \in PiStates /\ pi'.working = pi.working /\ pi'.started = pi.started /\ pi'.ended = pi.ended
      /\ pi'.owes = pi.owes /\ pi'.stdout = pi.stdout /\ pi'.link = pi.link
      /\ pi'.stdin = pi.stdin \/ pi'.stdin = Append(pi.stdin, job)
  <2>1. CASE pi' = pi
    BY <2>1, StreamFacts
  <2>2. CASE pi' = [pi EXCEPT !.stdin = Append(pi.stdin, job)]
    <3>1. Append(pi.stdin, job) \in Seq(Commands)
      BY <1>3, StreamFacts, AppendIs
    <3>. QED  BY <2>2, <3>1, StreamFacts DEF PiStates
  <2>. QED  BY <1>2, <2>1, <2>2 DEF Write
<1>6. conn' \in Connections /\ conn'.active = conn.active /\ conn'.cancelling = conn.cancelling
  <2>1. CASE conn' = conn
    BY <2>1, PromptFacts
  <2>2. CASE conn' = Fail(conn, "transport")
    BY <2>2, PromptFacts, FailIs DEF Errors
  <2>. QED  BY <2>1, <2>2 DEF Write
<1>7. Unadmitted' = Unadmitted
  BY <1>1, <1>4 DEF Unadmitted, Callers
<1>8. \A id : id[1] \in Callers /\ Fresh(id) => Fresh(id)'
  BY <1>4 DEF Fresh
<1>9. \A id : Responded(id)' = Responded(id)
  BY <1>5 DEF Responded
<1>10. ASSUME NEW d \in Commands, CommandSound(d) PROVE CommandSound(d)'
  <2>1. d.id[1] \in Callers /\ Fresh(d.id)
    BY <1>10 DEF Commands, CommandSound
  <2>2. Waits(d.id) => Waits(d.id)'
    BY <1>4, <2>1 DEF Waits
  <2>3. Fresh(d.id)' /\ Responded(d.id)' = Responded(d.id)
    BY <1>8, <1>9, <2>1
  <2>4. d.type = "abort" => Waits(d.id)
    BY <1>1, <1>10 DEF CommandSound
  <2>. QED  BY <1>1, <1>5, <1>10, <2>2, <2>3, <2>4 DEF CommandSound, NoEvents
<1>11. \A i \in 1 .. Len(writes') : /\ i + 1 \in 1 .. Len(writes) /\ i + 1 # 1 /\ writes'[i] = writes[i + 1]
                                    /\ writes'[i] \in Commands /\ writes'[i].id # job.id
  <2>1. SUFFICES ASSUME NEW i \in 1 .. Len(Tail(writes))
                 PROVE  /\ i + 1 \in 1 .. Len(writes) /\ i + 1 # 1 /\ Tail(writes)[i] = writes[i + 1]
                        /\ Tail(writes)[i] \in Commands /\ Tail(writes)[i].id # job.id
    BY <1>1
  <2>2. i + 1 \in 1 .. Len(writes) /\ i + 1 # 1 /\ Tail(writes)[i] = writes[i + 1] /\ 1 \in 1 .. Len(writes)
    BY <1>1, StreamFacts, TailIs
  <2>3. Alike(writes) /\ writes[i + 1] \in Commands
    BY <2>2, StreamFacts
  <2>. QED  BY <1>3, <2>2, <2>3 DEF Alike
<1>12. \A i \in 1 .. Len(pi'.stdin) : \/ i \in 1 .. Len(pi.stdin) /\ pi'.stdin[i] = pi.stdin[i]
                                      \/ pi'.stdin[i] = job
  <2>1. CASE pi'.stdin = pi.stdin
    BY <2>1
  <2>2. CASE pi'.stdin = Append(pi.stdin, job)
    <3>1. pi.stdin \in Seq(Commands) /\ job \in Commands
      BY <1>3, StreamFacts
    <3>2. PICK s \in Seq(Commands) : s = pi.stdin
      BY <3>1
    <3>3. \A i \in 1 .. Len(Append(s, job)) :
             (i \in 1 .. Len(s) /\ Append(s, job)[i] = s[i]) \/ Append(s, job)[i] = job
      BY <3>1, AppendIs
    <3>. QED  BY <2>2, <3>2, <3>3
  <2>. QED  BY <1>5, <2>1, <2>2
<1>13. CommandsSound'
  <2>1. ASSUME NEW i \in 1 .. Len(writes') PROVE CommandSound(writes[i])'
    <3>1. PICK d : d = writes'[i]
      OBVIOUS
    <3>2. d \in Commands /\ CommandSound(d)
      BY <1>11, <3>1, StreamFacts
    <3>3. CommandSound(d)'
      BY <1>10, <3>2
    <3>. QED  BY <3>1, <3>3 DEF CommandSound
  <2>2. ASSUME NEW i \in 1 .. Len(pi'.stdin) PROVE CommandSound(pi.stdin[i])'
    <3>1. PICK d : d = pi'.stdin[i]
      OBVIOUS
    <3>2. d \in Commands /\ CommandSound(d)
      BY <1>3, <1>12, <3>1, StreamFacts
    <3>3. CommandSound(d)'
      BY <1>10, <3>2
    <3>. QED  BY <3>1, <3>3 DEF CommandSound
  <2>3. Alike(Tail(writes)) /\ Alike(pi.stdin) /\ Alike(Append(pi.stdin, job))
    <3>1. \A i \in 1 .. Len(pi.stdin) : pi.stdin[i].id # job.id
      <4>1. 1 \in 1 .. Len(writes) /\ Apart(writes, pi.stdin)
        BY <1>1, StreamFacts, TailIs
      <4>. QED  BY <1>3, <4>1 DEF Apart
    <3>. QED  BY <1>1, <1>3, <3>1, StreamFacts, AlikeTail, AlikeAppended
  <2>4. Alike(writes)' /\ Alike(pi.stdin)'
    BY <1>1, <1>5, <2>3 DEF Alike
  <2>5. Apart(writes, pi.stdin)'
    <3>1. ASSUME NEW i \in 1 .. Len(writes'), NEW j \in 1 .. Len(pi'.stdin) PROVE writes'[i].id # pi'.stdin[j].id
      BY <1>11, <1>12, StreamFacts DEF Apart
    <3>. QED  BY <3>1 DEF Apart
  <2>. QED  BY <2>1, <2>2, <2>4, <2>5 DEF CommandsSound
<1>14. NoPrompts(writes) /\ NoPrompts(pi.stdin) => NoPrompts(writes)' /\ NoPrompts(pi.stdin)'
  <2>1. 1 \in 1 .. Len(writes)
    BY <1>1, StreamFacts, TailIs
  <2>. QED  BY <1>3, <1>11, <1>12, <2>1 DEF NoPrompts
<1>15. AtRest => AtRest'
  BY <1>5, <1>14 DEF AtRest, NoEvents
<1>16. RecordsSound'
  <2>1. \A id \in pi.owes : Fresh(id)'
    BY <1>8, StreamFacts
  <2>2. ASSUME NEW i \in 1 .. Len(pi.stdout) PROVE RecordSound(i)'
    <3>1. RecordSound(i)
      BY StreamFacts
    <3>2. PICK id : id = pi.stdout[i].to
      OBVIOUS
    <3>3. pi.stdout[i].type = "response" => Fresh(id)'
      BY <1>8, <3>1, <3>2 DEF RecordSound
    <3>4. (pi.stdout[i].type = "response" => Fresh(pi.stdout[i].to))'
      BY <1>5, <3>2, <3>3 DEF Fresh
    <3>. QED  BY <1>1, <1>5, <1>7, <1>14, <1>15, <3>1, <3>4 DEF RecordSound
  <2>. QED  BY <1>5, <2>1, <2>2, StreamFacts DEF RecordsSound
<1>17. WorkSound'
  BY <1>1, <1>5, <1>7, <1>9 DEF ConnectionInv, WorkSound, NoEvents
<1>18. EvidenceSound'
  BY <1>1, <1>4, <1>7, <1>15 DEF ConnectionInv, EvidenceSound, Callers
<1>19. CallsSound'
  <2>1. "own" \in Callers /\ "control" \in Callers /\ "prepare" \in Callers /\ "prompt" \in Callers
        /\ Cancellers \subseteq Callers
    BY DEF Callers, Cancellers
  <2>2. Ongoing("own")' = Ongoing("own") /\ Ongoing("control")' = Ongoing("control")
        /\ Ongoing("prepare")' = Ongoing("prepare")
    BY <1>4, <2>1 DEF Ongoing
  <2>. QED  BY <1>1, <1>4, <1>6, <2>1, <2>2 DEF ConnectionInv, CallsSound
<1>20. ConnectionTypeOK'
  <2>1. Tail(writes) \in Seq(Commands)
    BY <1>1, StreamFacts, TailIs
  <2>. QED  BY <1>1, <1>4, <1>5, <1>6, <2>1 DEF ConnectionInv, ConnectionTypeOK
<1>. QED  BY <1>13, <1>16, <1>17, <1>18, <1>19, <1>20 DEF ConnectionInv

-----------------------------------------------------------------------------
(* Pi's side of the streams.                                               *)

\* Of a stream that is lost a part is still read.
LEMMA LoseLinkKept == ASSUME ConnectionInv, LoseLink PROVE ConnectionInv'
<1>1. PICK n \in 0 .. Len(pi.stdout) : pi' = [pi EXCEPT !.link = FALSE, !.stdout = SubSeq(pi.stdout, 1, n)]
  BY DEF LoseLink
<1>2. UNCHANGED <<writes, conn, piTurn, prompt, calls, struck>>
  BY DEF LoseLink
<1>3. /\ SubSeq(pi.stdout, 1, n) \in Seq(Records) /\ Len(SubSeq(pi.stdout, 1, n)) = n
      /\ \A i \in 1 .. n : i \in 1 .. Len(pi.stdout) /\ SubSeq(pi.stdout, 1, n)[i] = pi.stdout[i]
  <2>1. PICK s \in Seq(Records) : s = pi.stdout
    BY StreamFacts
  <2>2. Len(s) \in Nat /\ n \in 0 .. Len(s) /\ n \in Nat
    BY <2>1
  <2>. QED  BY <2>1, <2>2
<1>4. /\ pi' \in PiStates /\ pi'.working = pi.working /\ pi'.started = pi.started /\ pi'.ended = pi.ended
      /\ pi'.owes = pi.owes /\ pi'.stdin = pi.stdin /\ ~pi'.link /\ pi'.stdout = SubSeq(pi.stdout, 1, n)
  BY <1>1, <1>3, StreamFacts DEF PiStates
<1>5. /\ Len(pi'.stdout) = n
      /\ \A i \in 1 .. Len(pi'.stdout) : i \in 1 .. Len(pi.stdout) /\ pi'.stdout[i] = pi.stdout[i]
  BY <1>3, <1>4
<1>6. \A id : Responded(id)' => Responded(id)
  BY <1>5 DEF Responded
<1>7. NoEvents(pi.stdout) => NoEvents(pi.stdout)'
  BY <1>5 DEF NoEvents
<1>8. AtRest => AtRest'
  BY <1>2, <1>4, <1>7 DEF AtRest, NoPrompts
<1>9. Unadmitted' = Unadmitted /\ ConnectionFailed' = ConnectionFailed
  BY <1>2 DEF Unadmitted, ConnectionFailed
<1>10. ASSUME NEW d, CommandSound(d) PROVE CommandSound(d)'
  BY <1>2, <1>4, <1>6, <1>7, <1>10 DEF CommandSound, Waits, Fresh, ConnectionFailed
<1>11. CommandsSound'
  <2>1. ASSUME NEW i \in 1 .. Len(writes) PROVE CommandSound(writes[i])'
    <3>1. PICK d : d = writes[i]
      OBVIOUS
    <3>2. CommandSound(d)'
      BY <1>10, <3>1, StreamFacts
    <3>. QED  BY <1>2, <3>1, <3>2 DEF CommandSound
  <2>2. ASSUME NEW i \in 1 .. Len(pi.stdin) PROVE CommandSound(pi.stdin[i])'
    <3>1. PICK d : d = pi.stdin[i]
      OBVIOUS
    <3>2. CommandSound(d)'
      BY <1>10, <3>1, StreamFacts
    <3>. QED  BY <1>4, <3>1, <3>2 DEF CommandSound
  <2>3. Alike(writes)' /\ Alike(pi.stdin)' /\ Apart(writes, pi.stdin)'
    <3>1. Alike(writes) /\ Alike(pi.stdin) /\ Apart(writes, pi.stdin)
      BY StreamFacts
    <3>. QED  BY <1>2, <1>4, <3>1 DEF Alike, Apart
  <2>. QED  BY <1>2, <1>4, <2>1, <2>2, <2>3 DEF CommandsSound
<1>12. RecordsSound'
  <2>1. ASSUME NEW i \in 1 .. Len(pi'.stdout) PROVE RecordSound(i)'
    <3>1. RecordSound(i) /\ i \in 1 .. Len(pi.stdout) /\ pi'.stdout[i] = pi.stdout[i]
      BY <1>5, StreamFacts
    <3>2. \A j \in i + 1 .. Len(pi'.stdout) : j \in i + 1 .. Len(pi.stdout) /\ j \in 1 .. Len(pi'.stdout)
      BY <1>1, <1>5, StreamFacts
    <3>3. \A j \in 1 .. i - 1 : j \in 1 .. Len(pi'.stdout)
      BY <1>1, <1>5, StreamFacts
    <3>4. pi'.stdout[i].type = "agent_settled" =>
            /\ pi'.working = 0 /\ NoPrompts(writes)' /\ NoPrompts(pi.stdin)'
            /\ \A j \in i + 1 .. Len(pi'.stdout) : pi'.stdout[j].type = "response"
      BY <1>2, <1>4, <1>5, <3>1, <3>2 DEF RecordSound, NoPrompts
    <3>5. pi'.stdout[i].type = "response" =>
            /\ pi'.stdout[i].to[1] \in Callers /\ Fresh(pi.stdout[i].to)'
            /\ pi'.stdout[i].to = <<"prompt", prompt'.n>> /\ pi'.stdout[i].answer # "ok" => AtRest'
      BY <1>2, <1>8, <3>1 DEF RecordSound, Fresh
    <3>6. pi'.stdout[i].type # "response" /\ Unadmitted' =>
            \E j \in 1 .. i - 1 : pi'.stdout[j].type = "response" /\ pi'.stdout[j].to = <<"prompt", prompt'.n>>
      BY <1>2, <1>5, <1>9, <3>1, <3>3 DEF RecordSound
    <3>. QED  BY <3>4, <3>5, <3>6 DEF RecordSound
  <2>2. \A id \in pi'.owes : id[1] \in Cancellers /\ Fresh(id)'
    BY <1>2, <1>4, StreamFacts DEF Fresh
  <2>. QED  BY <2>1, <2>2 DEF RecordsSound
<1>13. WorkSound'
  BY <1>2, <1>4, <1>7 DEF ConnectionInv, WorkSound
<1>14. EvidenceSound'
  BY <1>2, <1>8, <1>9 DEF ConnectionInv, EvidenceSound
<1>15. CallsSound'
  BY <1>2 DEF ConnectionInv, CallsSound, Ongoing
<1>16. ConnectionTypeOK'
  BY <1>2, <1>4 DEF ConnectionInv, ConnectionTypeOK
<1>. QED  BY <1>11, <1>12, <1>13, <1>14, <1>15, <1>16 DEF ConnectionInv

\* What Pi says adds to what is to be read.
LEMMA ToldIs ==
    ASSUME NEW r \in Records, pi.stdout \in Seq(Records), pi'.stdout = Append(pi.stdout, r)
    PROVE  /\ Len(pi'.stdout) = Len(pi.stdout) + 1 /\ Len(pi.stdout) \in Nat /\ pi'.stdout[Len(pi'.stdout)] = r
           /\ \A i \in 1 .. Len(pi.stdout) : i \in 1 .. Len(pi'.stdout) /\ pi'.stdout[i] = pi.stdout[i]
           /\ \A i \in 1 .. Len(pi'.stdout) : i \in 1 .. Len(pi.stdout) \/ i = Len(pi'.stdout)
           /\ \A id : Responded(id)' <=> Responded(id) \/ (r.type = "response" /\ r.to = id)
           /\ NoEvents(pi.stdout)' <=> NoEvents(pi.stdout) /\ r.type = "response"
<1>1. PICK s \in Seq(Records) : s = pi.stdout
  OBVIOUS
<1>2. PICK t : t = Append(s, r)
  OBVIOUS
<1>3. /\ Len(t) = Len(s) + 1 /\ Len(s) \in Nat /\ t[Len(t)] = r
      /\ \A i \in 1 .. Len(s) : i \in 1 .. Len(t) /\ t[i] = s[i]
      /\ \A i \in 1 .. Len(t) : i \in 1 .. Len(s) \/ i = Len(t)
      /\ Len(t) \in 1 .. Len(t)
  BY <1>2, AppendIs
<1>4. pi'.stdout = t
  BY <1>1, <1>2
<1>5. \A id : Responded(id)' <=> Responded(id) \/ (r.type = "response" /\ r.to = id)
  <2>1. SUFFICES ASSUME NEW id
                 PROVE  (\E i \in 1 .. Len(t) : t[i].type = "response" /\ t[i].to = id) <=>
                        (\E i \in 1 .. Len(s) : s[i].type = "response" /\ s[i].to = id)
                           \/ (r.type = "response" /\ r.to = id)
    BY <1>1, <1>4 DEF Responded
  <2>. QED  BY <1>3
<1>6. NoEvents(pi.stdout)' <=> NoEvents(pi.stdout) /\ r.type = "response"
  <2>1. SUFFICES NoEvents(t) <=> NoEvents(s) /\ r.type = "response"
    BY <1>1, <1>4 DEF NoEvents
  <2>. QED  BY <1>3 DEF NoEvents
<1>. QED  BY <1>1, <1>3, <1>4, <1>5, <1>6

\* Pi takes up no prompt it was not sent, and says nothing that is not so.
LEMMA PiKept ==
    ASSUME ConnectionInv, UNCHANGED <<writes, conn, piTurn, prompt, calls>>, pi' \in PiStates,
           struck' \subseteq Nat \X Nat, CommandsSound', WorkSound', AtRest => AtRest',
           pi.working = 0 /\ NoPrompts(writes) /\ NoPrompts(pi.stdin) => pi'.working = 0 /\ NoPrompts(pi.stdin)',
           \A id \in pi'.owes : id[1] \in Cancellers /\ Fresh(id),
           \/ pi'.stdout = pi.stdout
           \/ \E r \in Records : /\ pi'.stdout = Append(pi.stdout, r) /\ RecordSound(Len(pi.stdout))'
                                 /\ r.type = "response" \/ pi.working # 0
    PROVE  ConnectionInv'
<1>1. Unadmitted' = Unadmitted /\ ConnectionFailed' = ConnectionFailed /\ \A id : Fresh(id)' = Fresh(id)
  BY DEF Unadmitted, ConnectionFailed, Fresh
<1>2. /\ \A i \in 1 .. Len(pi.stdout) : i \in 1 .. Len(pi'.stdout) /\ pi'.stdout[i] = pi.stdout[i]
      /\ \A i \in 1 .. Len(pi'.stdout) :
            i \notin 1 .. Len(pi.stdout) => i = Len(pi'.stdout) /\ RecordSound(Len(pi.stdout))'
      /\ \A i \in 1 .. Len(pi'.stdout) :
            i \notin 1 .. Len(pi.stdout) /\ pi'.stdout[i].type # "response" => pi.working # 0
      /\ Len(pi.stdout) \in Nat /\ Len(pi'.stdout) \in Nat
  <2>1. CASE pi'.stdout = pi.stdout
    BY <2>1, StreamFacts
  <2>2. CASE pi'.stdout # pi.stdout
    <3>1. PICK r \in Records : /\ pi'.stdout = Append(pi.stdout, r) /\ RecordSound(Len(pi.stdout))'
                               /\ r.type = "response" \/ pi.working # 0
      BY <2>2
    <3>. QED  BY <3>1, ToldIs, StreamFacts
  <2>. QED  BY <2>1, <2>2
<1>3. RecordsSound'
  <2>1. ASSUME NEW i \in 1 .. Len(pi'.stdout), i \in 1 .. Len(pi.stdout) PROVE RecordSound(i)'
    <3>1. RecordSound(i) /\ pi'.stdout[i] = pi.stdout[i]
      BY <1>2, <2>1, StreamFacts
    <3>2. pi'.stdout[i].type = "agent_settled" =>
            /\ pi'.working = 0 /\ NoPrompts(writes)' /\ NoPrompts(pi.stdin)'
            /\ \A j \in i + 1 .. Len(pi'.stdout) : pi'.stdout[j].type = "response"
      <4>1. SUFFICES ASSUME pi'.stdout[i].type = "agent_settled"
                     PROVE  /\ pi'.working = 0 /\ NoPrompts(writes)' /\ NoPrompts(pi.stdin)'
                            /\ \A j \in i + 1 .. Len(pi'.stdout) : pi'.stdout[j].type = "response"
        OBVIOUS
      <4>2. /\ pi.working = 0 /\ NoPrompts(writes) /\ NoPrompts(pi.stdin)
            /\ \A j \in i + 1 .. Len(pi.stdout) : pi.stdout[j].type = "response"
        BY <3>1, <4>1 DEF RecordSound
      <4>3. ASSUME NEW j \in i + 1 .. Len(pi'.stdout) PROVE pi'.stdout[j].type = "response"
        <5>1. j \in 1 .. Len(pi'.stdout)
          BY <1>2
        <5>2. j \in 1 .. Len(pi.stdout) => j \in i + 1 .. Len(pi.stdout)
          BY <1>2
        <5>. QED  BY <1>2, <4>2, <5>1, <5>2
      <4>. QED  BY <4>2, <4>3 DEF NoPrompts
    <3>3. pi'.stdout[i].type = "response" =>
            /\ pi'.stdout[i].to[1] \in Callers /\ Fresh(pi.stdout[i].to)'
            /\ pi'.stdout[i].to = <<"prompt", prompt'.n>> /\ pi'.stdout[i].answer # "ok" => AtRest'
      BY <3>1 DEF RecordSound, Fresh
    <3>4. pi'.stdout[i].type # "response" /\ Unadmitted' =>
            \E j \in 1 .. i - 1 : pi'.stdout[j].type = "response" /\ pi'.stdout[j].to = <<"prompt", prompt'.n>>
      <4>1. \A j \in 1 .. i - 1 : j \in 1 .. Len(pi.stdout)
        BY <1>2, <2>1
      <4>. QED  BY <1>1, <1>2, <3>1, <4>1 DEF RecordSound
    <3>. QED  BY <3>2, <3>3, <3>4 DEF RecordSound
  <2>2. ASSUME NEW i \in 1 .. Len(pi'.stdout), i \notin 1 .. Len(pi.stdout) PROVE RecordSound(i)'
    BY <1>2, <2>2 DEF RecordSound
  <2>3. \A id \in pi'.owes : id[1] \in Cancellers /\ Fresh(id)'
    BY <1>1
  <2>. QED  BY <2>1, <2>2, <2>3 DEF RecordsSound
<1>4. EvidenceSound'
  BY <1>1 DEF ConnectionInv, EvidenceSound
<1>5. CallsSound'
  BY DEF ConnectionInv, CallsSound, Ongoing
<1>6. ConnectionTypeOK'
  BY DEF ConnectionInv, ConnectionTypeOK
<1>. QED  BY <1>3, <1>4, <1>5, <1>6 DEF ConnectionInv

\* The command Pi reads, and those behind it.
LEMMA CommandRead ==
    ASSUME ConnectionInv, pi.stdin # <<>>, NEW command, command = Head(pi.stdin), pi'.stdin = Tail(pi.stdin),
           UNCHANGED writes
    PROVE  /\ command \in Commands /\ CommandSound(command) /\ command.id[1] \in Callers /\ command.id[2] \in Nat
           /\ \A i \in 1 .. Len(writes) : writes[i].id # command.id
           /\ \A i \in 1 .. Len(pi'.stdin) : /\ pi'.stdin[i] \in Commands /\ CommandSound(pi'.stdin[i])
                                             /\ pi'.stdin[i].id # command.id
           /\ Alike(writes)' /\ Alike(pi.stdin)' /\ Apart(writes, pi.stdin)'
           /\ NoPrompts(pi.stdin) => NoPrompts(pi.stdin)'
           /\ command.type = "prompt" => NoPrompts(writes) /\ NoPrompts(pi.stdin)' /\ ~NoPrompts(pi.stdin)
<1>1. PICK s \in Seq(Commands) : s = pi.stdin
  BY StreamFacts
<1>2. PICK t : t = Tail(s)
  OBVIOUS
<1>3. /\ command \in Commands /\ command = s[1] /\ 1 \in 1 .. Len(s)
      /\ \A i \in 1 .. Len(t) : i + 1 \in 1 .. Len(s) /\ i + 1 # 1 /\ t[i] = s[i + 1]
      /\ pi'.stdin = t
  BY <1>1, <1>2, TailIs
<1>4. /\ Alike(s) /\ Alike(writes) /\ Apart(writes, s)
      /\ \A i \in 1 .. Len(s) : s[i] \in Commands /\ CommandSound(s[i])
      /\ \A i \in 1 .. Len(writes) : writes[i] \in Commands /\ CommandSound(writes[i])
  BY <1>1, StreamFacts
<1>5. CommandSound(command) /\ command.id[1] \in Callers /\ command.id[2] \in Nat
  BY <1>3, <1>4 DEF Commands
<1>6. \A i \in 1 .. Len(writes) : writes[i].id # command.id
  BY <1>3, <1>4 DEF Apart
<1>7. \A i \in 1 .. Len(t) : t[i] \in Commands /\ CommandSound(t[i]) /\ t[i].id # command.id
  BY <1>3, <1>4 DEF Alike
<1>8. Alike(t)
  BY <1>1, <1>2, <1>4, AlikeTail
<1>9. Apart(writes, t)
  BY <1>3, <1>4 DEF Apart
<1>10. Alike(writes)' /\ Alike(pi.stdin)' /\ Apart(writes, pi.stdin)'
  BY <1>3, <1>4, <1>8, <1>9 DEF Alike, Apart
<1>11. NoPrompts(pi.stdin) => NoPrompts(pi.stdin)'
  BY <1>1, <1>3 DEF NoPrompts
<1>12. command.type = "prompt" => NoPrompts(writes) /\ NoPrompts(pi.stdin)' /\ ~NoPrompts(pi.stdin)
  <2>1. \A d : CommandSound(d) /\ d.type = "prompt" => d.id = <<"prompt", prompt.n>>
    BY DEF CommandSound
  <2>2. SUFFICES ASSUME command.type = "prompt" PROVE NoPrompts(writes) /\ NoPrompts(t) /\ ~NoPrompts(s)
    BY <1>1, <1>3 DEF NoPrompts
  <2>3. command.id = <<"prompt", prompt.n>>
    BY <1>5, <2>1, <2>2
  <2>4. NoPrompts(writes)
    BY <1>4, <1>6, <2>1, <2>3 DEF NoPrompts
  <2>5. NoPrompts(t)
    BY <1>7, <2>1, <2>3 DEF NoPrompts
  <2>. QED  BY <1>3, <2>2, <2>4, <2>5 DEF NoPrompts
<1>. QED  BY <1>3, <1>5, <1>6, <1>7, <1>10, <1>11, <1>12

LEMMA OthersKept ==
    ASSUME ConnectionInv, pi.stdin # <<>>, NEW command, command = Head(pi.stdin), pi'.stdin = Tail(pi.stdin),
           UNCHANGED writes, \A d \in Commands : CommandSound(d) /\ d.id # command.id => CommandSound(d)'
    PROVE  CommandsSound'
<1>1. ASSUME NEW i \in 1 .. Len(writes) PROVE CommandSound(writes[i])'
  <2>1. PICK d : d = writes[i]
    OBVIOUS
  <2>2. CommandSound(d)'
    BY <2>1, CommandRead, StreamFacts
  <2>. QED  BY <2>1, <2>2 DEF CommandSound
<1>2. ASSUME NEW i \in 1 .. Len(pi'.stdin) PROVE CommandSound(pi.stdin[i])'
  <2>1. PICK d : d = pi'.stdin[i]
    OBVIOUS
  <2>2. CommandSound(d)'
    BY <2>1, CommandRead
  <2>. QED  BY <2>1, <2>2 DEF CommandSound
<1>. QED  BY <1>1, <1>2, CommandRead DEF CommandsSound

\* A record Pi writes, if there is anybody to read it.
LEMMA TellIs ==
    ASSUME NEW p \in PiStates, NEW r \in Records
    PROVE  /\ Tell(p, r) \in PiStates /\ Tell(p, r).working = p.working /\ Tell(p, r).started = p.started
           /\ Tell(p, r).ended = p.ended /\ Tell(p, r).aborting = p.aborting /\ Tell(p, r).owes = p.owes
           /\ Tell(p, r).stdin = p.stdin /\ Tell(p, r).link = p.link
           /\ Tell(p, r).stdout = IF p.link THEN Append(p.stdout, r) ELSE p.stdout
<1>1. p.stdout \in Seq(Records)
  BY DEF PiStates
<1>2. Append(p.stdout, r) \in Seq(Records)
  BY <1>1, AppendIs
<1>. QED  BY <1>2 DEF Tell, PiStates

\* A prompt is taken up, an abort of the work at hand begun.
LEMMA PiReadsKept == ASSUME ConnectionInv, PiReads PROVE ConnectionInv'
<1>1. pi.stdin # <<>> /\ UNCHANGED <<writes, conn, piTurn, prompt, calls>>
  BY DEF PiReads
<1>2. PICK command : command = Head(pi.stdin)
  OBVIOUS
<1>3. PICK read : read = [pi EXCEPT !.stdin = Tail(pi.stdin)]
  OBVIOUS
<1>4. /\ read \in PiStates /\ read.stdin = Tail(pi.stdin) /\ read.working = pi.working /\ read.started = pi.started
      /\ read.ended = pi.ended /\ read.aborting = pi.aborting /\ read.owes = pi.owes /\ read.stdout = pi.stdout
      /\ read.link = pi.link
  <2>1. Tail(pi.stdin) \in Seq(Commands)
    BY <1>1, StreamFacts, TailIs
  <2>. QED  BY <1>3, <2>1, StreamFacts DEF PiStates
<1>5. /\ command \in Commands /\ CommandSound(command) /\ command.id \in Callers \X Nat
      /\ command.id[1] \in Callers /\ command.id[2] \in Nat
      /\ command.of \in Nat /\ command.type \in {"prompt", "abort", "get_state"}
  <2>1. command \in Commands /\ CommandSound(command) /\ command.id[1] \in Callers /\ command.id[2] \in Nat
    <3>1. PICK s \in Seq(Commands) : s = pi.stdin
      BY StreamFacts
    <3>2. Head(s) \in Commands /\ Head(s) = s[1] /\ 1 \in 1 .. Len(s)
      BY <1>1, <3>1, TailIs
    <3>. QED  BY <1>2, <3>1, <3>2, StreamFacts DEF Commands
  <2>. QED  BY <2>1 DEF Commands
<1>6. ConnectionFailed' = ConnectionFailed /\ Unadmitted' = Unadmitted
      /\ (\A id : Fresh(id)' = Fresh(id)) /\ (\A id : Waits(id)' = Waits(id))
  BY <1>1 DEF ConnectionFailed, Unadmitted, Fresh, Waits
<1>7. ASSUME NEW answer \in {"refused", "busy", "ok"}, pi' = Tell(read, Reply(command.id, answer)), struck' = struck,
             (command.type = "prompt" /\ answer = "refused") \/ command.type = "get_state"
      PROVE  ConnectionInv'
  <2>1. PICK r : r = [type |-> "response", to |-> command.id, answer |-> answer]
    OBVIOUS
  <2>2. r \in Records /\ r.type = "response" /\ r.to = command.id /\ r.answer = answer
    BY <1>5, <2>1 DEF Records, Answers
  <2>3. pi' = Tell(read, r)
    BY <1>7, <2>1 DEF Reply
  <2>4. /\ pi' \in PiStates /\ pi'.stdin = Tail(pi.stdin) /\ pi'.working = pi.working /\ pi'.started = pi.started
        /\ pi'.ended = pi.ended /\ pi'.owes = pi.owes /\ pi'.link = pi.link
        /\ pi'.stdout = IF pi.link THEN Append(pi.stdout, r) ELSE pi.stdout
    BY <1>4, <2>2, <2>3, TellIs
  <2>5. /\ \A id : Responded(id) => Responded(id)'
        /\ \A id : Responded(id)' => Responded(id) \/ id = command.id
        /\ NoEvents(pi.stdout)' = NoEvents(pi.stdout)
    <3>1. CASE pi'.stdout = pi.stdout
      BY <3>1 DEF Responded, NoEvents
    <3>2. CASE pi'.stdout = Append(pi.stdout, r)
      <4>1. pi.stdout \in Seq(Records)
        BY StreamFacts
      <4>2. \A id : Responded(id)' <=> Responded(id) \/ (r.type = "response" /\ r.to = id)
        BY <2>2, <3>2, <4>1, ToldIs
      <4>3. NoEvents(pi.stdout)' <=> NoEvents(pi.stdout) /\ r.type = "response"
        BY <2>2, <3>2, <4>1, ToldIs
      <4>4. NoEvents(pi.stdout)' = NoEvents(pi.stdout)
        BY <2>2, <4>3 DEF NoEvents
      <4>. QED  BY <2>2, <4>2, <4>4
    <3>. QED  BY <2>4, <3>1, <3>2
  <2>6. ASSUME NEW d \in Commands, CommandSound(d), d.id # command.id PROVE CommandSound(d)'
    BY <1>1, <1>6, <2>4, <2>5, <2>6 DEF CommandSound
  <2>7. CommandsSound'
    BY <1>1, <1>2, <2>4, <2>6, OthersKept
  <2>8. WorkSound'
    BY <1>1, <1>6, <1>7, <2>4, <2>5 DEF ConnectionInv, WorkSound
  <2>9. AtRest => AtRest'
    BY <1>1, <1>2, <2>4, <2>5, CommandRead DEF AtRest, NoPrompts
  <2>10. NoPrompts(pi.stdin) => NoPrompts(pi.stdin)'
    BY <1>1, <1>2, <2>4, CommandRead
  <2>11. command.type = "prompt" => AtRest'
    <3>1. SUFFICES ASSUME command.type = "prompt" PROVE AtRest'
      OBVIOUS
    <3>2. NoPrompts(writes) /\ NoPrompts(pi.stdin)'
      BY <1>1, <1>2, <2>4, <3>1, CommandRead
    <3>3. pi.working = 0 /\ NoEvents(pi.stdout)
      BY <1>5, <3>1 DEF CommandSound
    <3>. QED  BY <1>1, <2>4, <2>5, <3>2, <3>3 DEF AtRest, NoPrompts
  <2>12. pi'.stdout = Append(pi.stdout, r) => RecordSound(Len(pi.stdout))'
    <3>1. SUFFICES ASSUME pi'.stdout = Append(pi.stdout, r) PROVE RecordSound(Len(pi.stdout))'
      OBVIOUS
    <3>2. pi'.stdout[Len(pi'.stdout)] = r
      BY <2>2, <3>1, StreamFacts, ToldIs
    <3>3. Fresh(r.to)' /\ r.to[1] \in Callers
      BY <1>5, <1>6, <2>2 DEF CommandSound
    <3>4. r.to = <<"prompt", prompt'.n>> /\ r.answer # "ok" => AtRest'
      <4>1. command.type = "get_state" => command.id[1] # "prompt"
        BY <1>5 DEF CommandSound
      <4>. QED  BY <1>7, <2>2, <2>11, <4>1
    <3>. QED  BY <2>2, <3>2, <3>3, <3>4 DEF RecordSound
  <2>13. struck' \subseteq Nat \X Nat
    BY <1>7, StreamFacts
  <2>. QED  BY <1>1, <2>2, <2>4, <2>7, <2>8, <2>9, <2>10, <2>12, <2>13, StreamFacts, PiKept
<1>8. ASSUME command.type = "prompt", struck' = struck,
             pi' = [read EXCEPT !.working = command.of, !.started = FALSE, !.ended = FALSE, !.aborting = FALSE]
      PROVE  ConnectionInv'
  <2>1. /\ pi' \in PiStates /\ pi'.stdin = Tail(pi.stdin) /\ pi'.working = command.of /\ ~pi'.started
        /\ ~pi'.ended /\ pi'.owes = pi.owes /\ pi'.stdout = pi.stdout
    BY <1>4, <1>5, <1>8 DEF PiStates
  <2>2. command.id = <<"prompt", prompt.n>> /\ command.of = prompt.n /\ NoEvents(pi.stdout) /\ ~Responded(command.id)
    BY <1>5, <1>8 DEF CommandSound
  <2>3. (\A id : Responded(id)' = Responded(id)) /\ NoEvents(pi.stdout)'
    BY <2>1, <2>2 DEF Responded, NoEvents
  <2>4. ASSUME NEW d \in Commands, CommandSound(d), d.id # command.id PROVE CommandSound(d)'
    <3>1. d.type # "prompt"
      BY <2>2, <2>4 DEF CommandSound
    <3>. QED  BY <1>1, <1>6, <2>1, <2>3, <2>4, <3>1 DEF CommandSound
  <2>5. CommandsSound'
    BY <1>1, <1>2, <2>1, <2>4, OthersKept
  <2>6. WorkSound'
    BY <1>1, <1>8, <2>1, <2>2, <2>3 DEF ConnectionInv, WorkSound
  <2>7. ~NoPrompts(pi.stdin)
    BY <1>1, <1>2, <1>8, <2>1, CommandRead
  <2>8. struck' \subseteq Nat \X Nat
    BY <1>8, StreamFacts
  <2>. QED  BY <1>1, <2>1, <2>5, <2>6, <2>7, <2>8, StreamFacts, PiKept DEF AtRest
<1>9. ASSUME command.type = "abort",
             pi' = [read EXCEPT !.aborting = pi.working # 0, !.owes = pi.owes \cup {command.id}],
             struck' = struck \cup (IF pi.working # 0 THEN {<<command.of, pi.working>>} ELSE {})
      PROVE  ConnectionInv'
  <2>1. PICK b \in BOOLEAN : b = (pi.working # 0)
    OBVIOUS
  <2>2. pi.owes \cup {command.id} \in SUBSET (Callers \X Nat)
    BY <1>5, StreamFacts
  <2>3. pi' = [read EXCEPT !.aborting = b, !.owes = pi.owes \cup {command.id}]
    BY <1>9, <2>1
  <2>4. /\ pi' \in PiStates /\ pi'.stdin = Tail(pi.stdin) /\ pi'.working = pi.working /\ pi'.started = pi.started
        /\ pi'.ended = pi.ended /\ pi'.owes = pi.owes \cup {command.id} /\ pi'.stdout = pi.stdout /\ pi'.link = pi.link
    BY <1>4, <2>2, <2>3 DEF PiStates
  <2>5. (\A id : Responded(id)' = Responded(id)) /\ NoEvents(pi.stdout)' = NoEvents(pi.stdout)
    BY <2>4 DEF Responded, NoEvents
  <2>6. ASSUME NEW d \in Commands, CommandSound(d), d.id # command.id PROVE CommandSound(d)'
    BY <1>1, <1>6, <2>4, <2>5, <2>6 DEF CommandSound
  <2>7. CommandsSound'
    BY <1>1, <1>2, <2>4, <2>6, OthersKept
  <2>8. pi.working \in Nat /\ pi.working \in {0, prompt.n} /\ command.of = prompt.n
    BY <1>5, <1>9, StreamFacts DEF PiStates, ConnectionInv, WorkSound, CommandSound
  <2>9. struck' \subseteq Nat \X Nat /\ \A s \in struck' : s[1] = s[2]
    <3>1. struck \subseteq Nat \X Nat /\ \A s \in struck : s[1] = s[2]
      BY StreamFacts DEF ConnectionInv, WorkSound
    <3>. QED  BY <1>5, <1>9, <2>8, <3>1
  <2>10. WorkSound'
    BY <1>1, <1>6, <2>4, <2>5, <2>9 DEF ConnectionInv, WorkSound
  <2>11. NoPrompts(pi.stdin) => NoPrompts(pi.stdin)'
    BY <1>1, <1>2, <2>4, CommandRead
  <2>12. AtRest => AtRest'
    BY <1>1, <2>4, <2>5, <2>11 DEF AtRest, NoPrompts
  <2>13. \A id \in pi'.owes : id[1] \in Cancellers /\ Fresh(id)
    BY <1>5, <1>9, <2>4, StreamFacts DEF CommandSound
  <2>. QED  BY <1>1, <2>4, <2>7, <2>9, <2>10, <2>11, <2>12, <2>13, PiKept
<1>. QED  BY <1>2, <1>3, <1>7, <1>8, <1>9 DEF PiReads

\* Pi goes on with what it works on, and answers what it owes.
LEMMA WorkTold ==
    ASSUME ConnectionInv, UNCHANGED <<writes, conn, piTurn, prompt, calls, struck>>, NEW r \in Records,
           pi' \in PiStates, pi'.stdin = pi.stdin, pi'.owes \subseteq pi.owes, pi'.link = pi.link,
           pi'.stdout = IF pi.link THEN Append(pi.stdout, r) ELSE pi.stdout,
           pi'.working = pi.working \/ (pi.working # 0 /\ pi'.working = 0),
           r.type = "response" \/ pi.working # 0,
           r.type = "response" => /\ Fresh(r.to) /\ r.to[1] \in Callers /\ (r.to[1] = "prompt" => r.answer = "ok")
                                  /\ \/ pi.working # 0 /\ r.to = <<"prompt", prompt.n>>
                                     \/ r.to \in pi.owes /\ r.to \notin pi'.owes,
           r.type = "agent_settled" => pi'.working = 0,
           r.type # "response" /\ Unadmitted /\ pi.link => Responded(<<"prompt", prompt.n>>),
           WorkSound'
    PROVE  ConnectionInv'
<1>1. ConnectionFailed' = ConnectionFailed /\ Unadmitted' = Unadmitted
      /\ (\A id : Fresh(id)' = Fresh(id)) /\ (\A id : Waits(id)' = Waits(id))
  BY DEF ConnectionFailed, Unadmitted, Fresh, Waits
<1>2. pi.stdout \in Seq(Records)
  BY StreamFacts
<1>3. \A id : Responded(id)' => Responded(id) \/ (r.type = "response" /\ r.to = id)
  <2>1. CASE pi'.stdout = pi.stdout
    BY <2>1 DEF Responded
  <2>2. CASE pi'.stdout = Append(pi.stdout, r)
    BY <1>2, <2>2, ToldIs
  <2>. QED  BY <2>1, <2>2
<1>4. r.type = "response" /\ NoEvents(pi.stdout) => NoEvents(pi.stdout)'
  <2>1. CASE pi'.stdout = pi.stdout
    BY <2>1 DEF NoEvents
  <2>2. CASE pi'.stdout = Append(pi.stdout, r)
    BY <1>2, <2>2, ToldIs
  <2>. QED  BY <2>1, <2>2
<1>5. pi.working # 0 => \A d : CommandSound(d) => d.type # "prompt"
  BY DEF CommandSound
<1>6. ASSUME NEW d \in Commands, CommandSound(d) PROVE CommandSound(d)'
  <2>1. d.type \in {"prompt", "abort", "get_state"}
    BY DEF Commands
  <2>2. ~Responded(d.id)'
    <3>1. SUFFICES ASSUME r.type = "response", r.to = d.id PROVE FALSE
      BY <1>3, <1>6 DEF CommandSound
    <3>2. pi.working # 0 /\ d.id = <<"prompt", prompt.n>>
      BY <1>6, <3>1 DEF CommandSound
    <3>3. d.id[1] = "prompt" /\ d.type # "prompt"
      BY <1>5, <1>6, <3>2
    <3>. QED  BY <1>6, <2>1, <3>3 DEF CommandSound, Cancellers
  <2>3. d.type = "prompt" => pi.working = 0 /\ NoEvents(pi.stdout)
    BY <1>6 DEF CommandSound
  <2>4. d.type = "prompt" => pi'.working = 0 /\ NoEvents(pi.stdout)'
    BY <1>4, <2>3
  <2>. QED  BY <1>1, <1>6, <2>2, <2>4 DEF CommandSound
<1>7. CommandsSound'
  <2>1. ASSUME NEW i \in 1 .. Len(writes) PROVE CommandSound(writes[i])'
    <3>1. PICK d : d = writes[i]
      OBVIOUS
    <3>2. CommandSound(d)'
      BY <1>6, <3>1, StreamFacts
    <3>. QED  BY <3>1, <3>2 DEF CommandSound
  <2>2. ASSUME NEW i \in 1 .. Len(pi.stdin) PROVE CommandSound(pi.stdin[i])'
    <3>1. PICK d : d = pi.stdin[i]
      OBVIOUS
    <3>2. CommandSound(d)'
      BY <1>6, <3>1, StreamFacts
    <3>. QED  BY <3>1, <3>2 DEF CommandSound
  <2>3. Alike(writes)' /\ Alike(pi.stdin)' /\ Apart(writes, pi.stdin)'
    <3>1. Alike(writes) /\ Alike(pi.stdin) /\ Apart(writes, pi.stdin)
      BY StreamFacts
    <3>. QED  BY <3>1 DEF Alike, Apart
  <2>. QED  BY <2>1, <2>2, <2>3 DEF CommandsSound
<1>8. AtRest => AtRest'
  BY <1>4 DEF AtRest, NoPrompts
<1>9. pi.working # 0 => NoPrompts(writes) /\ NoPrompts(pi.stdin)
  BY <1>5, StreamFacts DEF NoPrompts
<1>10. NoPrompts(writes)' = NoPrompts(writes) /\ NoPrompts(pi.stdin)' = NoPrompts(pi.stdin)
  BY DEF NoPrompts
<1>11. pi'.stdout = Append(pi.stdout, r) /\ pi.link => RecordSound(Len(pi.stdout))'
  <2>1. SUFFICES ASSUME pi'.stdout = Append(pi.stdout, r), pi.link PROVE RecordSound(Len(pi.stdout))'
    OBVIOUS
  <2>2. /\ pi'.stdout[Len(pi'.stdout)] = r /\ Len(pi'.stdout) = Len(pi.stdout) + 1 /\ Len(pi.stdout) \in Nat
        /\ \A i \in 1 .. Len(pi.stdout) : pi'.stdout[i] = pi.stdout[i]
    BY <1>2, <2>1, ToldIs
  <2>3. r.type = "response" => Fresh(r.to)' /\ r.to[1] \in Callers
    BY <1>1
  <2>4. r.to = <<"prompt", prompt'.n>> /\ r.type = "response" => r.answer = "ok"
    OBVIOUS
  <2>5. r.type = "agent_settled" => pi'.working = 0 /\ NoPrompts(writes)' /\ NoPrompts(pi.stdin)'
    BY <1>9, <1>10
  <2>6. r.type # "response" /\ Unadmitted' =>
          \E j \in 1 .. Len(pi'.stdout) - 1 :
             pi'.stdout[j].type = "response" /\ pi'.stdout[j].to = <<"prompt", prompt'.n>>
    BY <1>1, <2>1, <2>2 DEF Responded
  <2>7. \A j \in Len(pi'.stdout) + 1 .. Len(pi'.stdout) : FALSE
    BY <2>2
  <2>. QED  BY <2>2, <2>3, <2>4, <2>5, <2>6, <2>7 DEF RecordSound
<1>12. \A id \in pi'.owes : id[1] \in Cancellers /\ Fresh(id)
  BY StreamFacts
<1>13. struck' \subseteq Nat \X Nat
  BY StreamFacts
<1>14. pi.working = 0 /\ NoPrompts(writes) /\ NoPrompts(pi.stdin) => pi'.working = 0 /\ NoPrompts(pi.stdin)'
  BY <1>10
<1>. QED  BY <1>7, <1>8, <1>11, <1>12, <1>13, <1>14, PiKept

LEMMA PiWorksKept == ASSUME ConnectionInv, PiWorks PROVE ConnectionInv'
<1>1. UNCHANGED <<writes, conn, piTurn, prompt, calls, struck>>
  BY DEF PiWorks
<1>2. /\ pi \in PiStates /\ prompt.n \in Nat /\ pi.working \in {0, prompt.n} /\ pi.stdout \in Seq(Records)
      /\ pi.started \in BOOLEAN /\ pi.ended \in BOOLEAN /\ pi.owes \subseteq Callers \X Nat
  BY StreamFacts, PromptFacts DEF PiStates, Prompts, ConnectionInv, WorkSound
<1>3. Unadmitted' = Unadmitted
  BY <1>1 DEF Unadmitted
<1>4. (pi.started => pi.working # 0) /\ (pi.ended => pi.started)
      /\ (Unadmitted /\ pi.started /\ pi.link => Responded(<<"prompt", prompt.n>>))
      /\ (pi.working # 0 /\ ~pi.started => NoEvents(pi.stdout)) /\ \A s \in struck : s[1] = s[2]
  BY DEF ConnectionInv, WorkSound
<1>5. ASSUME pi.working # 0, ~pi.started,
             pi' = [Tell(pi, Reply(<<"prompt", pi.working>>, "ok")) EXCEPT !.started = TRUE]
      PROVE  ConnectionInv'
  <2>1. PICK r : r = [type |-> "response", to |-> <<"prompt", prompt.n>>, answer |-> "ok"]
    OBVIOUS
  <2>2. r \in Records /\ r.type = "response" /\ r.to = <<"prompt", prompt.n>> /\ r.answer = "ok" /\ r.to[1] = "prompt"
        /\ r.to[2] = prompt.n
    BY <1>2, <2>1 DEF Records, Answers, Callers
  <2>3. PICK told : told = Tell(pi, r)
    OBVIOUS
  <2>4. pi' = [told EXCEPT !.started = TRUE]
    BY <1>2, <1>5, <2>1, <2>3 DEF Reply
  <2>5. /\ pi' \in PiStates /\ pi'.stdin = pi.stdin /\ pi'.owes = pi.owes /\ pi'.link = pi.link
        /\ pi'.working = pi.working /\ pi'.started /\ pi'.ended = pi.ended
        /\ pi'.stdout = IF pi.link THEN Append(pi.stdout, r) ELSE pi.stdout
    <3>1. /\ told \in PiStates /\ told.stdin = pi.stdin /\ told.owes = pi.owes /\ told.link = pi.link
          /\ told.working = pi.working /\ told.ended = pi.ended
          /\ told.stdout = IF pi.link THEN Append(pi.stdout, r) ELSE pi.stdout
      BY <1>2, <2>2, <2>3, TellIs
    <3>. QED  BY <2>4, <3>1 DEF PiStates
  <2>6. Fresh(r.to)
    <3>1. calls["prompt"].at # "called"
      BY <1>5 DEF ConnectionInv, EvidenceSound, AtRest
    <3>. QED  BY <1>2, <2>2, <3>1, PromptFacts DEF Fresh
  <2>7. pi'.link => Responded(<<"prompt", prompt.n>>)'
    BY <1>1, <1>2, <2>2, <2>5, ToldIs
  <2>8. WorkSound'
    BY <1>1, <1>2, <1>4, <1>5, <2>5, <2>7 DEF WorkSound
  <2>. QED  BY <1>1, <1>5, <2>2, <2>5, <2>6, <2>8, PromptFacts, WorkTold
<1>6. ASSUME pi.started, ~pi.ended, NEW reason \in {"stop", "error", "aborted"},
             pi' = [Tell(pi, [Says("message_end") EXCEPT !.answer = reason]) EXCEPT !.ended = TRUE]
      PROVE  ConnectionInv'
  <2>1. PICK r : r = [Says("message_end") EXCEPT !.answer = reason]
    OBVIOUS
  <2>2. r \in Records /\ r.type = "message_end"
    BY <2>1 DEF Says, Records, Answers, Reasons, Callers
  <2>3. PICK told : told = Tell(pi, r)
    OBVIOUS
  <2>4. pi' = [told EXCEPT !.ended = TRUE]
    BY <1>6, <2>1, <2>3
  <2>5. /\ pi' \in PiStates /\ pi'.stdin = pi.stdin /\ pi'.owes = pi.owes /\ pi'.link = pi.link
        /\ pi'.working = pi.working /\ pi'.started = pi.started /\ pi'.ended
        /\ pi'.stdout = IF pi.link THEN Append(pi.stdout, r) ELSE pi.stdout
    <3>1. /\ told \in PiStates /\ told.stdin = pi.stdin /\ told.owes = pi.owes /\ told.link = pi.link
          /\ told.working = pi.working /\ told.started = pi.started
          /\ told.stdout = IF pi.link THEN Append(pi.stdout, r) ELSE pi.stdout
      BY <1>2, <2>2, <2>3, TellIs
    <3>. QED  BY <2>4, <3>1 DEF PiStates
  <2>6. Responded(<<"prompt", prompt.n>>) => Responded(<<"prompt", prompt.n>>)'
    <3>1. CASE pi'.stdout = pi.stdout
      BY <1>1, <3>1 DEF Responded
    <3>2. CASE pi'.stdout = Append(pi.stdout, r)
      BY <1>1, <1>2, <2>2, <3>2, ToldIs
    <3>. QED  BY <2>5, <3>1, <3>2
  <2>7. WorkSound'
    BY <1>1, <1>2, <1>3, <1>4, <1>6, <2>5, <2>6 DEF WorkSound
  <2>. QED  BY <1>1, <1>4, <1>6, <2>2, <2>5, <2>7, WorkTold
<1>7. ASSUME pi.ended, NEW answer \in {"", "aborted"},
             pi' = [Tell(pi, [Says("agent_settled") EXCEPT !.answer = answer])
                      EXCEPT !.working = 0, !.started = FALSE, !.ended = FALSE, !.aborting = FALSE]
      PROVE  ConnectionInv'
  <2>1. PICK r : r = [Says("agent_settled") EXCEPT !.answer = answer]
    OBVIOUS
  <2>2. r \in Records /\ r.type = "agent_settled"
    BY <2>1 DEF Says, Records, Answers, Reasons, Callers
  <2>3. PICK told : told = Tell(pi, r)
    OBVIOUS
  <2>4. pi' = [told EXCEPT !.working = 0, !.started = FALSE, !.ended = FALSE, !.aborting = FALSE]
    BY <1>7, <2>1, <2>3
  <2>5. /\ pi' \in PiStates /\ pi'.stdin = pi.stdin /\ pi'.owes = pi.owes /\ pi'.link = pi.link
        /\ pi'.working = 0 /\ ~pi'.started /\ ~pi'.ended
        /\ pi'.stdout = IF pi.link THEN Append(pi.stdout, r) ELSE pi.stdout
    <3>1. /\ told \in PiStates /\ told.stdin = pi.stdin /\ told.owes = pi.owes /\ told.link = pi.link
          /\ told.stdout = IF pi.link THEN Append(pi.stdout, r) ELSE pi.stdout
      BY <1>2, <2>2, <2>3, TellIs
    <3>. QED  BY <2>4, <3>1 DEF PiStates
  <2>6. WorkSound'
    BY <1>1, <1>4, <2>5 DEF WorkSound
  <2>. QED  BY <1>1, <1>4, <1>7, <2>2, <2>5, <2>6, WorkTold
<1>8. ASSUME NEW id \in pi.owes, NEW answer \in {"ok", "refused"},
             pi' = [Tell(pi, Reply(id, answer)) EXCEPT !.owes = @ \ {id}]
      PROVE  ConnectionInv'
  <2>1. PICK r : r = [type |-> "response", to |-> id, answer |-> answer]
    OBVIOUS
  <2>2. id \in Callers \X Nat /\ id[1] \in Cancellers /\ id[1] # "prompt" /\ Fresh(id)
    BY <1>2, StreamFacts DEF Cancellers
  <2>3. r \in Records /\ r.type = "response" /\ r.to = id
    BY <2>1, <2>2 DEF Records, Answers
  <2>4. PICK told : told = Tell(pi, r)
    OBVIOUS
  <2>5. pi' = [told EXCEPT !.owes = told.owes \ {id}]
    BY <1>8, <2>1, <2>4 DEF Reply
  <2>6. /\ pi' \in PiStates /\ pi'.stdin = pi.stdin /\ pi'.owes = pi.owes \ {id} /\ pi'.link = pi.link
        /\ pi'.working = pi.working /\ pi'.started = pi.started /\ pi'.ended = pi.ended
        /\ pi'.stdout = IF pi.link THEN Append(pi.stdout, r) ELSE pi.stdout
    <3>1. /\ told \in PiStates /\ told.stdin = pi.stdin /\ told.link = pi.link /\ told.owes = pi.owes
          /\ told.working = pi.working /\ told.started = pi.started /\ told.ended = pi.ended
          /\ told.stdout = IF pi.link THEN Append(pi.stdout, r) ELSE pi.stdout
      BY <1>2, <2>3, <2>4, TellIs
    <3>2. pi.owes \ {id} \in SUBSET (Callers \X Nat)
      BY <1>2
    <3>. QED  BY <2>5, <3>1, <3>2 DEF PiStates
  <2>7. /\ Responded(<<"prompt", prompt.n>>) => Responded(<<"prompt", prompt.n>>)'
        /\ NoEvents(pi.stdout) => NoEvents(pi.stdout)'
    <3>1. CASE pi'.stdout = pi.stdout
      BY <1>1, <3>1 DEF Responded, NoEvents
    <3>2. CASE pi'.stdout = Append(pi.stdout, r)
      BY <1>1, <1>2, <2>3, <3>2, ToldIs
    <3>. QED  BY <2>6, <3>1, <3>2
  <2>8. WorkSound'
    BY <1>1, <1>2, <1>3, <1>4, <2>6, <2>7 DEF WorkSound
  <2>9. id \in pi.owes /\ id \notin pi'.owes /\ pi'.owes \subseteq pi.owes /\ id[1] \in Callers
    BY <1>8, <2>2, <2>6
  <2>. QED  BY <1>1, <2>2, <2>3, <2>6, <2>8, <2>9, WorkTold
<1>9. CASE \E reason \in {"stop", "error"} \cup (IF pi.aborting THEN {"aborted"} ELSE {}) :
             pi.started /\ ~pi.ended
             /\ pi' = [Tell(pi, [Says("message_end") EXCEPT !.answer = reason]) EXCEPT !.ended = TRUE]
  BY <1>6, <1>9
<1>10. CASE pi.ended /\ pi' = [Tell(pi, [Says("agent_settled") EXCEPT !.answer = IF pi.aborting THEN "aborted" ELSE ""])
                                EXCEPT !.working = 0, !.started = FALSE, !.ended = FALSE, !.aborting = FALSE]
  BY <1>7, <1>10
<1>. QED  BY <1>5, <1>8, <1>9, <1>10 DEF PiWorks

-----------------------------------------------------------------------------
(* The reader.                                                             *)

\* What an event that is read adds to the turn; one nobody has room for fails the connection.
LEMMA QueuedIs ==
    ASSUME ConnectionInv, NEW observed \in PiTurns, observed.events = piTurn.events,
           NEW event \in {"activity", "prompt_settled"}, Queued(observed, event)
    PROVE  /\ piTurn' \in PiTurns /\ conn' \in Connections /\ conn'.active = conn.active
           /\ conn'.cancelling = conn.cancelling /\ (ConnectionFailed => ConnectionFailed')
           /\ piTurn' = piTurn \/ piTurn'.settled = observed.settled
           /\ \A i \in 1 .. Len(piTurn'.events) :
                 \/ i \in 1 .. Len(piTurn.events) /\ piTurn'.events[i] = piTurn.events[i]
                 \/ piTurn'.events[i] = event /\ piTurn'.settled = observed.settled
<1>1. PICK events : events = piTurn.events
  OBVIOUS
<1>2. events \in Seq({"activity", "prompt_settled"})
  BY <1>1, PromptFacts DEF PiTurns
<1>3. CASE piTurn' = [observed EXCEPT !.events = Append(@, event)] /\ UNCHANGED conn
  <2>1. Append(events, event) \in Seq({"activity", "prompt_settled"})
    BY <1>2, AppendIs
  <2>2. piTurn' = [observed EXCEPT !.events = Append(events, event)]
    BY <1>1, <1>3
  <2>3. piTurn' \in PiTurns /\ piTurn'.events = Append(events, event) /\ piTurn'.settled = observed.settled
    BY <2>1, <2>2 DEF PiTurns
  <2>4. \A i \in 1 .. Len(Append(events, event)) :
           (i \in 1 .. Len(events) /\ Append(events, event)[i] = events[i]) \/ Append(events, event)[i] = event
    BY <1>2, AppendIs
  <2>. QED  BY <1>1, <1>3, <2>3, <2>4, PromptFacts DEF ConnectionFailed
<1>4. CASE conn' = [Fail(conn, "backpressure") EXCEPT !.reading = FALSE] /\ UNCHANGED piTurn
  <2>1. PICK failed \in Connections : failed = Fail(conn, "backpressure")
    BY PromptFacts, FailIs DEF Errors
  <2>2. failed.active = conn.active /\ failed.cancelling = conn.cancelling /\ failed.failure # "none"
    BY <2>1, PromptFacts, FailIs DEF Errors
  <2>3. /\ conn' \in Connections /\ conn'.active = conn.active /\ conn'.cancelling = conn.cancelling
        /\ conn'.failure # "none"
    BY <1>4, <2>1, <2>2 DEF Connections
  <2>. QED  BY <1>4, <2>3, PromptFacts DEF ConnectionFailed
<1>. QED  BY <1>3, <1>4 DEF Queued

\* What a record that is read changes.
LEMMA RecordIs ==
    ASSUME ConnectionInv, ReadRecord, NEW record, record = Head(pi.stdout)
    PROVE  /\ piTurn' \in PiTurns /\ conn' \in Connections /\ conn'.active = conn.active
           /\ conn'.cancelling = conn.cancelling /\ (ConnectionFailed => ConnectionFailed')
           /\ piTurn.settled => piTurn'.settled
           /\ piTurn'.settled => piTurn.settled \/ record.type = "agent_settled"
           /\ \A i \in 1 .. Len(piTurn'.events) : piTurn'.events[i] = "prompt_settled" => piTurn'.settled
           /\ \/ calls' = calls
              \/ calls' = [calls EXCEPT ![record.to[1]].answer = record.answer] /\ record.type = "response"
           /\ record.type = "response" /\ calls[record.to[1]].at = "exchange" /\ calls[record.to[1]].k = record.to[2] =>
                calls' = [calls EXCEPT ![record.to[1]].answer = record.answer]
           /\ calls' # calls => calls[record.to[1]].at = "exchange" /\ calls[record.to[1]].k = record.to[2]
<1>1. record \in Records /\ pi.stdout # <<>>
  <2>1. pi.stdout # <<>> /\ pi.stdout \in Seq(Records)
    BY StreamFacts DEF ReadRecord
  <2>. QED  BY <2>1, TailIs
<1>2. \A i \in 1 .. Len(piTurn.events) : piTurn.events[i] = "prompt_settled" => piTurn.settled
  BY PromptFacts
<1>3. CASE /\ record.type = "response" /\ UNCHANGED <<conn, piTurn>>
           /\ calls' = IF calls[record.to[1]].at = "exchange" /\ calls[record.to[1]].k = record.to[2]
                       THEN [calls EXCEPT ![record.to[1]].answer = record.answer] ELSE calls
  <2>1. ConnectionFailed => ConnectionFailed'
    BY <1>3 DEF ConnectionFailed
  <2>. QED  BY <1>2, <1>3, <2>1, PromptFacts
<1>4. CASE record.type # "response" /\ UNCHANGED <<calls, conn, piTurn>>
  <2>1. ConnectionFailed => ConnectionFailed'
    BY <1>4 DEF ConnectionFailed
  <2>. QED  BY <1>2, <1>4, <2>1, PromptFacts
<1>5. CASE /\ record.type # "response" /\ UNCHANGED <<calls, piTurn>>
           /\ conn' = [Fail(conn, "protocol") EXCEPT !.reading = FALSE]
  <2>1. PICK failed \in Connections : failed = Fail(conn, "protocol")
    BY PromptFacts, FailIs DEF Errors
  <2>2. failed.active = conn.active /\ failed.cancelling = conn.cancelling /\ failed.failure # "none"
    BY <2>1, PromptFacts, FailIs DEF Errors
  <2>3. /\ conn' \in Connections /\ conn'.active = conn.active /\ conn'.cancelling = conn.cancelling
        /\ conn'.failure # "none"
    BY <1>5, <2>1, <2>2 DEF Connections
  <2>4. ConnectionFailed'
    BY <2>3 DEF ConnectionFailed
  <2>. QED  BY <1>2, <1>5, <2>3, <2>4, PromptFacts
<1>6. CASE /\ record.type = "message_end" /\ ~piTurn.settled /\ UNCHANGED calls
           /\ Queued([piTurn EXCEPT !.reason = record.answer], "activity")
  <2>1. PICK observed : observed = [piTurn EXCEPT !.reason = record.answer]
    OBVIOUS
  <2>2. observed \in PiTurns /\ observed.settled = piTurn.settled /\ observed.events = piTurn.events
    <3>1. record.answer \in Reasons
      BY <1>1, <1>6 DEF Records
    <3>. QED  BY <2>1, <3>1, PromptFacts DEF PiTurns
  <2>3. Queued(observed, "activity")
    BY <1>6, <2>1
  <2>. QED  BY <1>2, <1>6, <2>2, <2>3, QueuedIs
<1>7. CASE /\ record.type = "agent_settled" /\ ~piTurn.settled /\ UNCHANGED calls
           /\ Queued([piTurn EXCEPT !.settled = TRUE, !.outcome = StatusOf(record)], "prompt_settled")
  <2>1. PICK observed : observed = [piTurn EXCEPT !.settled = TRUE, !.outcome = StatusOf(record)]
    OBVIOUS
  <2>2. StatusOf(record) \in {"aborted", "completed", "failed"}
    BY DEF StatusOf
  <2>3. observed \in PiTurns /\ observed.settled /\ observed.events = piTurn.events
    BY <2>1, <2>2, PromptFacts DEF PiTurns
  <2>4. Queued(observed, "prompt_settled")
    BY <1>7, <2>1
  <2>. QED  BY <1>2, <1>7, <2>3, <2>4, QueuedIs
<1>. QED  BY <1>3, <1>4, <1>5, <1>6, <1>7 DEF ReadRecord

\* The settlement that is read is the last that is said of its prompt; what answers a call was said to it.
LEMMA ReadRecordKept == ASSUME ConnectionInv, ReadRecord PROVE ConnectionInv'
<1>1. pi.stdout # <<>> /\ pi' = [pi EXCEPT !.stdout = Tail(pi.stdout)] /\ UNCHANGED <<writes, prompt, struck>>
  BY DEF ReadRecord
<1>2. PICK s \in Seq(Records) : s = pi.stdout
  BY StreamFacts
<1>3. PICK t : t = Tail(s)
  OBVIOUS
<1>4. PICK record : record = Head(pi.stdout)
  OBVIOUS
<1>5. /\ t \in Seq(Records) /\ record \in Records /\ record = s[1] /\ Len(s) \in Nat /\ Len(s) >= 1
      /\ Len(t) = Len(s) - 1 /\ \A i \in 1 .. Len(t) : i + 1 \in 1 .. Len(s) /\ t[i] = s[i + 1]
  BY <1>1, <1>2, <1>3, <1>4, TailIs
<1>6. /\ pi' \in PiStates /\ pi'.working = pi.working /\ pi'.started = pi.started /\ pi'.ended = pi.ended
      /\ pi'.owes = pi.owes /\ pi'.stdin = pi.stdin /\ pi'.link = pi.link /\ pi'.stdout = t
  BY <1>1, <1>2, <1>3, <1>5, StreamFacts DEF PiStates
<1>7. /\ piTurn' \in PiTurns /\ conn' \in Connections /\ conn'.active = conn.active
      /\ conn'.cancelling = conn.cancelling /\ (ConnectionFailed => ConnectionFailed')
      /\ piTurn.settled => piTurn'.settled
      /\ piTurn'.settled => piTurn.settled \/ record.type = "agent_settled"
      /\ \A i \in 1 .. Len(piTurn'.events) : piTurn'.events[i] = "prompt_settled" => piTurn'.settled
  BY <1>4, RecordIs
<1>8. /\ calls' = calls \/ (calls' = [calls EXCEPT ![record.to[1]].answer = record.answer] /\ record.type = "response")
      /\ record.type = "response" /\ calls[record.to[1]].at = "exchange" /\ calls[record.to[1]].k = record.to[2] =>
           calls' = [calls EXCEPT ![record.to[1]].answer = record.answer]
      /\ calls' # calls => calls[record.to[1]].at = "exchange" /\ calls[record.to[1]].k = record.to[2]
  BY <1>4, RecordIs
<1>9. \A i \in 1 .. Len(s) : RecordSound(i)
  BY <1>2, StreamFacts
<1>10. record.type = "response" =>
          /\ record.answer \in {"ok", "refused", "busy"} /\ record.to \in Callers \X Nat
          /\ Fresh(record.to) /\ Responded(record.to)
  <2>1. 1 \in 1 .. Len(s)
    BY <1>5
  <2>2. RecordSound(1)
    BY <1>9, <2>1
  <2>. QED  BY <1>2, <1>5, <2>1, <2>2 DEF Records, Answers, RecordSound, Responded
<1>11. /\ calls' \in [Callers -> Calls]
       /\ \A c \in Callers : /\ calls'[c].at = calls[c].at /\ calls'[c].k = calls[c].k /\ calls'[c].of = calls[c].of
                             /\ \/ calls'[c].answer = calls[c].answer
                                \/ /\ record.type = "response" /\ record.to = <<c, calls[c].k>>
                                   /\ calls[c].at = "exchange" /\ calls'[c].answer = record.answer
  <2>1. CASE calls' = calls
    BY <2>1, StreamFacts
  <2>2. CASE calls' # calls
    <3>1. /\ calls' = [calls EXCEPT ![record.to[1]].answer = record.answer] /\ record.type = "response"
          /\ calls[record.to[1]].at = "exchange" /\ calls[record.to[1]].k = record.to[2]
      BY <1>8, <2>2
    <3>2. PICK caller \in Callers, k \in Nat : record.to = <<caller, k>>
      BY <1>10, <3>1
    <3>3. /\ calls' = [calls EXCEPT ![caller].answer = record.answer]
          /\ calls[caller].at = "exchange" /\ calls[caller].k = k
      BY <3>1, <3>2
    <3>4. record.answer \in Answers
      BY <1>10, <3>1 DEF Answers
    <3>5. calls[caller] \in Calls
      BY StreamFacts
    <3>6. /\ calls'[caller] \in Calls /\ calls'[caller].at = calls[caller].at /\ calls'[caller].k = calls[caller].k
          /\ calls'[caller].of = calls[caller].of /\ calls'[caller].answer = record.answer
      BY <3>3, <3>4, <3>5, StreamFacts DEF Calls
    <3>7. calls' \in [Callers -> Calls] /\ \A c \in Callers \ {caller} : calls'[c] = calls[c]
      BY <3>3, <3>6, StreamFacts
    <3>8. record.to = <<caller, calls[caller].k>>
      BY <3>2, <3>3
    <3>. QED  BY <3>1, <3>3, <3>6, <3>7, <3>8
  <2>. QED  BY <2>1, <2>2
<1>12. \A id : id[1] \in Callers /\ Fresh(id) => Fresh(id)'
  BY <1>11 DEF Fresh
<1>13. \A id : Responded(id)' => Responded(id)
  BY <1>2, <1>5, <1>6 DEF Responded
<1>14. \A id : Responded(id) => Responded(id)' \/ (record.type = "response" /\ record.to = id)
  <2>1. SUFFICES ASSUME NEW id, NEW i \in 1 .. Len(s), s[i].type = "response", s[i].to = id, i # 1
                 PROVE  Responded(id)'
    BY <1>2, <1>5 DEF Responded
  <2>2. i - 1 \in 1 .. Len(t) /\ t[i - 1] = s[i]
    BY <1>5, <2>1
  <2>. QED  BY <1>6, <2>1, <2>2 DEF Responded
<1>15. NoEvents(pi.stdout) => NoEvents(pi.stdout)'
  BY <1>2, <1>5, <1>6 DEF NoEvents
<1>16. AtRest => AtRest'
  BY <1>1, <1>6, <1>15 DEF AtRest, NoPrompts
<1>17. Unadmitted' => Unadmitted /\ ~(record.type = "response" /\ record.to = <<"prompt", prompt.n>>)
  <2>1. SUFFICES ASSUME Unadmitted'
                 PROVE  Unadmitted /\ ~(record.type = "response" /\ record.to = <<"prompt", prompt.n>>)
    OBVIOUS
  <2>2. prompt.at = "exchange" /\ calls'["prompt"].answer = "none"
    BY <1>1, <2>1 DEF Unadmitted
  <2>3. calls["prompt"].answer = "none" /\ Unadmitted
    BY <1>10, <1>11, <2>2, PromptFacts DEF Unadmitted
  <2>4. ASSUME record.type = "response", record.to = <<"prompt", prompt.n>> PROVE FALSE
    <3>1. record.to[1] = "prompt" /\ record.to[2] = prompt.n /\ calls["prompt"].k = prompt.n
      BY <2>4, PromptFacts
    <3>2. calls["prompt"].at # "called"
      BY <1>10, <2>4, <3>1 DEF Fresh
    <3>3. calls["prompt"].at = "exchange"
      BY <2>2, <3>2, PromptFacts
    <3>4. calls' = [calls EXCEPT !["prompt"].answer = record.answer]
      BY <1>8, <2>4, <3>1, <3>3
    <3>5. calls'["prompt"].answer = record.answer
      BY <3>4, PromptFacts DEF Calls
    <3>. QED  BY <1>10, <2>2, <2>4, <3>5
  <2>. QED  BY <2>3, <2>4
<1>18. ASSUME NEW d \in Commands, CommandSound(d) PROVE CommandSound(d)'
  <2>1. d.id[1] \in Callers /\ Fresh(d.id) /\ d.id \in Callers \X Nat
    BY <1>18 DEF Commands, CommandSound
  <2>2. Waits(d.id) => Waits(d.id)'
    <3>1. SUFFICES ASSUME Waits(d.id) PROVE Waits(d.id)'
      OBVIOUS
    <3>2. calls[d.id[1]].k = d.id[2] /\ d.id = <<d.id[1], d.id[2]>>
      BY <2>1, <3>1 DEF Waits
    <3>3. ~(record.type = "response" /\ record.to = d.id)
      BY <1>10, <1>18 DEF CommandSound
    <3>. QED  BY <1>11, <2>1, <3>1, <3>2, <3>3 DEF Waits
  <2>3. Fresh(d.id)' /\ ~Responded(d.id)'
    BY <1>12, <1>13, <1>18, <2>1 DEF CommandSound
  <2>. QED  BY <1>1, <1>6, <1>7, <1>15, <1>18, <2>2, <2>3 DEF CommandSound
<1>19. CommandsSound'
  <2>1. ASSUME NEW i \in 1 .. Len(writes) PROVE CommandSound(writes[i])'
    <3>1. PICK d : d = writes[i]
      OBVIOUS
    <3>2. CommandSound(d)'
      BY <1>18, <3>1, StreamFacts
    <3>. QED  BY <1>1, <3>1, <3>2 DEF CommandSound
  <2>2. ASSUME NEW i \in 1 .. Len(pi.stdin) PROVE CommandSound(pi.stdin[i])'
    <3>1. PICK d : d = pi.stdin[i]
      OBVIOUS
    <3>2. CommandSound(d)'
      BY <1>18, <3>1, StreamFacts
    <3>. QED  BY <1>6, <3>1, <3>2 DEF CommandSound
  <2>3. Alike(writes)' /\ Alike(pi.stdin)' /\ Apart(writes, pi.stdin)'
    <3>1. Alike(writes) /\ Alike(pi.stdin) /\ Apart(writes, pi.stdin)
      BY StreamFacts
    <3>2. writes' = writes /\ pi'.stdin = pi.stdin
      BY <1>1, <1>6
    <3>. QED  BY <3>1, <3>2 DEF Alike, Apart
  <2>. QED  BY <1>1, <1>6, <2>1, <2>2, <2>3 DEF CommandsSound
<1>20. RecordsSound'
  <2>1. ASSUME NEW i \in 1 .. Len(t) PROVE RecordSound(i)'
    <3>1. i + 1 \in 1 .. Len(s) /\ t[i] = s[i + 1] /\ RecordSound(i + 1) /\ i \in Nat /\ i >= 1
      BY <1>5, <1>9
    <3>2. t[i].type = "agent_settled" =>
            /\ pi'.working = 0 /\ NoPrompts(writes)' /\ NoPrompts(pi.stdin)'
            /\ \A j \in i + 1 .. Len(t) : t[j].type = "response"
      <4>1. SUFFICES ASSUME t[i].type = "agent_settled"
                     PROVE  /\ pi'.working = 0 /\ NoPrompts(writes)' /\ NoPrompts(pi.stdin)'
                            /\ \A j \in i + 1 .. Len(t) : t[j].type = "response"
        OBVIOUS
      <4>2. /\ pi.working = 0 /\ NoPrompts(writes) /\ NoPrompts(pi.stdin)
            /\ \A j \in i + 1 + 1 .. Len(s) : s[j].type = "response"
        BY <1>2, <3>1, <4>1 DEF RecordSound
      <4>3. \A j \in i + 1 .. Len(t) : t[j] = s[j + 1] /\ j + 1 \in i + 1 + 1 .. Len(s)
        BY <1>5, <3>1
      <4>. QED  BY <1>1, <1>6, <4>2, <4>3 DEF NoPrompts
    <3>3. t[i].type = "response" =>
            /\ t[i].to[1] \in Callers /\ Fresh(t[i].to)
            /\ t[i].to = <<"prompt", prompt.n>> /\ t[i].answer # "ok" => AtRest'
      BY <1>2, <1>16, <3>1 DEF RecordSound
    <3>4. PICK id : id = t[i].to
      OBVIOUS
    <3>5. t[i].type = "response" => Fresh(id)'
      BY <1>12, <3>3, <3>4
    <3>6. t[i].type = "response" => Fresh(pi.stdout[i].to)'
      BY <1>6, <3>4, <3>5 DEF Fresh
    <3>7. t[i].type # "response" /\ Unadmitted' =>
            \E j \in 1 .. i - 1 : t[j].type = "response" /\ t[j].to = <<"prompt", prompt.n>>
      <4>1. SUFFICES ASSUME t[i].type # "response", Unadmitted'
                     PROVE  \E j \in 1 .. i - 1 : t[j].type = "response" /\ t[j].to = <<"prompt", prompt.n>>
        OBVIOUS
      <4>2. PICK j \in 1 .. i + 1 - 1 : s[j].type = "response" /\ s[j].to = <<"prompt", prompt.n>>
        BY <1>2, <1>17, <3>1, <4>1 DEF RecordSound
      <4>3. j # 1
        BY <1>5, <1>17, <4>1, <4>2
      <4>4. j - 1 \in 1 .. i - 1 /\ t[j - 1] = s[j]
        BY <1>5, <3>1, <4>2, <4>3
      <4>. QED  BY <4>2, <4>4
    <3>. QED  BY <1>1, <1>6, <3>2, <3>3, <3>6, <3>7 DEF RecordSound
  <2>2. \A id \in pi'.owes : id[1] \in Cancellers /\ Fresh(id)'
    BY <1>6, <1>12, StreamFacts DEF Callers
  <2>. QED  BY <1>6, <2>1, <2>2 DEF RecordsSound
<1>21. WorkSound'
  BY <1>1, <1>6, <1>14, <1>15, <1>17 DEF ConnectionInv, WorkSound
<1>22. piTurn'.settled => AtRest' /\ ~Unadmitted'
  <2>1. CASE piTurn.settled
    BY <1>16, <1>17, <2>1 DEF ConnectionInv, EvidenceSound
  <2>2. CASE record.type = "agent_settled"
    <3>1. RecordSound(1) /\ pi.stdout[1] = record /\ 1 \in 1 .. Len(s)
      BY <1>2, <1>5, <1>9
    <3>2. /\ pi.working = 0 /\ NoPrompts(writes) /\ NoPrompts(pi.stdin)
          /\ \A j \in 2 .. Len(s) : s[j].type = "response"
      BY <1>2, <2>2, <3>1 DEF RecordSound
    <3>3. NoEvents(t)
      BY <1>5, <3>2 DEF NoEvents
    <3>4. AtRest'
      BY <1>1, <1>6, <3>2, <3>3 DEF AtRest, NoPrompts, NoEvents
    <3>5. ~Unadmitted
      BY <2>2, <3>1 DEF RecordSound
    <3>. QED  BY <1>17, <3>4, <3>5
  <2>. QED  BY <1>7, <2>1, <2>2
<1>23. calls'["prompt"].answer \notin {"none", "ok"} => AtRest'
  <2>1. CASE calls'["prompt"].answer = calls["prompt"].answer
    BY <1>16, <2>1 DEF ConnectionInv, EvidenceSound
  <2>2. CASE /\ record.type = "response" /\ record.to = <<"prompt", calls["prompt"].k>>
             /\ calls'["prompt"].answer = record.answer
    <3>1. RecordSound(1) /\ pi.stdout[1] = record
      BY <1>2, <1>5, <1>9
    <3>2. record.to = <<"prompt", prompt.n>>
      BY <2>2, PromptFacts
    <3>3. record.answer # "ok" => AtRest
      BY <2>2, <3>1, <3>2 DEF RecordSound
    <3>. QED  BY <1>16, <2>2, <3>3
  <2>. QED  BY <1>11, <2>1, <2>2, PromptFacts
<1>24. EvidenceSound'
  <2>1. calls'["prompt"].at = calls["prompt"].at
    BY <1>11, PromptFacts
  <2>. QED  BY <1>1, <1>7, <1>16, <1>17, <1>22, <1>23, <2>1 DEF ConnectionInv, EvidenceSound
<1>25. CallsSound'
  <2>1. "own" \in Callers /\ "control" \in Callers /\ "prepare" \in Callers /\ "prompt" \in Callers
        /\ Cancellers \subseteq Callers
    BY DEF Callers, Cancellers
  <2>2. Ongoing("own")' = Ongoing("own") /\ Ongoing("control")' = Ongoing("control")
        /\ Ongoing("prepare")' = Ongoing("prepare")
    BY <1>11, <2>1 DEF Ongoing
  <2>3. \A c \in Callers : calls'[c].at = "called" => calls'[c].answer = "none"
    BY <1>11 DEF ConnectionInv, CallsSound
  <2>. QED  BY <1>1, <1>7, <1>11, <2>1, <2>2, <2>3 DEF ConnectionInv, CallsSound
<1>26. ConnectionTypeOK'
  BY <1>1, <1>6, <1>7, <1>11 DEF ConnectionInv, ConnectionTypeOK
<1>. QED  BY <1>19, <1>20, <1>21, <1>24, <1>25, <1>26 DEF ConnectionInv

-----------------------------------------------------------------------------
LEMMA ConnectionStepInv == ConnectionInv /\ [ConnectionNext]_connectionVars => ConnectionInv'
<1>. SUFFICES ASSUME ConnectionInv, [ConnectionNext]_connectionVars PROVE ConnectionInv'
  OBVIOUS
<1>1. CASE PiReads \/ PiWorks \/ LoseLink
  BY <1>1, PiReadsKept, PiWorksKept, LoseLinkKept
<1>2. CASE Write \/ ReadRecord \/ ReadEnd
  BY <1>2, WriteKept, ReadRecordKept, ReadEndKept
<1>3. CASE ControlCancel \/ InterruptedCancel
  BY <1>3, CancelBegunKept
<1>4. ASSUME NEW c \in Cancellers, CancelStep(c) PROVE ConnectionInv'
  <2>1. CASE Exchange(c, "abort")
    BY <2>1, ExchangeKept
  <2>2. CASE CancelUnconfirmed(c) \/ CancelConfirmed(c) \/ CancelEnds(c)
    BY <2>2, CancelStepKept
  <2>. QED  BY <1>4, <2>1, <2>2 DEF CancelStep
<1>5. CASE BeginPrepare
  BY <1>5, BeginPrepareKept
<1>6. CASE PrepareStep
  <2>1. CASE Exchange("prepare", "get_state")
    BY <2>1, ExchangeKept
  <2>2. CASE ~Exchange("prepare", "get_state")
    BY <1>6, <2>2, PrepareReleaseKept
  <2>. QED  BY <2>1, <2>2
<1>7. CASE Submit \/ Deadline \/ Emit
  BY <1>7, SubmitKept, DeadlineKept, EmitKept
<1>8. CASE PromptStep
  <2>1. CASE Exchange("prompt", "prompt")
    BY <2>1, ExchangeKept
  <2>2. CASE PromptAnswered \/ PromptUnanswered
    BY <2>2, PromptAnsweredKept, PromptUnansweredKept
  <2>3. CASE EmitUnheard \/ WaitEnds \/ TakeEvent
    BY <2>3, InterruptsKept, TakeEventKept
  <2>4. CASE Wait \/ ConnectionLost \/ Interrupted
    BY <2>4, WaitKept, InterruptedKept
  <2>. QED  BY <1>3, <1>8, <2>1, <2>2, <2>3, <2>4 DEF PromptStep
<1>9. CASE UNCHANGED connectionVars
  <2>1. UNCHANGED <<pi, writes, conn, piTurn, prompt, calls, struck>>
    BY <1>9 DEF connectionVars
  <2>2. ConnectionFailed => ConnectionFailed'
    BY <2>1 DEF ConnectionFailed
  <2>3. /\ prompt.at = "idle" /\ prompt.status = "unknown" => ConnectionFailed
        /\ prompt.at = "idle" /\ prompt.status # "unknown" => AtRest
    BY DEF ConnectionInv, EvidenceSound
  <2>. QED  BY <2>1, <2>2, <2>3, PromptFacts, PromptMoves
<1>. QED  BY <1>1, <1>2, <1>3, <1>4, <1>5, <1>6, <1>7, <1>8, <1>9 DEF ConnectionNext

LEMMA ConnectionIsInvariant == ConnectionSpec => []ConnectionInv
BY ConnectionInitInv, ConnectionStepInv, PTL DEF ConnectionSpec

LEMMA ConnectionImplies == ConnectionInv => EndingsAreEvidence
<1>. SUFFICES ASSUME ConnectionInv PROVE EndingsAreEvidence
  OBVIOUS
<1>1. OnlyUnknownLeavesWork
  <2>1. SUFFICES ASSUME prompt.at = "idle", prompt.status # "unknown", prompt.status # "none" PROVE ~InFlight(prompt.n)
    BY DEF OnlyUnknownLeavesWork
  <2>2. pi.working = 0 /\ NoPrompts(writes) /\ NoPrompts(pi.stdin)
    BY <2>1 DEF ConnectionInv, EvidenceSound, AtRest
  <2>3. pi.working # prompt.n
    BY <2>1, <2>2 DEF ConnectionInv, CallsSound
  <2>4. DOMAIN writes = 1 .. Len(writes) /\ DOMAIN pi.stdin = 1 .. Len(pi.stdin)
    BY StreamFacts
  <2>. QED  BY <2>2, <2>3, <2>4 DEF InFlight, NoPrompts
<1>2. AbortsItsOwnPrompt
  BY DEF ConnectionInv, WorkSound, AbortsItsOwnPrompt
<1>. QED  BY <1>1, <1>2 DEF EndingsAreEvidence

\* The rest of the connection fails: the settlement that was read stays the prompt's.
LEMMA FailureIsUnsettled ==
    ConnectionInv /\ [ConnectionNext]_connectionVars =>
        [piTurn.settled /\ conn.active = prompt.n /\ prompt.cause = "" => prompt'.cause # "failure"]_connectionVars
<1>. SUFFICES ASSUME ConnectionInv, ConnectionNext, piTurn.settled, prompt.cause = ""
              PROVE  prompt'.cause # "failure"
  OBVIOUS
<1>1. prompt \in Prompts /\ ~Unadmitted
  BY PromptFacts DEF ConnectionInv, EvidenceSound
<1>2. CASE prompt' = prompt
  BY <1>2
<1>3. ASSUME NEW cause \in {"deadline", "sink"}, Interrupt(cause) PROVE prompt'.cause # "failure"
  BY <1>1, <1>3 DEF Interrupt, Prompts
<1>4. CASE PiReads \/ PiWorks \/ LoseLink \/ Write \/ ReadRecord \/ ReadEnd
  BY <1>2, <1>4 DEF PiReads, PiWorks, LoseLink, Write, ReadRecord, ReadEnd
<1>5. CASE ControlCancel \/ \E c \in Cancellers : CancelStep(c)
  BY <1>2, <1>5 DEF ControlCancel, CancelStep, Exchange, CancelUnconfirmed, CancelConfirmed, CancelEnds, Released
<1>6. CASE BeginPrepare \/ PrepareStep
  BY <1>2, <1>6 DEF BeginPrepare, PrepareStep, Exchange, Released
<1>7. CASE Submit
  BY <1>7 DEF Submit, Submitted
<1>8. CASE Deadline
  BY <1>1, <1>8 DEF Deadline, Prompts
<1>9. CASE Emit
  BY <1>1, <1>3, <1>9 DEF Emit, Returned, Prompts
<1>10. CASE PromptStep
  <2>1. CASE Exchange("prompt", "prompt")
    BY <1>2, <2>1 DEF Exchange
  <2>2. CASE PromptAnswered
    BY <1>1, <2>2 DEF PromptAnswered, Returned, Prompts
  <2>3. CASE PromptUnanswered
    BY <1>1, <2>3 DEF PromptUnanswered, Unanswered, Unadmitted
  <2>4. CASE EmitUnheard
    BY <1>3, <2>4 DEF EmitUnheard
  <2>5. CASE TakeEvent
    BY <1>1, <2>5 DEF TakeEvent, Prompts
  <2>6. CASE Wait
    BY <1>1, <2>6 DEF Wait, Prompts
  <2>7. CASE ConnectionLost
    BY <1>1, <2>7 DEF ConnectionLost, Prompts
  <2>8. CASE WaitEnds
    BY <1>3, <2>8 DEF WaitEnds
  <2>9. CASE InterruptedCancel
    BY <1>1, <2>9 DEF InterruptedCancel, Prompts
  <2>10. CASE Interrupted
    BY <1>1, <2>10 DEF Interrupted, Prompts
  <2>. QED  BY <1>10, <2>1, <2>2, <2>3, <2>4, <2>5, <2>6, <2>7, <2>8, <2>9, <2>10 DEF PromptStep
<1>. QED  BY <1>4, <1>5, <1>6, <1>7, <1>8, <1>9, <1>10 DEF ConnectionNext

\* How a prompt is said to have ended can be relied on: but for an unknown ending Pi is not at work on it and will not
\* be, so that the lease of a human prompt can be given back, and an abort ends no prompt but its own (Prompt, Cancel).
THEOREM EndingsCanBeReliedOn == ConnectionSpec => []EndingsAreEvidence
BY ConnectionIsInvariant, ConnectionImplies, PTL

\* Once a prompt's settlement was read, the end of the connection, whatever it was, is not what the prompt ends with.
THEOREM SettlementsAreReported == ConnectionSpec => SettlementIsReported
BY ConnectionIsInvariant, FailureIsUnsettled, PTL DEF ConnectionSpec, SettlementIsReported
=============================================================================
