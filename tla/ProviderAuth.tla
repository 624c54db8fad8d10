---------------------------- MODULE ProviderAuth ----------------------------
(***************************************************************************)
(* The installation's one ChatGPT login.  The server, or an operator's     *)
(* command while the server is down, owns the credential directory by a    *)
(* file lock and is its only writer; the provider replaces the refresh     *)
(* token at every renewal, which cannot be one transaction with the file.  *)
(*                                                                         *)
(* Under the Manager's mutex a renewal is an intent on disk, a call whose  *)
(* answer may be lost, and the answer on disk; the owner may die or fail   *)
(* to write at each of them.  Tokens are numbered as the provider issues   *)
(* them; access tokens, identities and the forms of OAuth are left out.    *)
(***************************************************************************)
EXTENDS Naturals

CONSTANTS MaxToken,      \* refresh tokens issued
          MaxChange,     \* new generations: logins, logouts and unblocks
          MaxReport      \* failures reported by Turns

VARIABLES disk,       \* savedState in chatgpt.json
          holder,     \* of writer.lock, or nobody
          memory,     \* Manager.state of the holder
          broken,     \* Manager.broken: a write failed
          login,      \* Manager.pending and what its person saw of it
          renewal,    \* the renewal under the mutex
          provider,   \* the authorization server
          logouts,    \* logouts so far
          reports,    \* reports so far
          misused     \* a spent token was presented although no answer was lost

NoRenewal == [at |-> "idle", answer |-> "none"]
NoLogin == [generation |-> 0, since |-> 0]
Nobody == "nobody"

NewState == [token |-> 0, since |-> 0, generation |-> 1, authBlocked |-> FALSE,
             quotaBlocked |-> FALSE, refreshPending |-> FALSE]

AuthInit ==
  /\ disk = NewState /\ memory = NewState /\ holder = Nobody /\ broken = FALSE
  /\ login = NoLogin /\ renewal = NoRenewal
  /\ provider = [issued |-> 0, spent |-> {}, unheard |-> {}]
  /\ logouts = 0 /\ reports = 0 /\ misused = FALSE

Owned == holder # Nobody /\ ~broken
Quiet == Owned /\ renewal = NoRenewal

-----------------------------------------------------------------------------
(* The credential directory                                                *)

(* save replaces the file; a write that fails, before or after the rename, *)
(* leaves the Manager broken until its process ends.                       *)
Save(next) ==
  \/ disk' = next /\ memory' = next /\ UNCHANGED broken
  \/ disk' \in {disk, next} /\ UNCHANGED memory /\ broken' = TRUE

Saved(next) == memory' = next /\ ~broken'

(* A mutant of Recovered: nothing is believed to have come of the renewal. *)
RecoveredBlindly(state) == [state EXCEPT !.refreshPending = FALSE]

(* New: the lock is taken without waiting, the file is read, and a renewal *)
(* whose answer was never saved has blocked the login: the provider may    *)
(* have replaced the token.                                                *)
Recovered(state) ==
  [state EXCEPT !.authBlocked = @ \/ state.refreshPending, !.refreshPending = FALSE]

OpenManager(p) ==
  /\ holder = Nobody /\ holder' = p
  /\ disk' = Recovered(disk) /\ memory' = Recovered(disk)
  /\ broken' = FALSE /\ login' = NoLogin
  /\ UNCHANGED <<renewal, provider, logouts, reports, misused>>

(* The process exits or dies, and the lock with it.                        *)
Exit ==
  /\ holder # Nobody /\ holder' = Nobody /\ renewal' = NoRenewal
  /\ broken' = FALSE /\ login' = NoLogin /\ memory' = NewState
  /\ UNCHANGED <<disk, provider, logouts, reports, misused>>

-----------------------------------------------------------------------------
(* Renewal                                                                 *)

(* The token is due, for a Turn that asks for access or in idle time: a    *)
(* quota block stops the first, not the second.                            *)
BeginRefresh ==
  /\ Quiet /\ memory.token # 0 /\ ~memory.authBlocked
  /\ LET next == [memory EXCEPT !.refreshPending = TRUE]
     IN  Save(next) /\ renewal' = IF Saved(next) THEN [at |-> "asked", answer |-> "none"] ELSE NoRenewal
  /\ UNCHANGED <<holder, login, provider, logouts, reports, misused>>

(* The provider answers: it replaces the token, refuses one it has         *)
(* replaced or a login it no longer wants, or does not serve the request   *)
(* now.  An answer that is lost looks like the last.                       *)
Renew(answer) ==
  /\ renewal.at = "asked"
  /\ LET replaces == answer \in {"renewed", "lost"}
         token    == memory.token
     IN  /\ replaces => token \notin provider.spent /\ provider.issued < MaxToken
         /\ provider' = IF replaces
                        THEN [issued  |-> provider.issued + 1,
                              spent   |-> provider.spent \cup {token},
                              unheard |-> provider.unheard \cup (IF answer = "lost" THEN {token} ELSE {})]
                        ELSE provider
         /\ misused' = (misused \/ token \in provider.spent \ provider.unheard)
  /\ renewal' = [at |-> "answered", answer |-> IF answer = "lost" THEN "temporary" ELSE answer]
  /\ UNCHANGED <<disk, holder, memory, broken, login, logouts, reports>>

FinishRefresh ==
  /\ renewal.at = "answered"
  /\ Save([memory EXCEPT
             !.refreshPending = FALSE,
             !.authBlocked = @ \/ renewal.answer = "refused",
             !.token = IF renewal.answer = "renewed" THEN provider.issued ELSE @])
  /\ renewal' = NoRenewal
  /\ UNCHANGED <<holder, login, provider, logouts, reports, misused>>

-----------------------------------------------------------------------------
(* What people and Turns change                                            *)

MayChange == memory.generation < MaxChange

(* BeginLogin hands out a one-time authorization URL; only the last counts.*)
BeginLogin ==
  /\ Quiet
  /\ login' = [generation |-> memory.generation, since |-> logouts]
  /\ UNCHANGED <<disk, holder, memory, broken, renewal, provider, logouts, reports, misused>>

(* CompleteLogin consumes it, whatever comes of the exchange.  Signing in  *)
(* to a login that another operation has overtaken is refused.             *)
CompleteLogin(verified) ==
  /\ Quiet /\ login # NoLogin /\ login' = NoLogin
  /\ IF verified /\ login.generation = memory.generation /\ MayChange /\ provider.issued < MaxToken
     THEN /\ provider' = [provider EXCEPT !.issued = @ + 1]
          /\ Save([token |-> provider.issued + 1, since |-> login.since,
                   generation |-> memory.generation + 1, authBlocked |-> FALSE,
                   quotaBlocked |-> memory.quotaBlocked, refreshPending |-> FALSE])
     ELSE UNCHANGED <<provider, disk, memory, broken>>
  /\ UNCHANGED <<holder, renewal, logouts, reports, misused>>

SignedOut == [memory EXCEPT !.token = 0, !.authBlocked = TRUE, !.refreshPending = FALSE,
                            !.generation = @ + 1]

(* Logout removes local authority durably; what is then asked of the       *)
(* provider, to revoke the token, changes nothing here if it fails.        *)
Logout ==
  /\ Quiet /\ MayChange
  /\ Save(SignedOut)
  /\ IF Saved(SignedOut)
     THEN login' = NoLogin /\ logouts' = logouts + 1
     ELSE UNCHANGED <<login, logouts>>
  /\ UNCHANGED <<holder, renewal, provider, reports, misused>>

Unblock ==
  /\ Quiet /\ MayChange
  /\ Save([memory EXCEPT !.quotaBlocked = FALSE, !.generation = @ + 1])
  /\ UNCHANGED <<holder, login, renewal, provider, logouts, reports, misused>>

(* Report: a Turn's provider refused it; a generation that was replaced    *)
(* since is none of the current login's business.                          *)
Report(generation, quota) ==
  /\ Quiet /\ reports < MaxReport /\ reports' = reports + 1
  /\ IF generation = memory.generation
     THEN Save(IF quota THEN [memory EXCEPT !.quotaBlocked = TRUE]
                        ELSE [memory EXCEPT !.authBlocked = TRUE])
     ELSE UNCHANGED <<disk, memory, broken>>
  /\ UNCHANGED <<holder, login, renewal, provider, logouts, misused>>

AuthNext ==
  \/ \E p \in {"server", "operator"} : OpenManager(p)
  \/ Exit \/ BeginRefresh \/ FinishRefresh
  \/ \E answer \in {"renewed", "refused", "temporary", "lost"} : Renew(answer)
  \/ BeginLogin \/ Logout \/ Unblock
  \/ \E verified \in BOOLEAN : CompleteLogin(verified)
  \/ \E generation \in 1 .. memory.generation, quota \in BOOLEAN : Report(generation, quota)

-----------------------------------------------------------------------------
(* A refresh token the provider has replaced is presented again only after *)
(* an answer got lost on the way: never because the process died, or could *)
(* not write, between the renewal and its record.                          *)
SpentTokenIsNotPresented == ~misused

(* After a logout there is no login again but one that was begun since,    *)
(* whatever sign-in was under way, and whichever process restarts.         *)
LogoutHolds == disk.token # 0 => disk.since = logouts

(* The credential in use is the newest one and of a login that stands      *)
(* (Manager.refresh, Manager.CompleteLogin, Manager.Logout).               *)
CredentialIsCurrent == SpentTokenIsNotPresented /\ LogoutHolds
=============================================================================
