---------------------------- MODULE ServiceProofs ----------------------------
(***************************************************************************)
(* Proofs about the services around the memory, for any number of threads, *)
(* webhooks and commands, any lifetime of the tokens and any bounds.       *)
(***************************************************************************)
EXTENDS ServicePlane, SequenceTheorems, FiniteSetTheorems, TLAPS

-----------------------------------------------------------------------------
(* Which steps touch the log, the vault and the commands.  Every other     *)
(* step leaves them alone, but for the requests that end.                  *)

(* The log changes with the calls of the vault and of the bus, and loses   *)
(* the requests that end.                                                  *)
LEMMA LogSteps ==
    ASSUME Next
    PROVE  \/ UNCHANGED logVars
           \/ \E t \in Threads : EmitStep(t) \/ (Emits(t) /\ UNCHANGED <<log, drawn, late, hooks, reader>>)
           \/ ListEvents \/ Subscribe \/ Unsubscribe
           \/ /\ UNCHANGED <<log, drawn, late, hooks, reader>>
              /\ \E T \in SUBSET Threads : emit' = Ends(emit, T)
<1>1. ASSUME NEW t \in Threads, Calling(t) \/ Renewing(t)
      PROVE  \/ UNCHANGED logVars
             \/ Emits(t) /\ UNCHANGED <<log, drawn, late, hooks, reader>>
  BY <1>1 DEF Calling, Renewing, VaultCall, VaultStep, Connect, Revoke, GetValid, Refused,
     Refreshed, PutRefreshed, AuditRefresh, GetAgain, Audited, Silently
<1>2. ASSUME NEW t \in Threads, Emitting(t)
      PROVE  EmitStep(t)
  BY <1>2 DEF Emitting
<1>3. ASSUME Ageing \/ Reading \/ Subscribing
      PROVE  UNCHANGED logVars \/ ListEvents \/ Subscribe \/ Unsubscribe
  BY <1>3 DEF Ageing, Reading, Subscribing, Expire
<1>4. ASSUME NEW T \in SUBSET Threads, RequestsEnd(T)
      PROVE  UNCHANGED <<log, drawn, late, hooks, reader>> /\ emit' = Ends(emit, T)
  BY <1>4 DEF RequestsEnd
<1>5. CASE Raise \/ Restart
  BY <1>5, <1>4 DEF Raise, Restart
<1>6. ASSUME NEW t \in Threads,
             Answering(t) \/ Routing(t) \/ Rating(t) \/ Crediting(t) \/ Saving(t) \/ Deriving(t)
               \/ Commanding(t) \/ Confirming(t)
      PROVE  UNCHANGED logVars
  BY <1>6 DEF Answering, Routing, Rating, Crediting, Saving, Deriving, Commanding, Confirming,
     OthersThanAnswers, OthersThanInsight, OthersThanCommands
<1>7. CASE Cooling \/ Ticking \/ Forgetting \/ Upgrading
  BY <1>7 DEF Cooling, Ticking, Forgetting, Upgrading, OthersThanAnswers, OthersThanCommands,
     OthersThanUpgrade
<1> QED BY <1>1, <1>2, <1>3, <1>5, <1>6, <1>7 DEF Next

(* The backend stays what it is.                                           *)
LEMMA LocalStays == ASSUME [Next]_vars PROVE local' = local /\ part' = part
<1>1. CASE UNCHANGED vars
  BY <1>1 DEF vars
<1>2. ASSUME NEW T \in SUBSET Threads, RequestsEnd(T) PROVE local' = local /\ part' = part
  BY <1>2 DEF RequestsEnd
<1>3. CASE Next
  BY <1>3, <1>2 DEF Next, Only, Answering, Routing, Rating, Crediting, Calling, Renewing, Emitting,
     Saving, Deriving, Commanding, Confirming, Cooling, Ageing, Reading, Subscribing, Ticking,
     Forgetting, Upgrading, Raise, Restart
<1> QED BY <1>1, <1>3

-----------------------------------------------------------------------------
(* The log.  An id that waits for its commit is no event yet, belongs to   *)
(* one thread, and is not greater than what was drawn.                     *)
Emissions ==
    {Rest} \cup [at : {"store"}] \cup [at : {"commit", "stored"}, id : Nat]
        \cup [at : {"post"}, left : SUBSET Hooks]
LogInv ==
    /\ emit \in [Threads -> Emissions] /\ hooks \subseteq Hooks
    /\ drawn \in Nat /\ log \subseteq 1..drawn
    /\ reader.cursor \in log \cup {0}
    /\ \A t \in Threads : emit[t].at = "commit" =>
          /\ ~local /\ emit[t].id \in (1..drawn) \ log
          /\ \A u \in Threads : emit[u].at = "commit" /\ emit[u].id = emit[t].id => u = t
    /\ ReadersMissNothing

(* Every step keeps it.                                                    *)
LEMMA LogStep == LogInv /\ [Next]_vars => LogInv'
<1> SUFFICES ASSUME LogInv, [Next]_vars PROVE LogInv'
  OBVIOUS
<1>0. local' = local
  BY LocalStays
<1>a. drawn \in Nat /\ log \subseteq 1..drawn /\ reader.cursor \in 0..drawn
  <2>1. drawn \in Nat /\ log \subseteq 1..drawn /\ reader.cursor \in log \cup {0}
    BY DEF LogInv
  <2>2. reader.cursor \in 1..drawn \/ reader.cursor = 0
    BY <2>1
  <2> QED BY <2>1, <2>2
<1>b. emit \in [Threads -> Emissions]
  BY DEF LogInv
<1>1. CASE UNCHANGED logVars
  BY <1>0, <1>1 DEF LogInv, logVars, ReadersMissNothing
<1>2. ASSUME NEW t \in Threads, EmitStep(t) PROVE LogInv'
  <2>1. CASE Store(t)
    <3> DEFINE new == [at |-> IF local THEN "stored" ELSE "commit", id |-> drawn + 1]
    <3>1. emit' = [emit EXCEPT ![t] = new] /\ new \in Emissions
      BY <2>1 DEF Store, LogInv, Emissions
    <3>2. emit' \in [Threads -> Emissions]
      BY <3>1 DEF LogInv
    <3>3. /\ log' \subseteq 1..drawn' /\ drawn' \in Nat
          /\ log' \in {log, log \cup {drawn + 1}}
      BY <2>1 DEF Store, LogInv
    <3>6. \A e \in log' : e <= reader.cursor => e \in log
      BY <1>a, <3>3
    <3>7. ReadersMissNothing'
      BY <1>0, <2>1, <3>6 DEF Store, LogInv, ReadersMissNothing
    <3>4. ASSUME NEW u \in Threads, emit'[u].at = "commit"
          PROVE  /\ ~local' /\ emit'[u].id \in (1..drawn') \ log'
                 /\ \A v \in Threads : emit'[v].at = "commit" /\ emit'[v].id = emit'[u].id => v = u
      BY <1>0, <2>1, <3>1, <3>4 DEF Store, LogInv
    <3> QED BY <2>1, <3>2, <3>3, <3>4, <3>7 DEF Store, LogInv
  <2>2. CASE Commit(t)
    BY <1>0, <2>2 DEF Commit, LogInv, ReadersMissNothing, Emissions, Rest
  <2>3. CASE FindHooks(t)
    BY <1>0, <2>3 DEF FindHooks, LogInv, ReadersMissNothing, Emissions, Rest
  <2>4. CASE Post(t)
    <3>1. emit[t] \in [at : {"post"}, left : SUBSET Hooks]
      BY <2>4 DEF Post, LogInv, Emissions, Rest
    <3>2. emit'[t] \in {Rest} \cup [at : {"post"}, left : SUBSET Hooks]
      BY <1>b, <2>4, <3>1 DEF Post
    <3>3. \A u \in Threads \ {t} : emit'[u] = emit[u]
      BY <1>b, <2>4 DEF Post
    <3>4. emit' \in [Threads -> Emissions] /\ emit'[t].at # "commit"
      BY <1>b, <2>4, <3>2 DEF Post, Emissions, Rest
    <3> QED BY <1>0, <2>4, <3>3, <3>4 DEF Post, LogInv, ReadersMissNothing
  <2> QED BY <1>2, <2>1, <2>2, <2>3, <2>4 DEF EmitStep
<1>3. ASSUME NEW t \in Threads, Emits(t), UNCHANGED <<log, drawn, late, hooks, reader>> PROVE LogInv'
  <2>1. emit' \in [Threads -> Emissions]
    BY <1>3 DEF Emits, LogInv, Emissions
  <2>2. \A u \in Threads : emit'[u].at = "commit" => u # t /\ emit'[u] = emit[u]
    BY <1>3 DEF Emits, LogInv
  <2> QED BY <1>0, <1>3, <2>1, <2>2 DEF LogInv, ReadersMissNothing
<1>4. CASE ListEvents
  <2>1. PICK next \in Page(reader.cursor) :
           reader' = [cursor |-> next, read |-> reader.read \cup Page(reader.cursor)]
    BY <1>4 DEF ListEvents, NextAfter
  <2>2. next \in log /\ next \in Int /\ reader.cursor \in Int
    BY <1>a DEF Page, Following
  <2>3. \A e \in log : e <= next => e <= reader.cursor \/ e \in Page(reader.cursor)
    <3> SUFFICES ASSUME NEW e \in log, e <= next, ~(e <= reader.cursor)
                 PROVE  e \in Page(reader.cursor)
      OBVIOUS
    <3>1. e \in Int
      BY <1>a
    <3>2. e \in Following(reader.cursor)
      BY <2>2, <3>1 DEF Following
    <3>3. next <= e
      BY <3>2 DEF Page
    <3>4. e = next
      BY <2>2, <3>1, <3>3
    <3> QED BY <3>4
  <2>4. {e \in log' : e <= reader'.cursor} \subseteq reader'.read \cup late'
    BY <1>4, <2>1, <2>3 DEF ListEvents, LogInv, ReadersMissNothing
  <2> QED BY <1>0, <1>4, <2>1, <2>2, <2>4 DEF ListEvents, LogInv, ReadersMissNothing
<1>5. CASE Subscribe \/ Unsubscribe
  BY <1>0, <1>5 DEF Subscribe, Unsubscribe, LogInv, ReadersMissNothing
<1>6. ASSUME NEW T \in SUBSET Threads, emit' = Ends(emit, T), UNCHANGED <<log, drawn, late, hooks, reader>>
      PROVE  LogInv'
  BY <1>0, <1>6 DEF Ends, LogInv, ReadersMissNothing, Emissions, Rest
<1>7. CASE UNCHANGED vars
  BY <1>1, <1>7 DEF vars
<1> QED BY <1>1, <1>2, <1>3, <1>4, <1>5, <1>6, <1>7, LogSteps

(* A follower of the event log is given every event up to its cursor, but  *)
(* for those committed after a later one, of which SQLite has none.        *)
THEOREM FollowersMissNothing == Spec => []ReadersMissNothing
<1>1. Init => LogInv
  BY DEF Init, LogInit, LogInv, ReadersMissNothing, Emissions, Rest
<1>2. LogInv => ReadersMissNothing
  BY DEF LogInv
<1> QED BY <1>1, <1>2, LogStep, PTL DEF Spec

-----------------------------------------------------------------------------
(* The vault.  Once an authorization is revoked, every renewal of it that  *)
(* is under way had read it before.                                        *)
Renewals == {Rest} \cup [at : {"refresh", "put", "audit", "again"}, crossed : BOOLEAN]
VaultInv ==
    /\ row \in {"none", "valid", "expired", "revoked"}
    /\ vault \in [Threads -> Renewals]
    /\ row = "revoked" => \A t \in Threads : vault[t].at \in {"refresh", "put"} => vault[t].crossed

(* Which steps touch the vault.                                            *)
LEMMA VaultSteps ==
    ASSUME Next
    PROVE  \/ UNCHANGED vaultVars
           \/ \E t \in Threads : VaultCall(t) \/ VaultStep(t)
           \/ Expire
           \/ row' = row /\ \E T \in SUBSET Threads : vault' = Ends(vault, T)
<1>1. ASSUME NEW t \in Threads, Calling(t) \/ Renewing(t)
      PROVE  VaultCall(t) \/ VaultStep(t)
  BY <1>1 DEF Calling, Renewing
<1>2. ASSUME NEW t \in Threads,
             Answering(t) \/ Routing(t) \/ Rating(t) \/ Crediting(t) \/ Emitting(t)
               \/ Saving(t) \/ Deriving(t) \/ Commanding(t) \/ Confirming(t)
      PROVE  UNCHANGED vaultVars
  BY <1>2 DEF Answering, Routing, Rating, Crediting, Emitting, Saving, Deriving, Commanding,
     Confirming, OthersThanAnswers, OthersThanInsight, OthersThanCommands
<1>3. CASE Cooling \/ Reading \/ Subscribing \/ Ticking \/ Forgetting \/ Upgrading
  BY <1>3 DEF Cooling, Reading, Subscribing, Ticking, Forgetting, Upgrading, OthersThanAnswers,
     OthersThanCommands, OthersThanUpgrade
<1>4. CASE Ageing
  BY <1>4 DEF Ageing
<1>5. ASSUME NEW T \in SUBSET Threads, RequestsEnd(T)
      PROVE  row' = row /\ vault' = Ends(vault, T)
  BY <1>5 DEF RequestsEnd
<1>6. CASE Raise \/ Restart
  BY <1>5, <1>6 DEF Raise, Restart
<1> QED BY <1>1, <1>2, <1>3, <1>4, <1>6 DEF Next

(* Every step keeps it.                                                    *)
LEMMA VaultInvStep == VaultInv /\ [Next]_vars => VaultInv'
<1> SUFFICES ASSUME VaultInv, [Next]_vars PROVE VaultInv'
  OBVIOUS
<1>1. CASE UNCHANGED vaultVars
  BY <1>1 DEF VaultInv, vaultVars
<1>2. ASSUME NEW t \in Threads, VaultCall(t) PROVE VaultInv'
  <2>1. CASE Connect(t)
    BY <2>1 DEF Connect, VaultInv
  <2>2. CASE Revoke(t)
    <3>1. \A u \in Threads : vault'[u] =
             IF vault[u] = Rest THEN Rest ELSE [vault[u] EXCEPT !.crossed = TRUE]
      BY <2>2 DEF Revoke
    <3>2. \A u \in Threads : vault'[u] \in Renewals /\ (vault'[u] = Rest \/ vault'[u].crossed)
      BY <3>1 DEF VaultInv, Renewals
    <3> QED BY <2>2, <3>2 DEF Revoke, VaultInv, Rest
  <2>3. CASE GetValid(t)
    <3>1. row # "revoked" /\ row' = row
      BY <2>3 DEF GetValid, Enabled
    <3>2. vault' = vault \/ vault' = [vault EXCEPT ![t] = [at |-> "refresh", crossed |-> FALSE]]
      <4>1. UNCHANGED vault \/ Goes(t, "refresh")
        BY <2>3 DEF GetValid
      <4> QED BY <4>1 DEF Goes
    <3>3. [at |-> "refresh", crossed |-> FALSE] \in Renewals /\ vault \in [Threads -> Renewals]
      BY DEF VaultInv, Renewals
    <3>4. vault' \in [Threads -> Renewals]
      BY <3>2, <3>3
    <3> QED BY <3>1, <3>4 DEF VaultInv
  <2> QED BY <1>2, <2>1, <2>2, <2>3 DEF VaultCall
<1>3. ASSUME NEW t \in Threads, VaultStep(t) PROVE VaultInv'
  <2>1. vault[t] \in [at : {"refresh", "put", "audit", "again"}, crossed : BOOLEAN]
    BY <1>3 DEF VaultStep, Refused, Refreshed, PutRefreshed, AuditRefresh, GetAgain, VaultInv,
       Renewals, Rest
  <2>2. CASE Refused(t) \/ GetAgain(t)
    BY <2>2 DEF Refused, GetAgain, Returns, VaultInv, Renewals, Rest
  <2>3. CASE Refreshed(t)
    BY <2>1, <2>3 DEF Refreshed, VaultInv, Renewals
  <2>4. CASE PutRefreshed(t)
    BY <2>1, <2>4 DEF PutRefreshed, VaultInv, Renewals
  <2>5. CASE AuditRefresh(t)
    BY <2>1, <2>5 DEF AuditRefresh, VaultInv, Renewals
  <2> QED BY <1>3, <2>2, <2>3, <2>4, <2>5 DEF VaultStep
<1>4. CASE Expire
  BY <1>4 DEF Expire, VaultInv
<1>5. ASSUME NEW T \in SUBSET Threads, row' = row, vault' = Ends(vault, T) PROVE VaultInv'
  BY <1>5 DEF Ends, VaultInv, Renewals, Rest
<1>6. CASE UNCHANGED vars
  BY <1>1, <1>6 DEF vars
<1> QED BY <1>1, <1>2, <1>3, <1>4, <1>5, <1>6, VaultSteps

(* What such a step does to a revoked authorization.                       *)
LEMMA RevivalStep ==
    ASSUME VaultInv, LogInv, [Next]_vars, row = "revoked", row' # "revoked"
    PROVE  \E t \in Threads :
              \/ Unoccupied(t) /\ vault'[t] = Rest /\ ~Quiet(t)'
              \/ vault[t].at = "put" /\ vault[t].crossed
<1>1. PICK t \in Threads : Connect(t) \/ PutRefreshed(t)
  BY VaultSteps DEF vars, vaultVars, VaultCall, VaultStep, Revoke, GetValid, Refused, Refreshed,
     AuditRefresh, GetAgain, Expire
<1>2. CASE Connect(t)
  <2>1. Unoccupied(t) /\ vault' = vault /\ Emits(t)
    BY <1>2 DEF Connect, Audited
  <2>2. emit'[t] = [at |-> "store"]
    BY <2>1 DEF Emits, LogInv
  <2>3. vault'[t] = Rest /\ ~Quiet(t)'
    BY <2>1, <2>2 DEF Unoccupied, Quiet, Rest
  <2> QED BY <2>1, <2>3
<1>3. CASE PutRefreshed(t)
  BY <1>3 DEF PutRefreshed, VaultInv
<1> QED BY <1>1, <1>2, <1>3

(* A revoked authorization comes back only when the user connects again,   *)
(* or out of a refresh that had read it before.                            *)
THEOREM RevocationHolds == Spec => RevokedTokensStayRevoked
<1>1. Init => VaultInv /\ LogInv
  BY DEF Init, VaultInit, VaultInv, Renewals, LogInit, LogInv, ReadersMissNothing, Emissions, Rest
<1>2. VaultInv /\ LogInv /\ [Next]_vars =>
         [row = "revoked" /\ row' # "revoked" =>
             \E t \in Threads :
                \/ Unoccupied(t) /\ vault'[t] = Rest /\ ~Quiet(t)'
                \/ vault[t].at = "put" /\ vault[t].crossed]_vars
  BY RevivalStep
<1> QED BY <1>1, <1>2, VaultInvStep, LogStep, PTL DEF Spec, RevokedTokensStayRevoked

-----------------------------------------------------------------------------
(* The commands.  A request that signs or verifies knows the second it     *)
(* began in, which is not in the future, and a token it verifies is one    *)
(* that was handed out.                                                    *)
Keying == {"key", "file", "write", "fill", "cache", "sign"}
Minting == [at : Keying, for : {"mint"}, of : Commands, ts : Nat, key : Nat]
Verifying ==
    [at : Keying \cup {"consume", "refused"}, for : {"verify"}, of : Commands, ts : Nat,
     key : Nat, token : tokens]
Turned == [at : {"refused"}, of : Commands]
CommandTypes ==
    /\ clock \in Nat /\ place \in Places
    /\ disk \in Nat /\ cached \in Nat /\ keys \in Nat \ {0}
    /\ tokens \subseteq [of : Commands, exp : Nat, key : Nat]
    /\ recent \subseteq tokens /\ accepted \subseteq tokens
    /\ cmd \in [Threads -> {Rest} \cup Minting \cup Verifying \cup Turned]
    /\ \A t \in Threads : cmd[t] \in Minting \cup Verifying => cmd[t].ts <= clock

(* Who is at a step of the key or the token is minting or verifying.       *)
LEMMA Busy ==
    ASSUME CommandTypes, NEW t \in Threads
    PROVE  /\ cmd[t].at \in Keying => cmd[t] \in Minting \cup Verifying
           /\ cmd[t].at = "consume" => cmd[t] \in Verifying
           /\ cmd[t].at \in Keying /\ cmd[t].for = "verify" => cmd[t] \in Verifying
           /\ cmd[t].at = "refused" => cmd[t].of \in Commands
BY DEF CommandTypes, Keying, Minting, Verifying, Turned, Rest

(* A move of a request to another step, with or without a key.             *)
LEMMA Move ==
    ASSUME CommandTypes, NEW t \in Threads, NEW a, NEW k \in Nat,
           \/ cmd[t] \in Minting /\ a \in Keying
           \/ cmd[t] \in Verifying /\ a \in Keying \cup {"consume", "refused"},
           cmd' \in {[cmd EXCEPT ![t].at = a], [cmd EXCEPT ![t].at = a, ![t].key = k]},
           UNCHANGED <<clock, place, tokens, recent>>, accepted' \subseteq tokens,
           disk' \in Nat, cached' \in Nat, keys' \in Nat \ {0}
    PROVE  CommandTypes'
<1>1. /\ cmd[t] \in Minting => cmd'[t] \in Minting
      /\ cmd[t] \in Verifying => cmd'[t] \in Verifying
      /\ cmd'[t].ts = cmd[t].ts
  BY DEF CommandTypes, Minting, Verifying, Keying
<1>2. \A u \in Threads \ {t} : cmd'[u] = cmd[u]
  BY DEF CommandTypes
<1>3. Minting' = Minting /\ Verifying' = Verifying
  BY DEF Minting, Verifying
<1>4. cmd' \in [Threads -> {Rest} \cup Minting' \cup Verifying' \cup Turned]
  BY <1>1, <1>2, <1>3 DEF CommandTypes
<1>5. \A u \in Threads : cmd'[u] \in Minting' \cup Verifying' => cmd'[u].ts <= clock
  <2> TAKE u \in Threads
  <2>1. CASE u = t
    BY <1>1, <2>1 DEF CommandTypes
  <2>2. CASE u # t
    BY <1>2, <1>3, <2>2 DEF CommandTypes
  <2> QED BY <2>1, <2>2
<1> QED BY <1>4, <1>5 DEF CommandTypes

(* Which steps touch the commands.                                         *)
LEMMA CommandSteps ==
    ASSUME Next
    PROVE  \/ UNCHANGED confirmVars
           \/ \E t \in Threads : CommandCall(t) \/ CommandStep(t)
           \/ Tick \/ Forget
<1>1. ASSUME NEW t \in Threads,
             Answering(t) \/ Routing(t) \/ Rating(t) \/ Crediting(t) \/ Calling(t) \/ Renewing(t)
               \/ Emitting(t) \/ Saving(t) \/ Deriving(t)
      PROVE  UNCHANGED confirmVars
  BY <1>1 DEF Answering, Routing, Rating, Crediting, Calling, Renewing, Emitting, Saving, Deriving,
     OthersThanAnswers, OthersThanTokens, OthersThanInsight
<1>2. ASSUME NEW t \in Threads, Commanding(t) \/ Confirming(t)
      PROVE  CommandCall(t) \/ CommandStep(t)
  BY <1>2 DEF Commanding, Confirming
<1>3. CASE Ticking \/ Forgetting
  BY <1>3 DEF Ticking, Forgetting
<1>4. CASE Cooling \/ Ageing \/ Reading \/ Subscribing \/ Upgrading
  BY <1>4 DEF Cooling, Ageing, Reading, Subscribing, Upgrading, OthersThanAnswers,
     OthersThanTokens, OthersThanUpgrade
<1>5. ASSUME NEW T \in SUBSET Threads, RequestsEnd(T) PROVE UNCHANGED confirmVars
  BY <1>5 DEF RequestsEnd
<1>6. CASE Raise \/ Restart
  BY <1>5, <1>6 DEF Raise, Restart
<1> QED BY <1>1, <1>2, <1>3, <1>4, <1>6 DEF Next

(* A request that starts anew, or ends.                                    *)
LEMMA Turnover ==
    ASSUME CommandTypes, NEW t \in Threads, NEW q,
           q \in {Rest} \cup Minting \cup Verifying \cup Turned,
           q \in Minting \cup Verifying => q.ts <= clock,
           cmd' = [cmd EXCEPT ![t] = q],
           UNCHANGED <<clock, place, tokens, recent, disk, cached, keys>>, accepted' \subseteq tokens
    PROVE  CommandTypes'
<1>1. Minting' = Minting /\ Verifying' = Verifying
  BY DEF Minting, Verifying
<1>2. \A u \in Threads : cmd'[u] = IF u = t THEN q ELSE cmd[u]
  BY DEF CommandTypes
<1>3. cmd' \in [Threads -> {Rest} \cup Minting' \cup Verifying' \cup Turned]
  BY <1>1 DEF CommandTypes
<1>4. \A u \in Threads : cmd'[u] \in Minting' \cup Verifying' => cmd'[u].ts <= clock
  BY <1>1, <1>2 DEF CommandTypes
<1> QED BY <1>3, <1>4 DEF CommandTypes

(* Every step keeps the types of the commands.                             *)
LEMMA CommandTypesStep == CommandTypes /\ [Next]_vars => CommandTypes'
<1> SUFFICES ASSUME CommandTypes, [Next]_vars PROVE CommandTypes'
  OBVIOUS
<1>1. CASE UNCHANGED confirmVars
  BY <1>1 DEF CommandTypes, Minting, Verifying, confirmVars
<1>2. ASSUME NEW t \in Threads, CommandCall(t) PROVE CommandTypes'
  <2>1. ASSUME NEW c \in Commands, PlanCommand(t, c) PROVE CommandTypes'
    <3> DEFINE q == [at |-> "key", for |-> "mint", of |-> c, ts |-> clock, key |-> 0]
    <3>1. q \in Minting /\ q.ts <= clock
      BY DEF CommandTypes, Minting, Keying
    <3> QED BY <2>1, <3>1, Turnover DEF PlanCommand, keyVars, tokenVars, CommandTypes
  <2>2. ASSUME NEW c \in Commands, NEW token \in tokens, ExecuteCommand(t, c, token)
        PROVE  CommandTypes'
    <3> DEFINE q == [at |-> "key", for |-> "verify", of |-> c, ts |-> clock, key |-> 0, token |-> token]
               r == [at |-> "refused", of |-> c]
    <3>1. /\ q \in Verifying /\ q.ts <= clock
          /\ r \in Turned /\ r \notin Minting \cup Verifying
      BY DEF CommandTypes, Verifying, Minting, Turned, Keying
    <3>2. cmd' = [cmd EXCEPT ![t] = q] \/ cmd' = [cmd EXCEPT ![t] = r]
      BY <2>2 DEF ExecuteCommand
    <3> QED BY <2>2, <3>1, <3>2, Turnover DEF ExecuteCommand, keyVars, tokenVars, CommandTypes
  <2> QED BY <1>2, <2>1, <2>2 DEF CommandCall
<1>3. ASSUME NEW t \in Threads, CommandStep(t) PROVE CommandTypes'
  <2>1. CASE KeyAtHand(t) \/ ReadFile(t) \/ Truncate(t) \/ Fill(t) \/ CacheKey(t) \/ DrawInMemory(t)
    <3>1. cmd[t] \in Minting \cup Verifying
      BY <2>1, Busy DEF KeyAtHand, ReadFile, Truncate, Fill, CacheKey, DrawInMemory, Keying
    <3>2. PICK a \in Keying, k \in Nat :
             cmd' \in {[cmd EXCEPT ![t].at = a], [cmd EXCEPT ![t].at = a, ![t].key = k]}
      BY <2>1, <3>1 DEF KeyAtHand, ReadFile, Truncate, Fill, CacheKey, DrawInMemory, Has, Proceeds,
         Keying, CommandTypes, Kept, EnvKey, Minting, Verifying
    <3>3. disk' \in Nat /\ cached' \in Nat /\ keys' \in Nat \ {0}
      BY <2>1, <3>1 DEF KeyAtHand, ReadFile, Truncate, Fill, CacheKey, DrawInMemory, keyVars,
         CommandTypes, Kept, Minting, Verifying
    <3>4. UNCHANGED tokenVars /\ place' = place
      BY <2>1 DEF KeyAtHand, ReadFile, Truncate, Fill, CacheKey, DrawInMemory, keyVars
    <3>5. accepted' \subseteq tokens
      BY <3>4 DEF CommandTypes, tokenVars
    <3> QED BY <3>1, <3>2, <3>3, <3>4, <3>5, Move DEF tokenVars
  <2>2. CASE Mint(t)
    <3> DEFINE token == [of |-> cmd[t].of, exp |-> cmd[t].ts + Ttl, key |-> cmd[t].key]
    <3>1. token \in [of : Commands, exp : Nat, key : Nat]
      BY <2>2, Busy, ClockAssumption DEF Mint, Minting, Verifying, Keying
    <3>2. Minting' = Minting /\ Verifying \subseteq Verifying' /\ Turned' = Turned
      BY <2>2 DEF Mint, Minting, Verifying
    <3>3. \A u \in Threads : cmd'[u] = IF u = t THEN Rest ELSE cmd[u]
      BY <2>2 DEF Mint, Done, CommandTypes
    <3>4. cmd' \in [Threads -> {Rest} \cup Minting' \cup Verifying' \cup Turned']
      BY <2>2, <3>2 DEF Mint, Done, CommandTypes
    <3>5. \A u \in Threads : cmd'[u] \in Minting' \cup Verifying' => cmd'[u].ts <= clock'
      BY <2>2, <3>2, <3>3 DEF Mint, CommandTypes, Minting, Verifying, Turned, Rest
    <3> QED BY <2>2, <3>1, <3>4, <3>5 DEF Mint, keyVars, CommandTypes
  <2>3. CASE Verify(t)
    <3>1. cmd[t] \in Verifying
      BY <2>3, Busy DEF Verify, Keying
    <3>2. \E a \in {"consume", "refused"} : cmd' = [cmd EXCEPT ![t].at = a]
      BY <2>3 DEF Verify, Proceeds
    <3> QED BY <2>3, <3>1, <3>2, Move DEF Verify, keyVars, tokenVars, CommandTypes
  <2>4. CASE Consume(t)
    <3>1. cmd[t] \in Verifying /\ cmd[t].token \in tokens
      BY <2>4, Busy DEF Consume, Verifying
    <3>2. accepted' \subseteq tokens
      BY <2>4, <3>1 DEF Consume, CommandTypes
    <3>3. cmd' = [cmd EXCEPT ![t] = Rest] \/ cmd' = [cmd EXCEPT ![t].at = "refused"]
      BY <2>4 DEF Consume, Done, Proceeds
    <3>4. Rest \notin Minting \cup Verifying
      BY DEF Rest, Minting, Verifying, Keying
    <3> QED BY <2>4, <3>1, <3>2, <3>3, <3>4, Move, Turnover DEF Consume, keyVars, CommandTypes
  <2>5. CASE Refuse(t)
    <3> DEFINE q == [at |-> "key", for |-> "mint", of |-> cmd[t].of, ts |-> clock, key |-> 0]
    <3>1. q \in Minting /\ q.ts <= clock
      BY <2>5, Busy DEF Refuse, CommandTypes, Minting, Keying
    <3>2. Rest \notin Minting \cup Verifying
      BY DEF Rest, Minting, Verifying, Keying
    <3>3. cmd' = [cmd EXCEPT ![t] = Rest] \/ cmd' = [cmd EXCEPT ![t] = q]
      BY <2>5 DEF Refuse, Done
    <3> QED BY <2>5, <3>1, <3>2, <3>3, Turnover DEF Refuse, keyVars, tokenVars, CommandTypes
  <2> QED BY <1>3, <2>1, <2>2, <2>3, <2>4, <2>5 DEF CommandStep
<1>4. CASE Tick
  <2>1. clock' \in Nat /\ clock <= clock'
    BY <1>4 DEF Tick, CommandTypes
  <2>2. Minting' = Minting /\ Verifying' = Verifying
    BY <1>4 DEF Tick, Minting, Verifying
  <2>3. \A u \in Threads : cmd'[u] \in Minting' \cup Verifying' => cmd'[u].ts <= clock'
    BY <1>4, <2>1, <2>2 DEF Tick, CommandTypes, Minting, Verifying
  <2> QED BY <1>4, <2>1, <2>2, <2>3 DEF Tick, keyVars, CommandTypes
<1>5. CASE Forget
  BY <1>5 DEF Forget, CommandTypes, Minting, Verifying, Keying, Rest
<1>6. CASE UNCHANGED vars
  BY <1>1, <1>6 DEF vars
<1> QED BY <1>1, <1>2, <1>3, <1>4, <1>5, <1>6, CommandSteps

-----------------------------------------------------------------------------
(* A token that was accepted is remembered as used, or has expired.        *)
UsedInv == \A k \in accepted : k \in consumed \/ k.exp <= clock

(* Every step keeps it.                                                    *)
LEMMA UsedStep == CommandTypes /\ UsedInv /\ [Next]_vars => UsedInv'
<1> SUFFICES ASSUME CommandTypes, UsedInv, [Next]_vars PROVE UsedInv'
  OBVIOUS
<1>1. CASE UNCHANGED confirmVars
  BY <1>1 DEF UsedInv, confirmVars
<1>2. ASSUME NEW t \in Threads, CommandCall(t) PROVE UsedInv'
  BY <1>2 DEF CommandCall, PlanCommand, ExecuteCommand, tokenVars, UsedInv
<1>3. ASSUME NEW t \in Threads, CommandStep(t) PROVE UsedInv'
  <2>1. CASE KeyAtHand(t) \/ ReadFile(t) \/ Truncate(t) \/ Fill(t) \/ CacheKey(t)
               \/ DrawInMemory(t) \/ Verify(t) \/ Refuse(t)
    BY <2>1 DEF KeyAtHand, ReadFile, Truncate, Fill, CacheKey, DrawInMemory, Verify, Refuse,
       tokenVars, UsedInv
  <2>2. CASE Mint(t)
    BY <2>2 DEF Mint, UsedInv
  <2>3. CASE Consume(t)
    <3>1. /\ cmd[t].ts \in Nat /\ cmd[t].ts <= clock /\ clock \in Nat
          /\ \A k \in accepted : k.exp \in Nat
      BY <2>3, Busy DEF Consume, CommandTypes, Verifying
    <3>2. \A k \in accepted : k \in Remembered(cmd[t].ts) \/ k.exp <= clock
      BY <3>1 DEF Remembered, Stale, UsedInv
    <3> QED BY <2>3, <3>2 DEF Consume, UsedInv
  <2> QED BY <1>3, <2>1, <2>2, <2>3 DEF CommandStep
<1>4. CASE Tick
  BY <1>4 DEF Tick, UsedInv, CommandTypes
<1>5. CASE Forget
  BY <1>5 DEF Forget, UsedInv
<1>6. CASE UNCHANGED vars
  BY <1>1, <1>6 DEF vars
<1> QED BY <1>1, <1>2, <1>3, <1>4, <1>5, <1>6, CommandSteps

(* At the start there are no commands.                                     *)
LEMMA CommandTypesInit == Init => CommandTypes /\ UsedInv
BY DEF Init, ConfirmInit, CommandTypes, UsedInv, EnvKey, Places, Rest, Minting, Verifying, Turned,
   Keying

(* A process that goes on accepts a token once, until the second in which  *)
(* the token expires.                                                      *)
THEOREM ConfirmsOnce == Spec => ConfirmedOnce
<1>1. ASSUME CommandTypes, UsedInv, NEW t \in Threads, Accepts(t)
      PROVE  cmd[t].token \notin accepted \/ clock >= cmd[t].token.exp
  <2>1. cmd[t] \in Verifying
    BY <1>1, Busy DEF Accepts
  <2>2. /\ cmd[t].token \in tokens /\ cmd[t].ts \in Nat /\ cmd[t].ts <= clock
        /\ clock \in Nat /\ cmd[t].token.exp \in Nat
    BY <1>1, <2>1 DEF CommandTypes, Verifying
  <2> QED BY <1>1, <2>2 DEF Accepts, Remembered, Stale, UsedInv
<1>2. CommandTypes /\ UsedInv /\ [Next]_vars =>
         [\A t \in Threads :
             Accepts(t) /\ cmd'[t] = Rest /\ cached' = cached
                => cmd[t].token \notin accepted \/ clock >= cmd[t].token.exp]_vars
  BY <1>1
<1> QED BY CommandTypesInit, CommandTypesStep, UsedStep, <1>2, PTL DEF Spec, ConfirmedOnce

-----------------------------------------------------------------------------
(* The key that the process signs with, once it has one.                   *)
ProcessKey == IF place = "env" THEN EnvKey ELSE cached
Fetching == {"file", "write", "fill", "cache"}
(* Nobody signs before there is a key, nor with another one than that of   *)
(* the process, and a drawn key is one.                                    *)
SigningInv ==
    /\ \A t \in Threads : cmd[t].at = "sign" => ProcessKey # 0 /\ cmd[t].key = ProcessKey
    /\ \A k \in recent : ProcessKey # 0 /\ k.key = ProcessKey
    /\ \A k \in tokens : k.key # 0
    /\ \A t \in Threads : cmd[t].at \in Fetching => place # "env"
    /\ \A t \in Threads : cmd[t].at \in {"write", "fill", "cache"} => cmd[t].key # 0
(* One thread at a time fills an empty file, nothing is signed meanwhile,  *)
(* and what the process or a token has is what the file has.               *)
FileInv ==
    /\ \A k \in tokens : k.key = disk
    /\ cached # 0 => cached = disk
    /\ \A t \in Threads : cmd[t].at \in {"write", "fill"} =>
          /\ disk = 0
          /\ \A u \in Threads : cmd[u].at \in {"write", "fill"} => u = t
    /\ \A t \in Threads : cmd[t].at = "cache" => cmd[t].key = disk
KeysInv ==
    /\ raced \in BOOLEAN
    /\ SigningInv
    /\ place = "file" /\ ~raced => FileInv

(* What a step of a request on its way to the key does to the requests.    *)
LEMMA KeySteps ==
    ASSUME CommandTypes, NEW t \in Threads,
           KeyAtHand(t) \/ ReadFile(t) \/ Truncate(t) \/ Fill(t) \/ CacheKey(t) \/ DrawInMemory(t)
    PROVE  /\ \A u \in Threads \ {t} : cmd'[u] = cmd[u]
           /\ UNCHANGED <<tokens, recent, place>>
           /\ KeyAtHand(t) =>
                 \/ cmd'[t].at = "sign" /\ cmd'[t].key = ProcessKey /\ ProcessKey # 0
                 \/ cmd'[t].at = "file" /\ place # "env"
           /\ ReadFile(t) =>
                 \/ disk # 0 /\ cmd'[t].at = "cache" /\ cmd'[t].key = disk
                 \/ /\ disk = 0 /\ cmd'[t].key = keys + 1
                    /\ cmd'[t].at = IF place = "file" THEN "write" ELSE "cache"
           /\ Truncate(t) => cmd'[t].at = "fill" /\ cmd'[t].key = cmd[t].key
           /\ Fill(t) => cmd'[t].at = "cache" /\ cmd'[t].key = cmd[t].key
           /\ CacheKey(t) \/ DrawInMemory(t) => cmd'[t].at = "sign" /\ cmd'[t].key = cached'
<1>1. cmd[t] \in Minting \cup Verifying
  BY Busy DEF KeyAtHand, ReadFile, Truncate, Fill, CacheKey, DrawInMemory, Keying
<1>2. \A a, k :
         /\ Has(t, a, k) => cmd'[t].at = a /\ cmd'[t].key = k
         /\ Proceeds(t, a) => cmd'[t].at = a /\ cmd'[t].key = cmd[t].key
         /\ Has(t, a, k) \/ Proceeds(t, a) => \A u \in Threads \ {t} : cmd'[u] = cmd[u]
  BY <1>1 DEF Has, Proceeds, CommandTypes, Minting, Verifying
<1>3. \E a, k : Has(t, a, k) \/ Proceeds(t, a)
  BY DEF KeyAtHand, ReadFile, Truncate, Fill, CacheKey, DrawInMemory
<1>4. UNCHANGED <<tokens, recent, place>>
  BY DEF KeyAtHand, ReadFile, Truncate, Fill, CacheKey, DrawInMemory, keyVars, tokenVars
<1>5. KeyAtHand(t) =>
         \/ cmd'[t].at = "sign" /\ cmd'[t].key = ProcessKey /\ ProcessKey # 0
         \/ cmd'[t].at = "file" /\ place # "env"
  <2>1. KeyAtHand(t) =>
           \/ Has(t, "sign", ProcessKey) /\ ProcessKey # 0
           \/ Proceeds(t, "file") /\ place # "env"
    BY DEF KeyAtHand, ProcessKey, EnvKey
  <2> QED BY <1>2, <2>1
<1>6. ReadFile(t) =>
         \/ disk # 0 /\ cmd'[t].at = "cache" /\ cmd'[t].key = disk
         \/ /\ disk = 0 /\ cmd'[t].key = keys + 1
            /\ cmd'[t].at = IF place = "file" THEN "write" ELSE "cache"
  BY <1>2 DEF ReadFile
<1>7. Truncate(t) => cmd'[t].at = "fill" /\ cmd'[t].key = cmd[t].key
  BY <1>2 DEF Truncate
<1>8. Fill(t) => cmd'[t].at = "cache" /\ cmd'[t].key = cmd[t].key
  BY <1>2 DEF Fill
<1>9. CacheKey(t) \/ DrawInMemory(t) => cmd'[t].at = "sign" /\ cmd'[t].key = cached'
  BY <1>2 DEF CacheKey, DrawInMemory
<1> QED BY <1>2, <1>3, <1>4, <1>5, <1>6, <1>7, <1>8, <1>9

(* Such a step keeps the key of the process.                               *)
LEMMA SigningStep ==
    ASSUME CommandTypes, SigningInv, NEW t \in Threads,
           KeyAtHand(t) \/ ReadFile(t) \/ Truncate(t) \/ Fill(t) \/ CacheKey(t) \/ DrawInMemory(t)
    PROVE  SigningInv'
<1>1. place' = place /\ (ProcessKey # 0 => ProcessKey' = ProcessKey)
  BY KeySteps DEF KeyAtHand, ReadFile, Truncate, Fill, CacheKey, DrawInMemory, keyVars, ProcessKey,
     Kept
<1>2. /\ cmd'[t].at = "sign" => ProcessKey' # 0 /\ cmd'[t].key = ProcessKey'
      /\ cmd'[t].at \in Fetching => place # "env"
      /\ cmd'[t].at \in {"write", "fill", "cache"} => cmd'[t].key # 0
  <2>1. CASE KeyAtHand(t)
    BY <1>1, <2>1, KeySteps DEF Fetching
  <2>2. CASE ReadFile(t)
    BY <2>2, KeySteps DEF ReadFile, SigningInv, Fetching, CommandTypes
  <2>3. CASE Truncate(t) \/ Fill(t)
    BY <2>3, KeySteps DEF Truncate, Fill, SigningInv, Fetching
  <2>4. CASE CacheKey(t)
    <3>1. place # "env" /\ cmd[t].key # 0 /\ cached' = Kept(cmd[t].key)
      BY <2>4 DEF CacheKey, SigningInv, Fetching
    <3> QED BY <1>1, <2>4, <3>1, KeySteps DEF ProcessKey, Kept, Fetching
  <2>5. CASE DrawInMemory(t)
    <3>1. place # "env" /\ cached' = Kept(keys') /\ (cached = 0 => keys' # 0)
      BY <2>5 DEF DrawInMemory, CommandTypes
    <3> QED BY <1>1, <2>5, <3>1, KeySteps DEF ProcessKey, Kept, Fetching
  <2> QED BY <2>1, <2>2, <2>3, <2>4, <2>5
<1> QED BY <1>1, <1>2, KeySteps DEF SigningInv

(* It keeps the file, too.                                                 *)
LEMMA FileStep ==
    ASSUME CommandTypes, KeysInv, NEW t \in Threads, place = "file", ~raced',
           KeyAtHand(t) \/ ReadFile(t) \/ Truncate(t) \/ Fill(t) \/ CacheKey(t)
    PROVE  FileInv'
<1>1. ~raced
  BY DEF KeyAtHand, ReadFile, Truncate, Fill, CacheKey, keyVars, KeysInv
<1>2. FileInv /\ SigningInv
  BY <1>1 DEF KeysInv
<1>3. CASE KeyAtHand(t)
  BY <1>2, <1>3, KeySteps DEF KeyAtHand, keyVars, FileInv
<1>4. CASE ReadFile(t)
  <2>1. disk' = disk /\ cached' = cached
    BY <1>4 DEF ReadFile
  <2>2. CASE disk # 0
    BY <1>2, <1>4, <2>1, <2>2, KeySteps DEF FileInv
  <2>3. CASE disk = 0
    <3>1. ~Storing /\ cmd'[t].at = "write"
      BY <1>4, <2>3, KeySteps DEF ReadFile
    <3> QED BY <1>2, <1>4, <2>1, <2>3, <3>1, KeySteps DEF FileInv, Storing
  <2> QED BY <2>2, <2>3
<1>5. CASE Truncate(t)
  <2>1. disk = 0 /\ disk' = 0 /\ cached' = cached
    BY <1>2, <1>5 DEF Truncate, FileInv
  <2> QED BY <1>2, <1>5, <2>1, KeySteps DEF Truncate, FileInv
<1>6. CASE Fill(t)
  <2>1. disk = 0 /\ disk' = cmd[t].key /\ cached' = cached
    BY <1>2, <1>6 DEF Fill, FileInv
  <2>2. tokens = {} /\ cached = 0 /\ \A u \in Threads : cmd[u].at # "cache"
    BY <1>2, <2>1 DEF FileInv, SigningInv
  <2>3. \A u \in Threads \ {t} : cmd'[u].at \notin {"write", "fill", "cache"}
    BY <1>2, <1>6, <2>2, KeySteps DEF Fill, FileInv
  <2> QED BY <1>6, <2>1, <2>2, <2>3, KeySteps DEF FileInv
<1>7. CASE CacheKey(t)
  <2>1. disk' = disk /\ cached' = disk
    BY <1>2, <1>7 DEF CacheKey, FileInv, Kept
  <2> QED BY <1>2, <1>7, <2>1, KeySteps DEF FileInv
<1> QED BY <1>3, <1>4, <1>5, <1>6, <1>7

(* Every step keeps the keys.                                              *)
LEMMA KeysStep == CommandTypes /\ KeysInv /\ [Next]_vars => KeysInv'
<1> SUFFICES ASSUME CommandTypes, KeysInv, [Next]_vars PROVE KeysInv'
  OBVIOUS
<1>a. cmd \in [Threads -> {Rest} \cup Minting \cup Verifying \cup Turned]
  BY DEF CommandTypes
<1>1. CASE UNCHANGED confirmVars
  BY <1>1 DEF confirmVars, KeysInv, SigningInv, FileInv, ProcessKey
<1>2. ASSUME NEW t \in Threads, UNCHANGED keyVars, UNCHANGED <<tokens, recent>>,
             \A u \in Threads \ {t} : cmd'[u] = cmd[u],
             cmd'[t].at \notin Fetching \cup {"sign"}
      PROVE  KeysInv'
  <2>1. SigningInv'
    BY <1>2 DEF keyVars, KeysInv, SigningInv, ProcessKey, Fetching
  <2>2. place' = "file" /\ ~raced' => FileInv'
    BY <1>2 DEF keyVars, KeysInv, FileInv, Fetching
  <2> QED BY <1>2, <2>1, <2>2 DEF keyVars, KeysInv
<1>3. ASSUME NEW t \in Threads, CommandCall(t) PROVE KeysInv'
  <2>1. UNCHANGED keyVars /\ UNCHANGED <<tokens, recent>>
    BY <1>3 DEF CommandCall, PlanCommand, ExecuteCommand, tokenVars
  <2>2. \A u \in Threads \ {t} : cmd'[u] = cmd[u]
    BY <1>a, <1>3 DEF CommandCall, PlanCommand, ExecuteCommand
  <2>3. cmd'[t].at \in {"key", "refused"}
    BY <1>a, <1>3 DEF CommandCall, PlanCommand, ExecuteCommand
  <2> QED BY <1>2, <2>1, <2>2, <2>3 DEF Fetching
<1>4. ASSUME NEW t \in Threads, CommandStep(t) PROVE KeysInv'
  <2>1. CASE KeyAtHand(t) \/ ReadFile(t) \/ Truncate(t) \/ Fill(t) \/ CacheKey(t) \/ DrawInMemory(t)
    <3>1. raced' \in BOOLEAN /\ place' = place
      BY <2>1 DEF KeyAtHand, ReadFile, Truncate, Fill, CacheKey, DrawInMemory, keyVars, KeysInv
    <3>2. SigningInv'
      BY <2>1, SigningStep DEF KeysInv
    <3>3. place = "file" /\ ~raced' => FileInv'
      BY <2>1, FileStep DEF DrawInMemory
    <3> QED BY <3>1, <3>2, <3>3 DEF KeysInv
  <2>2. CASE Mint(t)
    <3> DEFINE token == [of |-> cmd[t].of, exp |-> cmd[t].ts + Ttl, key |-> cmd[t].key]
    <3>1. /\ tokens' = tokens \cup {token} /\ recent' = recent \cup {token}
          /\ token.key = ProcessKey /\ ProcessKey # 0
      BY <2>2 DEF Mint, KeysInv, SigningInv
    <3>2. \A u \in Threads : cmd'[u] = IF u = t THEN Rest ELSE cmd[u]
      BY <1>a, <2>2 DEF Mint, Done
    <3>3. UNCHANGED keyVars /\ ProcessKey' = ProcessKey
      BY <2>2 DEF Mint, keyVars, ProcessKey
    <3>4. SigningInv'
      BY <3>1, <3>2, <3>3 DEF keyVars, KeysInv, SigningInv, Rest, Fetching
    <3>5. ASSUME place' = "file", ~raced' PROVE FileInv'
      <4>1. FileInv /\ token.key = disk
        BY <3>1, <3>3, <3>5 DEF KeysInv, keyVars, FileInv, ProcessKey
      <4> QED BY <3>1, <3>2, <3>3, <4>1 DEF keyVars, FileInv, Rest
    <3> QED BY <3>3, <3>4, <3>5 DEF KeysInv, keyVars
  <2>3. CASE Verify(t) \/ Consume(t) \/ Refuse(t)
    <3>1. UNCHANGED keyVars /\ UNCHANGED <<tokens, recent>>
      BY <2>3 DEF Verify, Consume, Refuse, tokenVars
    <3>2. \A u \in Threads \ {t} : cmd'[u] = cmd[u]
      BY <1>a, <2>3 DEF Verify, Consume, Refuse, Proceeds, Done
    <3>3. cmd'[t].at \in {"consume", "refused", "rest", "key"}
      <4>1. CASE Verify(t)
        <5>1. cmd[t] \in Verifying
          BY <4>1, Busy DEF Verify, Keying
        <5> QED BY <1>a, <4>1, <5>1 DEF Verify, Proceeds, Verifying
      <4>2. CASE Consume(t)
        <5>1. cmd[t] \in Verifying
          BY <4>2, Busy DEF Consume
        <5> QED BY <1>a, <4>2, <5>1 DEF Consume, Proceeds, Verifying, Done, Rest
      <4>3. CASE Refuse(t)
        BY <1>a, <4>3 DEF Refuse, Done, Rest
      <4> QED BY <2>3, <4>1, <4>2, <4>3
    <3> QED BY <1>2, <3>1, <3>2, <3>3 DEF Fetching
  <2> QED BY <1>4, <2>1, <2>2, <2>3 DEF CommandStep
<1>5. CASE Tick
  BY <1>5 DEF Tick, keyVars, KeysInv, SigningInv, FileInv, ProcessKey
<1>6. CASE Forget
  <2>1. raced' \in BOOLEAN /\ (~raced' => ~raced)
    BY <1>6 DEF Forget, KeysInv
  <2>2. SigningInv'
    BY <1>6 DEF Forget, KeysInv, SigningInv, Rest, Fetching
  <2>3. place' = "file" /\ ~raced' => FileInv'
    BY <1>6, <2>1 DEF Forget, KeysInv, FileInv, Rest
  <2> QED BY <2>1, <2>2, <2>3 DEF KeysInv
<1>7. CASE UNCHANGED vars
  BY <1>1, <1>7 DEF vars
<1> QED BY <1>1, <1>3, <1>4, <1>5, <1>6, <1>7, CommandSteps

(* The tokens a process hands out stay good as long as it runs; kept in a  *)
(* file, also longer, but if two requests drew a key at once or one was    *)
(* not stored.                                                             *)
THEOREM KeysStay == Spec => []TokensStayGood
<1>1. Init => KeysInv
  <2> SUFFICES ASSUME Init PROVE KeysInv
    OBVIOUS
  <2>1. /\ cached = 0 /\ tokens = {} /\ recent = {} /\ raced \in BOOLEAN
        /\ \A t \in Threads : cmd[t] = Rest
    BY DEF Init, ConfirmInit
  <2> QED BY <2>1 DEF KeysInv, SigningInv, FileInv, Rest, Fetching
<1>2. KeysInv => TokensStayGood
  BY DEF KeysInv, SigningInv, FileInv, TokensStayGood, ProcessKey
<1> QED BY <1>1, <1>2, CommandTypesInit, CommandTypesStep, KeysStep, PTL DEF Spec
-----------------------------------------------------------------------------
(* The upgrade of the file.  The scripts have run up to where it is; a     *)
(* table is dropped when its copy has its rows, and the copy takes its     *)
(* place; if no exchange was cut short, a table that has the new key has   *)
(* all its rows.                                                           *)
Registry == "video_registry"
Reflection == "video_reflection"
Shapes == {"absent", "old", "owned", "keyed"}
Statements ==
    {"down", "script", "own_registry", "own_reflection", "inspect", "create_registry",
     "create_reflection", "make_copies", "copy", "commit", "drop_registry", "drop_reflection",
     "rename_registry", "rename_reflection", "mark", "init", "up"}
WithCopies == {"copy", "commit", "drop_registry", "drop_reflection", "rename_registry"}
Complete == Statements \ {"down", "script"}

FileTypes ==
    /\ version \in 0..SchemaVersion /\ at.do \in Statements
    /\ lib \in [Tables -> [shape : Shapes, rows : SUBSET {"old", "new"}]]
    /\ \A n \in Tables : lib[n].shape = "absent" => lib[n].rows = {}
    /\ \A n \in TableNames : lib[Copy(n)].shape \in {"absent", "keyed"}
    /\ staged \in [TableNames -> SUBSET {"old", "new"}]

ScriptsRun ==
    /\ made \subseteq 1..(SchemaVersion - 1)
    /\ \A v \in 1..(SchemaVersion - 1) : v <= version => v \in made
    /\ at.do = "script" => /\ at.of \in 1..(SchemaVersion - 1)
                           /\ \A v \in 1..(SchemaVersion - 1) : v < at.of => v \in made
    /\ at.do \in Complete => \A v \in 1..(SchemaVersion - 1) : v \in made
    /\ at.do \in {"init", "up"} => version = SchemaVersion
    /\ version = SchemaVersion => at.do \in {"down", "init", "up"}

CopiesReady ==
    /\ \A n \in TableNames : known[n] \subseteq lib[n].rows \cup lib[Copy(n)].rows
    /\ at.do \in WithCopies => lib[Copy(Registry)].shape = "keyed"
    /\ at.do \in WithCopies \cup {"rename_reflection"} => lib[Copy(Reflection)].shape = "keyed"
    /\ at.do = "commit" => \A n \in TableNames : staged[n] = lib[n].rows
    /\ at.do = "drop_registry" => lib[Registry].rows \subseteq lib[Copy(Registry)].rows
    /\ at.do \in {"drop_registry", "drop_reflection"}
          => lib[Reflection].rows \subseteq lib[Copy(Reflection)].rows
    /\ at.do \in {"drop_reflection", "rename_registry"} => lib[Registry].rows = {}
    /\ at.do \in {"rename_registry", "rename_reflection"} => lib[Reflection].rows = {}

NotTorn ==
    /\ ~Exchanging => /\ \A n \in TableNames : known[n] \subseteq lib[n].rows
                      /\ lib[Registry].shape \in {"keyed", "absent"}
                            => lib[Reflection].shape \in {lib[Registry].shape, "absent"}
    /\ at.do = "rename_reflection" =>
          lib[Registry].shape = "keyed" /\ known[Registry] \subseteq lib[Registry].rows
    /\ version = SchemaVersion \/ at.do \in {"create_reflection", "mark", "init", "up"}
          => lib[Registry].shape = "keyed"
    /\ at.do = "up" => lib[Reflection].shape = "keyed"

UpgradeInv == FileTypes /\ ScriptsRun /\ CopiesReady /\ (~torn => NotTorn)

(* The two tables, and their copies, have names of their own.              *)
LEMMA TablesAre ==
    /\ TableNames = {Registry, Reflection}
    /\ Copy(Registry) = "video_registry_v9" /\ Copy(Reflection) = "video_reflection_v9"
    /\ Tables = {"video_registry", "video_reflection", "video_registry_v9", "video_reflection_v9"}
BY DEF TableNames, Registry, Reflection, Copy, Tables

(* One step for each statement.                                            *)
LEMMA UpgradeInvStep == ASSUME UpgradeInv, UpgradeStep PROVE UpgradeInv'
<1> USE DEF Does, Library
<1>a. version \in Int /\ SchemaVersion = 9
  BY DEF UpgradeInv, FileTypes, SchemaVersion
<1>1. CASE Migrate
  <2>1. FileTypes'
    BY <1>1, <1>a, TablesAre
       DEF UpgradeInv, FileTypes, ScriptsRun, Migrate, From, Then, WithUserId, Empty, Absent,
           Shapes, Statements, NothingCopied, Registry, Reflection
  <2>2. ScriptsRun'
    BY <1>1, <1>a DEF UpgradeInv, FileTypes, ScriptsRun, Migrate, From, Then, Statements, Complete
  <2>3. CopiesReady'
    BY <1>1, TablesAre
       DEF UpgradeInv, FileTypes, CopiesReady, NotTorn, Migrate, From, Then, WithUserId, Empty,
           Absent, WithCopies, Registry, Reflection
  <2>4. ~torn' => NotTorn'
    BY <1>1, <1>a, TablesAre
       DEF UpgradeInv, FileTypes, ScriptsRun, CopiesReady, NotTorn, Exchanging, Migrate, From, Then,
           WithUserId, Empty, Absent, Registry, Reflection
  <2> QED BY <2>1, <2>2, <2>3, <2>4 DEF UpgradeInv
<1>2. CASE Script
  <2>1. FileTypes'
    BY <1>2, <1>a, TablesAre
       DEF UpgradeInv, FileTypes, ScriptsRun, Script, From, WithUserId, Empty, Absent, Shapes,
           Statements, NothingCopied, Registry, Reflection
  <2>2. ScriptsRun'
    <3>1. /\ at.of \in 1..8 /\ made' = made \cup {at.of} /\ version' = version /\ version < 9
          /\ made \subseteq 1..8 /\ at.do = "script" /\ From(at.of + 1)
          /\ \A v \in 1..8 : v <= version \/ v < at.of => v \in made
      BY <1>2, <1>a DEF UpgradeInv, FileTypes, ScriptsRun, Script
    <3>2. CASE at.of + 1 < 9
      <4>1. at'.do = "script" /\ at'.of = at.of + 1
        BY <1>a, <3>1, <3>2 DEF From
      <4>2. at'.of \in 1..8 /\ \A v \in 1..8 : v < at'.of => v \in made'
        BY <3>1, <3>2, <4>1
      <4>3. at'.do \notin Complete /\ at'.do \notin {"init", "up"}
        BY <4>1 DEF Complete
      <4>4. made' \subseteq 1..8 /\ \A v \in 1..8 : v <= version' => v \in made'
        BY <3>1
      <4>5. version' # 9
        BY <1>a, <3>1
      <4> QED BY <1>a, <4>2, <4>3, <4>4, <4>5 DEF ScriptsRun
    <3>3. CASE ~(at.of + 1 < 9)
      <4>1. at'.do = "own_registry" /\ at.of = 8
        BY <1>a, <3>1, <3>3 DEF From
      <4> QED BY <1>a, <3>1, <4>1 DEF ScriptsRun, Statements, Complete
    <3> QED BY <3>2, <3>3
  <2>3. CopiesReady'
    BY <1>2, TablesAre
       DEF UpgradeInv, FileTypes, CopiesReady, NotTorn, Script, From, WithUserId, Empty, Absent,
           WithCopies, Registry, Reflection
  <2>4. ~torn' => NotTorn'
    BY <1>2, <1>a, TablesAre
       DEF UpgradeInv, FileTypes, ScriptsRun, CopiesReady, NotTorn, Exchanging, Script, From,
           WithUserId, Empty, Absent, Registry, Reflection
  <2> QED BY <2>1, <2>2, <2>3, <2>4 DEF UpgradeInv
<1>3. CASE Own("video_registry", "own_registry", "own_reflection")
  <2>1. FileTypes'
    BY <1>3, <1>a, TablesAre
       DEF UpgradeInv, FileTypes, ScriptsRun, Own, Puts, Then, WithUserId, Empty, Absent, Shapes,
           Statements, NothingCopied, Registry, Reflection
  <2>2. ScriptsRun'
    BY <1>3, <1>a DEF UpgradeInv, FileTypes, ScriptsRun, Own, Puts, Then, Statements, Complete
  <2>3. CopiesReady'
    BY <1>3, TablesAre
       DEF UpgradeInv, FileTypes, CopiesReady, NotTorn, Own, Puts, Then, WithUserId, Empty, Absent,
           WithCopies, Registry, Reflection
  <2>4. ~torn' => NotTorn'
    BY <1>3, <1>a, TablesAre
       DEF UpgradeInv, FileTypes, ScriptsRun, CopiesReady, NotTorn, Exchanging, Own, Puts, Then,
           WithUserId, Empty, Absent, Registry, Reflection
  <2> QED BY <2>1, <2>2, <2>3, <2>4 DEF UpgradeInv
<1>4. CASE Own("video_reflection", "own_reflection", "inspect")
  <2>1. FileTypes'
    BY <1>4, <1>a, TablesAre
       DEF UpgradeInv, FileTypes, ScriptsRun, Own, Puts, Then, WithUserId, Empty, Absent, Shapes,
           Statements, NothingCopied, Registry, Reflection
  <2>2. ScriptsRun'
    BY <1>4, <1>a DEF UpgradeInv, FileTypes, ScriptsRun, Own, Puts, Then, Statements, Complete
  <2>3. CopiesReady'
    BY <1>4, TablesAre
       DEF UpgradeInv, FileTypes, CopiesReady, NotTorn, Own, Puts, Then, WithUserId, Empty, Absent,
           WithCopies, Registry, Reflection
  <2>4. ~torn' => NotTorn'
    BY <1>4, <1>a, TablesAre
       DEF UpgradeInv, FileTypes, ScriptsRun, CopiesReady, NotTorn, Exchanging, Own, Puts, Then,
           WithUserId, Empty, Absent, Registry, Reflection
  <2> QED BY <2>1, <2>2, <2>3, <2>4 DEF UpgradeInv
<1>5. CASE Inspect
  <2>1. FileTypes'
    BY <1>5, <1>a, TablesAre
       DEF UpgradeInv, FileTypes, ScriptsRun, Inspect, Then, Exists, Rebuilt, WithUserId, Empty,
           Absent, Shapes, Statements, NothingCopied, Registry, Reflection
  <2>2. ScriptsRun'
    BY <1>5, <1>a
       DEF UpgradeInv, FileTypes, ScriptsRun, Inspect, Then, Exists, Rebuilt, Statements, Complete
  <2>3. CopiesReady'
    BY <1>5, TablesAre
       DEF UpgradeInv, FileTypes, CopiesReady, NotTorn, Inspect, Then, Exists, Rebuilt, WithUserId,
           Empty, Absent, WithCopies, Registry, Reflection
  <2>4. ~torn' => NotTorn'
    BY <1>5, <1>a, TablesAre
       DEF UpgradeInv, FileTypes, ScriptsRun, CopiesReady, NotTorn, Exchanging, Inspect, Then,
           Exists, Rebuilt, WithUserId, Empty, Absent, Registry, Reflection
  <2> QED BY <2>1, <2>2, <2>3, <2>4 DEF UpgradeInv
<1>6. CASE Create("video_registry", "create_registry", "create_reflection")
  <2>1. FileTypes'
    BY <1>6, <1>a, TablesAre
       DEF UpgradeInv, FileTypes, ScriptsRun, Create, Exists, Puts, Then, WithUserId, Empty, Absent,
           Shapes, Statements, NothingCopied, Registry, Reflection
  <2>2. ScriptsRun'
    BY <1>6, <1>a
       DEF UpgradeInv, FileTypes, ScriptsRun, Create, Exists, Puts, Then, Statements, Complete
  <2>3. CopiesReady'
    BY <1>6, TablesAre
       DEF UpgradeInv, FileTypes, CopiesReady, NotTorn, Create, Exists, Puts, Then, WithUserId,
           Empty, Absent, WithCopies, Registry, Reflection
  <2>4. ~torn' => NotTorn'
    BY <1>6, <1>a, TablesAre
       DEF UpgradeInv, FileTypes, ScriptsRun, CopiesReady, NotTorn, Exchanging, Create, Exists,
           Puts, Then, WithUserId, Empty, Absent, Registry, Reflection
  <2> QED BY <2>1, <2>2, <2>3, <2>4 DEF UpgradeInv
<1>7. CASE Create("video_reflection", "create_reflection", "mark")
  <2>1. FileTypes'
    BY <1>7, <1>a, TablesAre
       DEF UpgradeInv, FileTypes, ScriptsRun, Create, Exists, Puts, Then, WithUserId, Empty, Absent,
           Shapes, Statements, NothingCopied, Registry, Reflection
  <2>2. ScriptsRun'
    BY <1>7, <1>a
       DEF UpgradeInv, FileTypes, ScriptsRun, Create, Exists, Puts, Then, Statements, Complete
  <2>3. CopiesReady'
    BY <1>7, TablesAre
       DEF UpgradeInv, FileTypes, CopiesReady, NotTorn, Create, Exists, Puts, Then, WithUserId,
           Empty, Absent, WithCopies, Registry, Reflection
  <2>4. ~torn' => NotTorn'
    BY <1>7, <1>a, TablesAre
       DEF UpgradeInv, FileTypes, ScriptsRun, CopiesReady, NotTorn, Exchanging, Create, Exists,
           Puts, Then, WithUserId, Empty, Absent, Registry, Reflection
  <2> QED BY <2>1, <2>2, <2>3, <2>4 DEF UpgradeInv
<1>8. CASE MakeCopies
  <2>1. FileTypes'
    BY <1>8, <1>a, TablesAre
       DEF UpgradeInv, FileTypes, ScriptsRun, MakeCopies, Then, Exists, WithUserId, Empty, Absent,
           Shapes, Statements, NothingCopied, Registry, Reflection
  <2>2. ScriptsRun'
    BY <1>8, <1>a
       DEF UpgradeInv, FileTypes, ScriptsRun, MakeCopies, Then, Exists, Statements, Complete
  <2>3. CopiesReady'
    BY <1>8, TablesAre
       DEF UpgradeInv, FileTypes, CopiesReady, NotTorn, MakeCopies, Then, Exists, WithUserId, Empty,
           Absent, WithCopies, Registry, Reflection
  <2>4. ~torn' => NotTorn'
    BY <1>8, <1>a, TablesAre
       DEF UpgradeInv, FileTypes, ScriptsRun, CopiesReady, NotTorn, Exchanging, MakeCopies, Then,
           Exists, WithUserId, Empty, Absent, Registry, Reflection
  <2> QED BY <2>1, <2>2, <2>3, <2>4 DEF UpgradeInv
<1>9. CASE CopyRows
  <2>1. FileTypes'
    BY <1>9, <1>a, TablesAre
       DEF UpgradeInv, FileTypes, ScriptsRun, CopyRows, Then, WithUserId, Empty, Absent, Shapes,
           Statements, NothingCopied, Registry, Reflection
  <2>2. ScriptsRun'
    BY <1>9, <1>a DEF UpgradeInv, FileTypes, ScriptsRun, CopyRows, Then, Statements, Complete
  <2>3. CopiesReady'
    BY <1>9, TablesAre
       DEF UpgradeInv, FileTypes, CopiesReady, NotTorn, CopyRows, Then, WithUserId, Empty, Absent,
           WithCopies, Registry, Reflection
  <2>4. ~torn' => NotTorn'
    BY <1>9, <1>a, TablesAre
       DEF UpgradeInv, FileTypes, ScriptsRun, CopiesReady, NotTorn, Exchanging, CopyRows, Then,
           WithUserId, Empty, Absent, Registry, Reflection
  <2> QED BY <2>1, <2>2, <2>3, <2>4 DEF UpgradeInv
<1>10. CASE CommitCopies
  <2>a. \A n \in TableNames : (CHOOSE m \in TableNames : Copy(n) = Copy(m)) = n
    BY TablesAre DEF Registry, Reflection
  <2>b. /\ lib' = [t \in Tables |-> lib'[t]]
        /\ \A n \in TableNames : /\ lib'[n] = lib[n]
                               /\ lib'[Copy(n)].shape = lib[Copy(n)].shape
                               /\ lib'[Copy(n)].rows = lib[Copy(n)].rows \cup staged[n]
                               /\ lib'[Copy(n)] \in [shape : Shapes, rows : SUBSET {"old", "new"}]
    BY <1>10, <2>a, TablesAre DEF CommitCopies, UpgradeInv, FileTypes, Registry, Reflection
  <2>c. /\ at.do = "commit" /\ at' = [do |-> "drop_registry"]
        /\ staged' = NothingCopied /\ UNCHANGED <<version, made, known, torn>>
    BY <1>10 DEF CommitCopies, Then
  <2>1. FileTypes'
    <3>1. lib' \in [Tables -> [shape : Shapes, rows : SUBSET {"old", "new"}]]
      <4>1. \A n \in TableNames : lib'[n] \in [shape : Shapes, rows : SUBSET {"old", "new"}]
        BY <2>b, TablesAre DEF UpgradeInv, FileTypes, Registry, Reflection
      <4>2. \A n \in Tables : lib'[n] \in [shape : Shapes, rows : SUBSET {"old", "new"}]
        BY <2>b, <4>1, TablesAre DEF Registry, Reflection
      <4> QED BY <2>b, <4>2
    <3>2. \A n \in Tables : lib'[n].shape = "absent" => lib'[n].rows = {}
      BY <2>b, <2>c, TablesAre
         DEF UpgradeInv, FileTypes, CopiesReady, WithCopies, Registry, Reflection
    <3>3. staged' \in [TableNames -> SUBSET {"old", "new"}]
      BY <2>c DEF NothingCopied
    <3> QED BY <2>b, <2>c, <3>1, <3>2, <3>3 DEF UpgradeInv, FileTypes, Statements
  <2>2. ScriptsRun'
    BY <2>c, <1>a DEF UpgradeInv, FileTypes, ScriptsRun, Statements, Complete
  <2>3. CopiesReady'
    BY <2>b, <2>c, TablesAre
       DEF UpgradeInv, FileTypes, CopiesReady, WithCopies, Registry, Reflection
  <2>4. ~torn' => NotTorn'
    BY <2>b, <2>c, <1>a, TablesAre
       DEF UpgradeInv, FileTypes, ScriptsRun, NotTorn, Exchanging, Registry, Reflection
  <2> QED BY <2>1, <2>2, <2>3, <2>4 DEF UpgradeInv
<1>11. CASE Drop("video_registry", "drop_registry", "drop_reflection")
  <2>1. FileTypes'
    BY <1>11, <1>a, TablesAre
       DEF UpgradeInv, FileTypes, ScriptsRun, Drop, Puts, Then, WithUserId, Empty, Absent, Shapes,
           Statements, NothingCopied, Registry, Reflection
  <2>2. ScriptsRun'
    BY <1>11, <1>a DEF UpgradeInv, FileTypes, ScriptsRun, Drop, Puts, Then, Statements, Complete
  <2>3. CopiesReady'
    BY <1>11, TablesAre
       DEF UpgradeInv, FileTypes, CopiesReady, NotTorn, Drop, Puts, Then, WithUserId, Empty, Absent,
           WithCopies, Registry, Reflection
  <2>4. ~torn' => NotTorn'
    BY <1>11, <1>a, TablesAre
       DEF UpgradeInv, FileTypes, ScriptsRun, CopiesReady, NotTorn, Exchanging, Drop, Puts, Then,
           WithUserId, Empty, Absent, Registry, Reflection
  <2> QED BY <2>1, <2>2, <2>3, <2>4 DEF UpgradeInv
<1>12. CASE Drop("video_reflection", "drop_reflection", "rename_registry")
  <2>1. FileTypes'
    BY <1>12, <1>a, TablesAre
       DEF UpgradeInv, FileTypes, ScriptsRun, Drop, Puts, Then, WithUserId, Empty, Absent, Shapes,
           Statements, NothingCopied, Registry, Reflection
  <2>2. ScriptsRun'
    BY <1>12, <1>a DEF UpgradeInv, FileTypes, ScriptsRun, Drop, Puts, Then, Statements, Complete
  <2>3. CopiesReady'
    BY <1>12, TablesAre
       DEF UpgradeInv, FileTypes, CopiesReady, NotTorn, Drop, Puts, Then, WithUserId, Empty, Absent,
           WithCopies, Registry, Reflection
  <2>4. ~torn' => NotTorn'
    BY <1>12, <1>a, TablesAre
       DEF UpgradeInv, FileTypes, ScriptsRun, CopiesReady, NotTorn, Exchanging, Drop, Puts, Then,
           WithUserId, Empty, Absent, Registry, Reflection
  <2> QED BY <2>1, <2>2, <2>3, <2>4 DEF UpgradeInv
<1>13. CASE Rename("video_registry", "rename_registry", "rename_reflection")
  <2>1. FileTypes'
    BY <1>13, <1>a, TablesAre
       DEF UpgradeInv, FileTypes, ScriptsRun, Rename, Then, WithUserId, Empty, Absent, Shapes,
           Statements, NothingCopied, Registry, Reflection
  <2>2. ScriptsRun'
    BY <1>13, <1>a DEF UpgradeInv, FileTypes, ScriptsRun, Rename, Then, Statements, Complete
  <2>3. CopiesReady'
    BY <1>13, TablesAre
       DEF UpgradeInv, FileTypes, CopiesReady, NotTorn, Rename, Then, WithUserId, Empty, Absent,
           WithCopies, Registry, Reflection
  <2>4. ~torn' => NotTorn'
    <3>1. /\ lib'[Registry] = lib[Copy(Registry)] /\ lib[Registry].rows = {}
          /\ lib[Copy(Registry)].shape = "keyed" /\ known[Registry] \subseteq lib[Copy(Registry)].rows
      BY <1>13, TablesAre
         DEF UpgradeInv, FileTypes, CopiesReady, WithCopies, Rename, Registry, Reflection
    <3>2. at'.do = "rename_reflection" /\ UNCHANGED <<version, known, torn>> /\ at.do = "rename_registry"
      BY <1>13 DEF Rename, Then
    <3> QED BY <1>a, <3>1, <3>2, TablesAre DEF UpgradeInv, ScriptsRun, NotTorn, Exchanging
  <2> QED BY <2>1, <2>2, <2>3, <2>4 DEF UpgradeInv
<1>14. CASE Rename("video_reflection", "rename_reflection", "mark")
  <2>1. FileTypes'
    BY <1>14, <1>a, TablesAre
       DEF UpgradeInv, FileTypes, ScriptsRun, Rename, Then, WithUserId, Empty, Absent, Shapes,
           Statements, NothingCopied, Registry, Reflection
  <2>2. ScriptsRun'
    BY <1>14, <1>a DEF UpgradeInv, FileTypes, ScriptsRun, Rename, Then, Statements, Complete
  <2>3. CopiesReady'
    BY <1>14, TablesAre
       DEF UpgradeInv, FileTypes, CopiesReady, NotTorn, Rename, Then, WithUserId, Empty, Absent,
           WithCopies, Registry, Reflection
  <2>4. ~torn' => NotTorn'
    BY <1>14, <1>a, TablesAre
       DEF UpgradeInv, FileTypes, ScriptsRun, CopiesReady, NotTorn, Exchanging, Rename, Then,
           WithUserId, Empty, Absent, Registry, Reflection
  <2> QED BY <2>1, <2>2, <2>3, <2>4 DEF UpgradeInv
<1>15. CASE Mark
  <2>1. FileTypes'
    BY <1>15, <1>a, TablesAre
       DEF UpgradeInv, FileTypes, ScriptsRun, Mark, Then, WithUserId, Empty, Absent, Shapes,
           Statements, NothingCopied, Registry, Reflection
  <2>2. ScriptsRun'
    BY <1>15, <1>a DEF UpgradeInv, FileTypes, ScriptsRun, Mark, Then, Statements, Complete
  <2>3. CopiesReady'
    BY <1>15, TablesAre
       DEF UpgradeInv, FileTypes, CopiesReady, NotTorn, Mark, Then, WithUserId, Empty, Absent,
           WithCopies, Registry, Reflection
  <2>4. ~torn' => NotTorn'
    BY <1>15, <1>a, TablesAre
       DEF UpgradeInv, FileTypes, ScriptsRun, CopiesReady, NotTorn, Exchanging, Mark, Then,
           WithUserId, Empty, Absent, Registry, Reflection
  <2> QED BY <2>1, <2>2, <2>3, <2>4 DEF UpgradeInv
<1>16. CASE InitSchema
  <2>1. FileTypes'
    BY <1>16, <1>a, TablesAre
       DEF UpgradeInv, FileTypes, ScriptsRun, InitSchema, Then, Exists, WithUserId, Empty, Absent,
           Shapes, Statements, NothingCopied, Registry, Reflection
  <2>2. ScriptsRun'
    BY <1>16, <1>a
       DEF UpgradeInv, FileTypes, ScriptsRun, InitSchema, Then, Exists, Statements, Complete
  <2>3. CopiesReady'
    BY <1>16, TablesAre
       DEF UpgradeInv, FileTypes, CopiesReady, NotTorn, InitSchema, Then, Exists, WithUserId, Empty,
           Absent, WithCopies, Registry, Reflection
  <2>4. ~torn' => NotTorn'
    BY <1>16, <1>a, TablesAre
       DEF UpgradeInv, FileTypes, ScriptsRun, CopiesReady, NotTorn, Exchanging, InitSchema, Then,
           Exists, WithUserId, Empty, Absent, Registry, Reflection
  <2> QED BY <2>1, <2>2, <2>3, <2>4 DEF UpgradeInv
<1>17. CASE UpsertVideo
  <2>1. FileTypes'
    BY <1>17, <1>a, TablesAre
       DEF UpgradeInv, FileTypes, ScriptsRun, UpsertVideo, WithUserId, Empty, Absent, Shapes,
           Statements, NothingCopied, Registry, Reflection
  <2>2. ScriptsRun'
    BY <1>17, <1>a DEF UpgradeInv, FileTypes, ScriptsRun, UpsertVideo, Statements, Complete
  <2>3. CopiesReady'
    BY <1>17, TablesAre
       DEF UpgradeInv, FileTypes, CopiesReady, NotTorn, UpsertVideo, WithUserId, Empty, Absent,
           WithCopies, Registry, Reflection
  <2>4. ~torn' => NotTorn'
    BY <1>17, <1>a, TablesAre
       DEF UpgradeInv, FileTypes, ScriptsRun, CopiesReady, NotTorn, Exchanging, UpsertVideo,
           WithUserId, Empty, Absent, Registry, Reflection
  <2> QED BY <2>1, <2>2, <2>3, <2>4 DEF UpgradeInv
<1>18. CASE Die
  <2>1. FileTypes'
    BY <1>18, <1>a, TablesAre
       DEF UpgradeInv, FileTypes, ScriptsRun, Die, Then, WithUserId, Empty, Absent, Shapes,
           Statements, NothingCopied, Registry, Reflection
  <2>2. ScriptsRun'
    BY <1>18, <1>a DEF UpgradeInv, FileTypes, ScriptsRun, Die, Then, Statements, Complete
  <2>3. CopiesReady'
    BY <1>18, TablesAre
       DEF UpgradeInv, FileTypes, CopiesReady, NotTorn, Die, Then, WithUserId, Empty, Absent,
           WithCopies, Registry, Reflection
  <2>4. ~torn' => NotTorn'
    BY <1>18, <1>a, TablesAre
       DEF UpgradeInv, FileTypes, ScriptsRun, CopiesReady, NotTorn, Exchanging, Die, Then,
           WithUserId, Empty, Absent, Registry, Reflection
  <2> QED BY <2>1, <2>2, <2>3, <2>4 DEF UpgradeInv
<1> QED
  BY <1>1, <1>2, <1>3, <1>4, <1>5, <1>6, <1>7, <1>8, <1>9, <1>10, <1>11, <1>12, <1>13, <1>14,
     <1>15, <1>16, <1>17, <1>18 DEF UpgradeStep

(* Every other step leaves the file alone.                                 *)
LEMMA UpgradeSteps ==
    ASSUME [Next]_vars
    PROVE  UpgradeStep \/ UNCHANGED upgradeVars
<1>1. CASE UNCHANGED vars
  BY <1>1 DEF vars
<1>2. ASSUME NEW T \in SUBSET Threads, RequestsEnd(T) PROVE UNCHANGED upgradeVars
  BY <1>2 DEF RequestsEnd
<1>3. CASE Next
  BY <1>3, <1>2 DEF Next, Answering, Routing, Rating, Crediting, Calling, Renewing, Emitting,
     Saving, Deriving, Commanding, Confirming, Cooling, Ageing, Reading, Subscribing, Ticking,
     Forgetting, Upgrading, Raise, Restart, OthersThanAnswers, OthersThanTokens,
     OthersThanInsight, OthersThanCommands
<1> QED BY <1>1, <1>3

LEMMA UpgradeKeeps == UpgradeInv /\ [Next]_vars => UpgradeInv'
<1>1. UpgradeInv /\ UNCHANGED upgradeVars => UpgradeInv'
  BY DEF upgradeVars, UpgradeInv, FileTypes, ScriptsRun, CopiesReady, NotTorn, Exchanging
<1> QED BY <1>1, UpgradeInvStep, UpgradeSteps

LEMMA UpgradeInvInit == Init => UpgradeInv
<1> SUFFICES ASSUME Init PROVE UpgradeInv
  OBVIOUS
<1>1. PICK old \in {Absent, [shape |-> IF version < 3 THEN "old" ELSE "owned", rows |-> {"old"}]} :
         lib = [n \in Tables |-> IF n \in TableNames THEN old ELSE Absent]
  BY DEF Init, UpgradeInit
<1>2. /\ version \in 0..(SchemaVersion - 1) /\ made = 1..version
      /\ staged = NothingCopied /\ at = [do |-> "down"]
      /\ known = [n \in TableNames |-> lib[n].rows] /\ torn = FALSE
  BY DEF Init, UpgradeInit
<1>3. FileTypes
  BY <1>1, <1>2, TablesAre
     DEF FileTypes, SchemaVersion, Absent, Shapes, Statements, NothingCopied, Registry, Reflection
<1>4. ScriptsRun
  BY <1>2 DEF ScriptsRun, SchemaVersion, Complete, Statements
<1>5. CopiesReady
  BY <1>2 DEF CopiesReady, WithCopies
<1>6. NotTorn
  BY <1>1, <1>2, TablesAre
     DEF NotTorn, Exchanging, SchemaVersion, Absent, Registry, Reflection
<1> QED BY <1>3, <1>4, <1>5, <1>6 DEF UpgradeInv

(* No row of the library is ever lost, and a program that is up has every  *)
(* table and all rows where it looks for them, however often it died on    *)
(* the way, unless it died in the middle of the exchange.                  *)
THEOREM LibraryKept == Spec => []UpgradesKeepTheLibrary
<1>1. UpgradeInv => UpgradesKeepTheLibrary
  <2> SUFFICES ASSUME UpgradeInv PROVE UpgradesKeepTheLibrary
    OBVIOUS
  <2>1. \A n \in TableNames : known[n] \subseteq lib[n].rows \cup lib[Copy(n)].rows
    BY DEF UpgradeInv, CopiesReady
  <2>2. ASSUME at.do = "up", ~torn
        PROVE  /\ version = SchemaVersion /\ made = 1..(SchemaVersion - 1)
               /\ \A n \in TableNames : lib[n].shape = "keyed" /\ known[n] \subseteq lib[n].rows
    BY <2>2, TablesAre DEF UpgradeInv, ScriptsRun, Complete, Statements, NotTorn, Exchanging
  <2> QED BY <2>1, <2>2 DEF UpgradesKeepTheLibrary
<1> QED BY <1>1, UpgradeInvInit, UpgradeKeeps, PTL DEF Spec

-----------------------------------------------------------------------------
(* Budgets.  A route was within its budget when a request chose it, and    *)
(* the requests that have chosen it and not yet entered their call are     *)
(* among the threads; whoever chooses it next finds what they have used.   *)
Elements(s) == {s[n] : n \in 1..Len(s)}
Pins == {"any"} \cup Routes
Lists == Seq(Routes) \ {<<>>}
Questions ==
    {Rest} \cup [at : {"choose"}, pin : Pins, left : Lists, chosen : Seq(Routes)]
        \cup [at : {"call"}, pin : Pins, left : Lists]
        \cup [at : {"record"}, by : Routes] \cup [at : {"interaction"}]
Tries(q, r) ==
    \/ q.at = "choose" /\ r \in Elements(q.chosen)
    \/ q.at = "call" /\ r \in Elements(q.left)
    \/ q.at = "record" /\ r = q.by
Trying(r) == {t \in Threads : Tries(route[t], r)}

RouteTypes ==
    /\ used \in [Routes -> Nat] /\ cooling \subseteq Routes /\ answered \in Nat
    /\ route \in [Threads -> Questions]
WithinBudget(r) == used[r] + Cardinality(Trying(r)) <= Budget[r] + Cardinality(Threads) - 1
RouteInv == RouteTypes /\ \A r \in Routes : WithinBudget(r)

LEMMA ThreadsAreCounted ==
    /\ Cardinality(Threads) \in Nat \ {0}
    /\ \A T \in SUBSET Threads :
          IsFiniteSet(T) /\ Cardinality(T) \in Nat /\ Cardinality(T) <= Cardinality(Threads)
<1>1. Cardinality(Threads) \in Nat \ {0}
  BY ThreadsAssumption, FS_CardinalityType, FS_EmptySet
<1>2. ASSUME NEW T \in SUBSET Threads
      PROVE  IsFiniteSet(T) /\ Cardinality(T) \in Nat /\ Cardinality(T) <= Cardinality(Threads)
  BY ThreadsAssumption, FS_Subset, FS_CardinalityType
<1> QED BY <1>1, <1>2

LEMMA BudgetsArePositive == \A r \in Routes : Budget[r] \in Nat \ {0}
BY BudgetAssumption DEF Routes

(* A list, what is left of it, and its first ones.                         *)
LEMMA ListsAre ==
    ASSUME NEW s \in Lists
    PROVE  /\ Head(s) \in Routes /\ Head(s) \in Elements(s) /\ Len(s) \in Nat \ {0}
           /\ Tail(s) \in Seq(Routes) /\ Elements(Tail(s)) \subseteq Elements(s)
           /\ Len(s) # 1 => Tail(s) \in Lists
           /\ Len(s) > 1 => Tail(s) \in Lists
           /\ Elements(s) \subseteq Routes
<1>1. s \in Seq(Routes) /\ s # <<>> /\ Len(s) \in Nat \ {0}
  BY EmptySeq DEF Lists
<1>2. Head(s) = s[1] /\ Head(s) \in Routes
  BY <1>1, HeadTailProperties
<1>3. /\ Tail(s) \in Seq(Routes) /\ Len(Tail(s)) = Len(s) - 1
      /\ \A i \in 1..Len(Tail(s)) : Tail(s)[i] = s[i + 1]
  BY <1>1, HeadTailProperties
<1>4. Elements(Tail(s)) \subseteq Elements(s)
  BY <1>1, <1>3 DEF Elements
<1>5. (Len(s) # 1 => Tail(s) # <<>>) /\ (Len(s) > 1 => Tail(s) # <<>>)
  BY <1>1, <1>3
<1>6. Elements(s) \subseteq Routes /\ Head(s) \in Elements(s)
  BY <1>1, <1>2 DEF Elements
<1> QED BY <1>1, <1>2, <1>3, <1>4, <1>5, <1>6 DEF Lists

LEMMA FirstOnes ==
    ASSUME NEW s \in Lists, NEW m \in 1..Len(s)
    PROVE  SubSeq(s, 1, m) \in Lists /\ Elements(SubSeq(s, 1, m)) \subseteq Elements(s)
<1>1. s \in Seq(Routes) /\ Len(s) \in Nat /\ m \in Int /\ 1 \in Int /\ \A i \in 1..m : s[i] \in Routes
  BY DEF Lists
<1>2. /\ SubSeq(s, 1, m) \in Seq(Routes) /\ Len(SubSeq(s, 1, m)) = m
      /\ \A i \in 1..m : SubSeq(s, 1, m)[i] = s[i]
  BY <1>1, SubSeqProperties
<1>3. SubSeq(s, 1, m) # <<>>
  BY <1>1, <1>2
<1> QED BY <1>1, <1>2, <1>3 DEF Lists, Elements

LEMMA OneMore ==
    ASSUME NEW s \in Seq(Routes), NEW r \in Routes
    PROVE  Append(s, r) \in Lists /\ Elements(Append(s, r)) = Elements(s) \cup {r}
<1>1. /\ Append(s, r) \in Seq(Routes) /\ Append(s, r) # <<>> /\ Len(Append(s, r)) = Len(s) + 1
      /\ \A i \in 1..Len(s) : Append(s, r)[i] = s[i]
      /\ Append(s, r)[Len(s) + 1] = r /\ Len(s) \in Nat
  BY AppendProperties
<1>2. \A i \in 1..(Len(s) + 1) : i \in 1..Len(s) \/ i = Len(s) + 1
  BY <1>1
<1>3. Elements(Append(s, r)) = Elements(s) \cup {r}
  BY <1>1, <1>2 DEF Elements
<1> QED BY <1>1, <1>3 DEF Lists

(* A request that goes on with routes it has tried before, or ends.        *)
LEMMA FewerTry ==
    ASSUME RouteInv, NEW r \in Routes, used'[r] = used[r], Trying(r)' \subseteq Trying(r)
    PROVE  WithinBudget(r)'
<1>1. /\ Cardinality(Trying(r)) \in Nat /\ Cardinality(Trying(r)') \in Nat
      /\ Cardinality(Trying(r)') <= Cardinality(Trying(r))
  <2>1. Trying(r) \in SUBSET Threads /\ Trying(r)' \in SUBSET Trying(r)
    BY DEF Trying
  <2> QED BY <2>1, ThreadsAreCounted, FS_Subset, FS_CardinalityType
<1> QED BY <1>1, ThreadsAreCounted, BudgetsArePositive DEF RouteInv, RouteTypes, WithinBudget

LEMMA OneGoesOn ==
    ASSUME RouteInv, NEW t \in Threads, NEW q \in Questions, route' = [route EXCEPT ![t] = q],
           used' = used, NEW r \in Routes, Tries(q, r) => Tries(route[t], r)
    PROVE  WithinBudget(r)'
<1>1. Trying(r)' \subseteq Trying(r)
  BY DEF Trying, RouteInv, RouteTypes
<1> QED BY <1>1, FewerTry

LEMMA RestTries == \A r \in Routes : ~Tries(Rest, r)
BY DEF Rest, Tries

LEMMA PreferenceIs == Preference \in Lists /\ \A r \in Routes : <<r>> \in Lists
<1>1. Preference \in Lists
  BY PreferenceAssumption DEF Lists
<1>2. ASSUME NEW r \in Routes PROVE <<r>> \in Lists
  BY <1>2 DEF Lists
<1> QED BY <1>1, <1>2

LEMMA RouteInvStep ==
    ASSUME RouteInv, NEW t \in Threads, Ask(t) \/ RouteStep(t)
    PROVE  RouteInv'
<1>a. route[t] \in Questions /\ RouteTypes
  BY DEF RouteInv, RouteTypes
<1>1. CASE Ask(t)
  <2>1. PICK q \in Questions : /\ route' = [route EXCEPT ![t] = q]
                               /\ \A r \in Routes : ~Tries(q, r)
    <3>1. PICK pin \in {"any"} \cup Routes :
             route' = [route EXCEPT ![t] =
               [at |-> "choose", pin |-> pin, left |-> IF pin = "any" THEN Preference ELSE <<pin>>,
                chosen |-> <<>>]]
      BY <1>1 DEF Ask
    <3> DEFINE q == [at |-> "choose", pin |-> pin,
                     left |-> IF pin = "any" THEN Preference ELSE <<pin>>, chosen |-> <<>>]
    <3>2. q \in Questions
      BY PreferenceIs DEF Questions, Pins
    <3>3. \A r \in Routes : ~Tries(q, r)
      BY DEF Tries, Elements
    <3> QED BY <3>1, <3>2, <3>3
  <2>2. UNCHANGED <<used, cooling, answered>>
    BY <1>1 DEF Ask
  <2>3. RouteTypes'
    BY <1>a, <2>1, <2>2 DEF RouteTypes
  <2>4. \A r \in Routes : WithinBudget(r)'
    BY <2>1, <2>2, OneGoesOn
  <2> QED BY <2>3, <2>4 DEF RouteInv
<1>2. CASE Consider(t)
  <2> DEFINE q == route[t]
             r == Head(q.left)
             fits == QuotaAvailable(r) /\ (q.pin = "any" => r \notin cooling)
             chosen == IF fits THEN Append(q.chosen, r) ELSE q.chosen
             some == IF Len(chosen) < MaxCalls THEN Len(chosen) ELSE MaxCalls
             next == IF Len(q.left) > 1
                     THEN [at |-> "choose", pin |-> q.pin, left |-> Tail(q.left), chosen |-> chosen]
                     ELSE IF chosen = <<>> THEN Rest
                     ELSE [at |-> "call", pin |-> q.pin, left |-> SubSeq(chosen, 1, some)]
  <2>1. /\ q.at = "choose" /\ route' = [route EXCEPT ![t] = next]
        /\ UNCHANGED <<used, cooling, answered>>
    BY <1>2 DEF Consider
  <2>2. q \in [at : {"choose"}, pin : Pins, left : Lists, chosen : Seq(Routes)]
    BY <1>a, <2>1 DEF Questions, Rest
  <2>3. /\ q.left \in Lists /\ q.chosen \in Seq(Routes) /\ q.pin \in Pins
        /\ r \in Routes /\ Len(q.left) \in Nat \ {0}
        /\ Len(q.left) > 1 => Tail(q.left) \in Lists
    BY <2>2, ListsAre
  <2>4. /\ chosen \in Seq(Routes) /\ Elements(chosen) \subseteq Elements(q.chosen) \cup {r}
        /\ ~fits => chosen = q.chosen
    BY <2>3, OneMore DEF Lists
  <2> HIDE DEF fits, chosen
  <2>5. chosen # <<>> => some \in 1..Len(chosen) /\ chosen \in Lists
    BY <2>4, PreferenceAssumption, EmptySeq DEF Lists
  <2>6. next \in Questions
    <3>1. CASE Len(q.left) > 1
      <4>1. Tail(q.left) \in Lists
        BY <2>3, <3>1, Zenon
      <4> HIDE DEF q
      <4> QED BY <2>3, <2>4, <3>1, <4>1 DEF Questions
    <3>2. CASE ~(Len(q.left) > 1) /\ chosen # <<>>
      <4>1. SubSeq(chosen, 1, some) \in Lists
        BY <2>5, <3>2, FirstOnes
      <4> HIDE DEF q, some
      <4> QED BY <2>3, <3>2, <4>1 DEF Questions
    <3> QED BY <3>1, <3>2 DEF Questions
  <2>7. ASSUME NEW p \in Routes, Tries(next, p) PROVE Tries(q, p) \/ (p = r /\ fits)
    <3>1. p \in Elements(chosen)
      <4>1. CASE Len(q.left) > 1
        BY <2>7, <4>1 DEF Tries
      <4>2. CASE ~(Len(q.left) > 1) /\ chosen # <<>>
        <5>1. p \in Elements(SubSeq(chosen, 1, some))
          BY <2>7, <4>2 DEF Tries
        <5> QED BY <2>5, <4>2, <5>1, FirstOnes
      <4> QED BY <2>7, <4>1, <4>2, RestTries
    <3> QED BY <2>1, <2>4, <3>1 DEF Tries
  <2> HIDE DEF next
  <2>8. RouteTypes'
    BY <1>a, <2>1, <2>6 DEF RouteTypes
  <2>9. ASSUME NEW p \in Routes PROVE WithinBudget(p)'
    <3>1. CASE fits /\ p = r
      <4>1. used[p] < Budget[p] /\ used'[p] = used[p] /\ used[p] \in Nat
        BY <1>a, <2>1, <3>1 DEF fits, QuotaAvailable, RouteTypes
      <4>2. Cardinality(Trying(p)') \in Nat /\ Cardinality(Trying(p)') <= Cardinality(Threads)
        BY ThreadsAreCounted DEF Trying
      <4> QED BY <4>1, <4>2, ThreadsAreCounted, BudgetsArePositive DEF WithinBudget
    <3>2. CASE ~(fits /\ p = r)
      BY <2>1, <2>6, <2>7, <3>2, OneGoesOn
    <3> QED BY <3>1, <3>2
  <2> QED BY <2>8, <2>9 DEF RouteInv
<1>3. CASE Answers(t) \/ CallFails(t) \/ DeadlineReached(t)
  <2>1. route[t] \in [at : {"call"}, pin : Pins, left : Lists]
    BY <1>a, <1>3 DEF Answers, CallFails, DeadlineReached, Questions, Rest
  <2>2. /\ Head(route[t].left) \in Routes /\ Head(route[t].left) \in Elements(route[t].left)
        /\ Elements(Tail(route[t].left)) \subseteq Elements(route[t].left)
        /\ Len(route[t].left) # 1 => Tail(route[t].left) \in Lists
    BY <2>1, ListsAre
  <2>3. PICK q \in Questions : /\ route' = [route EXCEPT ![t] = q]
                              /\ \A r \in Routes : Tries(q, r) => Tries(route[t], r)
    <3>1. CASE Answers(t)
      <4> DEFINE q == [at |-> "record", by |-> Head(route[t].left)]
      <4>1. q \in Questions
        BY <2>2 DEF Questions
      <4>2. \A r \in Routes : Tries(q, r) => Tries(route[t], r)
        BY <2>1, <2>2 DEF Tries
      <4> QED BY <3>1, <4>1, <4>2 DEF Answers
    <3>2. CASE CallFails(t) /\ route' # [route EXCEPT ![t] = Rest]
      <4> DEFINE q == [at |-> "call", pin |-> route[t].pin, left |-> Tail(route[t].left)]
      <4>1. Len(route[t].left) # 1 /\ route' = [route EXCEPT ![t] = q]
        BY <3>2 DEF CallFails
      <4>2. q \in Questions
        <5>1. Tail(route[t].left) \in Lists
          BY <2>2, <4>1, Zenon
        <5> QED BY <2>1, <5>1 DEF Questions
      <4>3. \A r \in Routes : Tries(q, r) => Tries(route[t], r)
        BY <2>1, <2>2 DEF Tries
      <4> QED BY <4>1, <4>2, <4>3
    <3>3. CASE route' = [route EXCEPT ![t] = Rest]
      BY <3>3, RestTries DEF Questions
    <3> QED BY <1>3, <3>1, <3>2, <3>3 DEF DeadlineReached
  <2>4. /\ UNCHANGED <<used, answered>>
        /\ cooling' \in {cooling, cooling \cup {Head(route[t].left)}}
    BY <1>3 DEF Answers, CallFails, DeadlineReached
  <2>5. RouteTypes'
    BY <1>a, <2>2, <2>3, <2>4 DEF RouteTypes
  <2>6. \A r \in Routes : WithinBudget(r)'
    BY <2>3, <2>4, OneGoesOn
  <2> QED BY <2>5, <2>6 DEF RouteInv
<1>4. CASE Record(t)
  <2> DEFINE q == [at |-> "interaction"]
  <2>1. /\ route[t].at = "record" /\ used' = [used EXCEPT ![route[t].by] = @ + 1]
        /\ route' = [route EXCEPT ![t] = q] /\ UNCHANGED <<cooling, answered>>
    BY <1>4 DEF Record
  <2>2. route[t].by \in Routes /\ q \in Questions /\ \A r \in Routes : ~Tries(q, r)
    BY <1>a, <2>1 DEF Questions, Rest, Tries
  <2>3. RouteTypes'
    BY <1>a, <2>1, <2>2 DEF RouteTypes
  <2>4. ASSUME NEW r \in Routes PROVE WithinBudget(r)'
    <3>1. Trying(r)' = Trying(r) \ {t}
      BY <1>a, <2>1, <2>2 DEF Trying, RouteTypes
    <3>2. CASE r = route[t].by
      <4>1. t \in Trying(r) /\ Trying(r) \in SUBSET Threads
        BY <2>1, <3>2 DEF Trying, Tries
      <4>2. Cardinality(Trying(r)') = Cardinality(Trying(r)) - 1 /\ Cardinality(Trying(r)) \in Nat
        BY <3>1, <4>1, ThreadsAreCounted, FS_RemoveElement
      <4>3. used'[r] = used[r] + 1 /\ used[r] \in Nat
        BY <1>a, <2>1, <3>2 DEF RouteTypes
      <4> QED BY <4>2, <4>3, ThreadsAreCounted, BudgetsArePositive DEF RouteInv, WithinBudget
    <3>3. CASE r # route[t].by
      BY <1>a, <2>1, <3>1, <3>3, FewerTry DEF RouteTypes
    <3> QED BY <3>2, <3>3
  <2> QED BY <2>3, <2>4 DEF RouteInv
<1>5. CASE RecordInteraction(t)
  <2>1. /\ route' = [route EXCEPT ![t] = Rest] /\ UNCHANGED <<used, cooling>>
        /\ answered' = answered + 1
    BY <1>5 DEF RecordInteraction
  <2>2. Rest \in Questions
    BY DEF Questions
  <2>3. RouteTypes'
    BY <1>a, <2>1, <2>2 DEF RouteTypes
  <2>4. \A r \in Routes : WithinBudget(r)'
    BY <2>1, <2>2, RestTries, OneGoesOn
  <2> QED BY <2>3, <2>4 DEF RouteInv
<1> QED BY <1>1, <1>2, <1>3, <1>4, <1>5 DEF RouteStep

-----------------------------------------------------------------------------
(* Credits.  Each credit a request has been promised and not yet been given*)
(* is a pair of its thread and a number; whoever is promised some next     *)
(* counts on the credits that were given, and not on those.                *)
Submissions ==
    {Rest} \cup [at : {"write", "upsert", "sum", "commit"}, answer : Nat, asked : {Quick, Survey},
                 length : BOOLEAN, seen : Nat, grant : 0..Survey]
PromisedTo(t) == {t} \X (1..submit[t].grant)
Promised == {x \in Threads \X (1..Survey) : submit[x[1]].at = "commit" /\ x[2] <= submit[x[1]].grant}
Racing == (Cardinality(Threads) - 1) * Survey

FeedbackTypes ==
    /\ submit \in [Threads -> Submissions] /\ credits \in Nat /\ lengths \in Nat /\ answered \in Nat
    /\ samples \in 0..lengths /\ given \subseteq 1..answered
    /\ \A t \in Threads : submit[t] # Rest =>
          submit[t].answer \in 1..answered /\ submit[t].seen \in 0..lengths
FeedbackInv ==
    /\ FeedbackTypes
    /\ local => /\ credits <= DailyCap /\ samples = lengths
                /\ \A t \in Threads : submit[t].at \in {"rest", "write"}
    /\ ~local => credits + Cardinality(Promised) <= DailyCap + Racing

LEMMA PromisesAreFinite ==
    \A P \in SUBSET (Threads \X (1..Survey)) : IsFiniteSet(P) /\ Cardinality(P) \in Nat
<1>1. IsFiniteSet(1..Survey)
  BY CreditsAssumption, FS_Interval
<1> QED BY <1>1, ThreadsAssumption, FS_Product, FS_Subset, FS_CardinalityType

LEMMA RacingIs ==
    /\ Racing \in Nat
    /\ \A t \in Threads : Cardinality((Threads \ {t}) \X (1..Survey)) = Racing
<1>1. Cardinality(Threads) \in Nat \ {0} /\ IsFiniteSet(1..Survey) /\ Cardinality(1..Survey) = Survey
  BY CreditsAssumption, FS_Interval, ThreadsAreCounted
<1>2. Racing \in Nat
  BY <1>1, CreditsAssumption DEF Racing
<1>3. ASSUME NEW t \in Threads
      PROVE  Cardinality((Threads \ {t}) \X (1..Survey)) = Racing
  <2>1. IsFiniteSet(Threads \ {t}) /\ Cardinality(Threads \ {t}) = Cardinality(Threads) - 1
    BY ThreadsAssumption, FS_RemoveElement
  <2>2. Cardinality((Threads \ {t}) \X (1..Survey))
           = Cardinality(Threads \ {t}) * Cardinality(1..Survey)
    BY <1>1, <2>1, FS_Product
  <2> QED BY <1>1, <2>1, <2>2 DEF Racing
<1> QED BY <1>2, <1>3

(* The credits promised to one.                                            *)
LEMMA OnesPromises ==
    ASSUME FeedbackTypes, NEW t \in Threads, NEW g \in 0..Survey
    PROVE  Cardinality({t} \X (1..g)) = g /\ IsFiniteSet({t} \X (1..g))
           /\ ({t} \X (1..g)) \subseteq Threads \X (1..Survey)
<1>1. IsFiniteSet(1..g) /\ Cardinality(1..g) = g /\ g \in Nat
  BY CreditsAssumption, FS_Interval
<1>2. IsFiniteSet({t}) /\ Cardinality({t}) = 1
  BY FS_Singleton
<1>3. Cardinality({t} \X (1..g)) = 1 * g /\ IsFiniteSet({t} \X (1..g))
  <2>1. /\ Cardinality({t} \X (1..g)) = Cardinality({t}) * Cardinality(1..g)
        /\ IsFiniteSet({t} \X (1..g))
    BY <1>1, <1>2, FS_Product
  <2> QED BY <1>1, <1>2, <2>1
<1>4. 1..g \subseteq 1..Survey
  BY CreditsAssumption
<1> QED BY <1>1, <1>3, <1>4

(* A step that promises and gives nothing.                                 *)
LEMMA NothingPromised ==
    ASSUME FeedbackInv, UNCHANGED <<local, credits>>, Promised' \subseteq Promised
    PROVE  ~local' => credits' + Cardinality(Promised') <= DailyCap + Racing
<1>1. Cardinality(Promised') \in Nat /\ Cardinality(Promised) \in Nat
      /\ Cardinality(Promised') <= Cardinality(Promised)
  <2>1. Promised \in SUBSET (Threads \X (1..Survey))
    BY DEF Promised
  <2>2. Promised' \in SUBSET Promised
    OBVIOUS
  <2>3. Promised' \in SUBSET (Threads \X (1..Survey))
    BY <2>1, <2>2
  <2> QED BY <2>1, <2>2, <2>3, PromisesAreFinite, FS_Subset
<1> QED BY <1>1, RacingIs, CreditsAssumption DEF FeedbackInv, FeedbackTypes

LEMMA NoPromise ==
    ASSUME FeedbackTypes, NEW t \in Threads, NEW q, q.at # "commit" \/ q.grant = 0,
           submit' = [submit EXCEPT ![t] = q]
    PROVE  Promised' \subseteq Promised
<1>1. ASSUME NEW x \in Promised' PROVE x \in Promised
  <2>1. x \in Threads \X (1..Survey) /\ submit'[x[1]].at = "commit" /\ x[2] <= submit'[x[1]].grant
    BY <1>1 DEF Promised
  <2>2. x[1] \in Threads /\ x[2] \in Nat \ {0}
    BY <2>1, CreditsAssumption
  <2>3. x[1] # t
    BY <2>1, <2>2 DEF FeedbackTypes
  <2>4. submit'[x[1]] = submit[x[1]]
    BY <2>2, <2>3 DEF FeedbackTypes
  <2> QED BY <2>1, <2>4 DEF Promised
<1> QED BY <1>1

LEMMA RewardsAre ==
    ASSUME NEW size \in {Quick, Survey}, NEW sum \in Nat
    PROVE  /\ Reward(size, sum) \in 0..Survey
           /\ sum <= DailyCap => sum + Reward(size, sum) <= DailyCap
           /\ sum >= DailyCap => Reward(size, sum) = 0
BY CreditsAssumption DEF Reward, LeastOf

(* The types, as one submission goes on.                                   *)
LEMMA OneSubmits ==
    ASSUME FeedbackTypes, NEW t \in Threads, NEW q \in Submissions,
           submit' = [submit EXCEPT ![t] = q], UNCHANGED <<given, credits, samples, lengths, answered>>,
           q # Rest => q.answer \in 1..answered /\ q.seen \in 0..lengths
    PROVE  FeedbackTypes'
BY DEF FeedbackTypes

LEMMA FeedbackInvStep ==
    ASSUME FeedbackInv, NEW t \in Threads, Submit(t) \/ FeedbackStep(t),
           local' = local, answered' = answered
    PROVE  FeedbackInv'
<1> DEFINE s == submit[t]
<1>a. /\ FeedbackTypes /\ s \in Submissions /\ credits \in Nat
      /\ s # Rest => s.answer \in 1..answered /\ s.seen \in 0..lengths
      /\ lengths \in Nat /\ samples \in 0..lengths /\ answered \in Nat
  BY DEF FeedbackInv, FeedbackTypes
<1>b. s # Rest => s.asked \in {Quick, Survey} /\ s.grant \in 0..Survey /\ s.length \in BOOLEAN
                  /\ s.at \in {"write", "upsert", "sum", "commit"}
  BY <1>a DEF Submissions
<1>1. CASE Submit(t)
  <2>1. PICK a \in 1..answered, size \in {Quick, Survey}, length \in BOOLEAN :
           submit' = [submit EXCEPT ![t] = [at |-> "write", answer |-> a, asked |-> size,
                                            length |-> length, seen |-> 0, grant |-> 0]]
    BY <1>1 DEF Submit
  <2> DEFINE q == [at |-> "write", answer |-> a, asked |-> size, length |-> length,
                   seen |-> 0, grant |-> 0]
  <2>2. /\ q \in Submissions /\ q.at = "write" /\ q.answer \in 1..answered /\ q.seen \in 0..lengths
        /\ UNCHANGED <<given, credits, samples, lengths>>
    BY <1>1, <1>a, CreditsAssumption DEF Submit, Submissions
  <2> HIDE DEF q
  <2>3. submit' = [submit EXCEPT ![t] = q]
    BY <2>1 DEF q
  <2>4. FeedbackTypes' /\ Promised' \subseteq Promised
    BY <1>a, <2>2, <2>3, OneSubmits, NoPromise
  <2> QED BY <1>a, <2>2, <2>3, <2>4, NothingPromised DEF FeedbackInv, FeedbackTypes
<1>2. CASE WriteLocally(t)
  <2>1. /\ local /\ s.at = "write" /\ s # Rest /\ submit' = [submit EXCEPT ![t] = Rest]
        /\ credits <= DailyCap /\ samples = lengths
    BY <1>2 DEF WriteLocally, FeedbackInv, Rest
  <2>2. \/ UNCHANGED <<given, credits, samples, lengths>>
        \/ /\ given' = given \cup {s.answer} /\ credits' = credits + Reward(s.asked, credits)
           /\ Learnt(s, samples)
    BY <1>2 DEF WriteLocally
  <2>3. credits' \in Nat /\ credits' <= DailyCap
    BY <1>a, <1>b, <2>1, <2>2, RewardsAre, CreditsAssumption
  <2>4. /\ lengths' \in Nat /\ samples' = lengths' /\ samples' \in 0..lengths' /\ lengths' >= lengths
    BY <1>a, <2>1, <2>2 DEF Learnt
  <2>5. given' \subseteq 1..answered'
    BY <1>a, <2>1, <2>2 DEF FeedbackTypes
  <2>6. /\ submit' \in [Threads -> Submissions]
        /\ \A u \in Threads : submit'[u] = IF u = t THEN Rest ELSE submit[u]
    BY <1>a, <2>1 DEF FeedbackTypes, Submissions
  <2>7. \A u \in Threads : submit'[u] # Rest =>
           submit'[u].answer \in 1..answered' /\ submit'[u].seen \in 0..lengths'
    BY <1>a, <2>4, <2>6 DEF FeedbackTypes
  <2>8. \A u \in Threads : submit'[u].at \in {"rest", "write"}
    BY <2>1, <2>6 DEF FeedbackInv, Rest
  <2> QED BY <1>a, <2>1, <2>3, <2>4, <2>5, <2>6, <2>7, <2>8 DEF FeedbackInv, FeedbackTypes
<1>3. CASE ReadLength(t) \/ UpsertLength(t)
  <2>1. /\ s # Rest /\ ~local /\ UNCHANGED <<given, credits, samples, lengths>>
        /\ \E step \in {"upsert", "sum"}, seen \in 0..lengths :
              submit' = [submit EXCEPT ![t] = Now(step, s, seen, 0)]
    <3>1. CASE ReadLength(t)
      <4>1. /\ s.at = "write" /\ ~local /\ submit' = [submit EXCEPT ![t] = Now("upsert", s, samples, 0)]
            /\ UNCHANGED <<given, credits, samples, lengths>>
        BY <3>1 DEF ReadLength
      <4>2. samples \in 0..lengths /\ s # Rest
        BY <1>a, <4>1 DEF Rest
      <4> QED BY <4>1, <4>2
    <3>2. CASE UpsertLength(t)
      <4>1. /\ s.at = "upsert" /\ submit' = [submit EXCEPT ![t] = Now("sum", s, s.seen, 0)]
            /\ UNCHANGED <<given, credits, samples, lengths>>
        BY <3>2 DEF UpsertLength
      <4>2. s # Rest /\ ~local
        BY <4>1 DEF Rest, FeedbackInv
      <4>3. s.seen \in 0..lengths
        BY <1>a, <4>2
      <4> QED BY <4>1, <4>2, <4>3
    <3> QED BY <1>3, <3>1, <3>2
  <2>2. PICK step \in {"upsert", "sum"}, seen \in 0..lengths :
           submit' = [submit EXCEPT ![t] = Now(step, s, seen, 0)]
    BY <2>1
  <2> DEFINE q == Now(step, s, seen, 0)
  <2>3. seen \in Nat /\ 0 \in 0..Survey /\ step \in {"write", "upsert", "sum", "commit"}
    BY <1>a, CreditsAssumption
  <2>4. q \in Submissions /\ q.at = step /\ q.answer = s.answer /\ q.seen = seen
    <3>1. s \in Submissions \ {Rest}
      BY <1>a, <2>1
    <3> HIDE DEF s
    <3> QED BY <2>3, <3>1 DEF Now, Submissions, Rest
  <2> HIDE DEF q
  <2>5. submit' = [submit EXCEPT ![t] = q]
    BY <2>2 DEF q
  <2>6. FeedbackTypes' /\ Promised' \subseteq Promised
    BY <1>a, <2>1, <2>4, <2>5, OneSubmits, NoPromise
  <2> QED BY <2>1, <2>6, NothingPromised DEF FeedbackInv
<1>4. CASE SumCredits(t)
  <2> DEFINE g == Reward(s.asked, credits)
             q == Now("commit", s, s.seen, g)
  <2>1. /\ s # Rest /\ ~local /\ UNCHANGED <<given, credits, samples, lengths>>
        /\ submit' = [submit EXCEPT ![t] = q]
    BY <1>4 DEF SumCredits, Rest, FeedbackInv
  <2>2. g \in 0..Survey /\ (credits <= DailyCap => credits + g <= DailyCap)
        /\ (credits >= DailyCap => g = 0)
    BY <1>a, <1>b, <2>1, RewardsAre
  <2> HIDE DEF g
  <2>3. q \in Submissions /\ q.at = "commit" /\ q.answer = s.answer /\ q.seen = s.seen /\ q.grant = g
    <3>1. s.seen \in Nat /\ "commit" \in {"write", "upsert", "sum", "commit"}
      BY <1>a, <2>1
    <3>2. s \in Submissions \ {Rest}
      BY <1>a, <2>1
    <3> HIDE DEF s
    <3> QED BY <2>2, <3>1, <3>2 DEF Now, Submissions, Rest
  <2> HIDE DEF q
  <2>4. FeedbackTypes'
    BY <1>a, <2>1, <2>3, OneSubmits
  <2>5. CASE g = 0
    <3>1. Promised' \subseteq Promised
      BY <1>a, <2>1, <2>3, <2>5, NoPromise
    <3> QED BY <2>1, <2>4, <3>1, NothingPromised DEF FeedbackInv
  <2>6. CASE g # 0
    <3> DEFINE theirs == (Threads \ {t}) \X (1..Survey)
               mine == {t} \X (1..g)
    <3>1. Promised' \subseteq theirs \cup mine
      <4>1. ASSUME NEW x \in Promised' PROVE x \in theirs \cup mine
        <5>1. x \in Threads \X (1..Survey) /\ x[2] <= submit'[x[1]].grant
          BY <4>1 DEF Promised
        <5>2. CASE x[1] = t
          <6>1. x[2] \in 1..g
            BY <2>1, <2>2, <2>3, <5>1, <5>2, CreditsAssumption DEF FeedbackInv, FeedbackTypes
          <6> QED BY <5>1, <5>2, <6>1
        <5>3. CASE x[1] # t
          BY <5>1, <5>3
        <5> QED BY <5>2, <5>3
      <4> QED BY <4>1
    <3>2. /\ IsFiniteSet(theirs) /\ Cardinality(theirs) = Racing
          /\ IsFiniteSet(mine) /\ Cardinality(mine) = g
      <4>1. theirs \in SUBSET (Threads \X (1..Survey))
        OBVIOUS
      <4> QED BY <1>a, <2>2, <4>1, RacingIs, OnesPromises, PromisesAreFinite
    <3> HIDE DEF theirs, mine
    <3>3. /\ IsFiniteSet(theirs \cup mine) /\ Cardinality(theirs \cap mine) \in Nat
          /\ Cardinality(theirs \cup mine) = Racing + g - Cardinality(theirs \cap mine)
      <4>1. IsFiniteSet(theirs \cap mine)
        BY <3>2, FS_Intersection
      <4> QED BY <3>2, <4>1, FS_Union, FS_CardinalityType
    <3>4. Cardinality(Promised') \in Nat /\ Cardinality(Promised') <= Cardinality(theirs \cup mine)
      <4>1. Promised' \in SUBSET (theirs \cup mine)
        BY <3>1
      <4> QED BY <3>3, <4>1, FS_Subset, FS_CardinalityType
    <3>5. credits' + Cardinality(Promised') <= DailyCap + Racing
      <4>1. Cardinality(Promised') <= Racing + g
        BY <2>2, <3>3, <3>4, RacingIs
      <4>2. credits + g <= DailyCap
        BY <1>a, <2>2, <2>6, CreditsAssumption
      <4> QED BY <1>a, <2>1, <2>2, <3>4, <4>1, <4>2, RacingIs, CreditsAssumption
    <3> QED BY <2>1, <2>4, <3>5 DEF FeedbackInv
  <2> QED BY <2>5, <2>6
<1>5. CASE CommitFeedback(t)
  <2>1. /\ s # Rest /\ s.at = "commit" /\ ~local /\ given' = given \cup {s.answer}
        /\ credits' = credits + s.grant /\ Learnt(s, s.seen)
        /\ submit' = [submit EXCEPT ![t] = Rest]
    BY <1>5 DEF CommitFeedback, Rest, FeedbackInv
  <2>2. /\ lengths' \in Nat /\ samples' \in 0..lengths' /\ lengths' >= lengths
    BY <1>a, <1>b, <2>1 DEF Learnt
  <2>3. given' \subseteq 1..answered'
    BY <1>a, <2>1 DEF FeedbackTypes
  <2>4. /\ submit' \in [Threads -> Submissions]
        /\ \A u \in Threads : submit'[u] = IF u = t THEN Rest ELSE submit[u]
    BY <1>a, <2>1 DEF FeedbackTypes, Submissions
  <2>5. \A u \in Threads : submit'[u] # Rest =>
           submit'[u].answer \in 1..answered' /\ submit'[u].seen \in 0..lengths'
    BY <1>a, <2>2, <2>4 DEF FeedbackTypes
  <2>6. credits' \in Nat
    BY <1>a, <1>b, <2>1, CreditsAssumption
  <2>7. FeedbackTypes'
    BY <1>a, <2>2, <2>3, <2>4, <2>5, <2>6 DEF FeedbackTypes
  <2> DEFINE mine == {t} \X (1..s.grant)
  <2>8. Cardinality(mine) = s.grant /\ IsFiniteSet(mine) /\ mine \subseteq Threads \X (1..Survey)
    BY <1>a, <1>b, <2>1, OnesPromises
  <2>9. mine \subseteq Promised
    <3>1. ASSUME NEW x \in mine PROVE x \in Promised
      <4>1. x \in Threads \X (1..Survey) /\ x[1] = t /\ x[2] \in 1..s.grant
        BY <2>8, <3>1
      <4> QED BY <1>b, <2>1, <4>1 DEF Promised
    <3> QED BY <3>1
  <2>10. Promised' \subseteq Promised \ mine
    <3>1. ASSUME NEW x \in Promised' PROVE x \in Promised /\ x \notin mine
      <4>1. x \in Threads \X (1..Survey) /\ submit'[x[1]].at = "commit" /\ x[1] \in Threads
        BY <3>1 DEF Promised
      <4>2. x[1] # t
        BY <2>4, <4>1 DEF Rest
      <4>3. x \in Promised
        BY <1>a, <2>1, NoPromise, <3>1 DEF Rest
      <4> QED BY <4>2, <4>3
    <3> QED BY <3>1
  <2> HIDE DEF mine
  <2>11. /\ IsFiniteSet(Promised \ mine)
         /\ Cardinality(Promised \ mine) = Cardinality(Promised) - s.grant
    <3>1. IsFiniteSet(Promised)
      BY PromisesAreFinite DEF Promised
    <3>2. Promised \cap mine = mine
      BY <2>9
    <3>3. Cardinality(Promised \cap mine) = s.grant
      BY <2>8, <3>2
    <3>4. /\ IsFiniteSet(Promised \ mine)
          /\ Cardinality(Promised \ mine)
                = Cardinality(Promised) - Cardinality(Promised \cap mine)
      BY <3>1, FS_Difference
    <3> QED BY <3>3, <3>4
  <2>12. Cardinality(Promised') \in Nat /\ Cardinality(Promised') <= Cardinality(Promised) - s.grant
    <3>1. Promised' \in SUBSET (Promised \ mine)
      BY <2>10
    <3> QED BY <2>11, <3>1, FS_Subset, FS_CardinalityType
  <2>13. Cardinality(Promised) \in Nat
    BY PromisesAreFinite DEF Promised
  <2>14. credits' + Cardinality(Promised') <= DailyCap + Racing
    BY <1>a, <1>b, <2>1, <2>12, <2>13, RacingIs, CreditsAssumption DEF FeedbackInv
  <2> QED BY <2>1, <2>7, <2>14 DEF FeedbackInv
<1> QED BY <1>1, <1>2, <1>3, <1>4, <1>5 DEF FeedbackStep

-----------------------------------------------------------------------------
(* What changes the budgets and the credits: the questions, the feedback,  *)
(* and the requests that end.                                              *)
AnswersVars == <<local, routeVars, feedbackVars>>
LEMMA AnswersSteps ==
    ASSUME [Next]_vars
    PROVE  \/ UNCHANGED AnswersVars
           \/ \E t \in Threads : (Ask(t) \/ RouteStep(t)) /\ UNCHANGED <<local, feedbackVars>>
           \/ \E t \in Threads : (Submit(t) \/ FeedbackStep(t)) /\ UNCHANGED <<local, routeVars>>
           \/ CooledDown /\ UNCHANGED <<local, feedbackVars>>
           \/ /\ \E T \in SUBSET Threads : route' = Ends(route, T) /\ submit' = Ends(submit, T)
              /\ cooling' \in {cooling, {}}
              /\ UNCHANGED <<local, used, answered, given, credits, samples, lengths>>
<1>1. CASE UNCHANGED vars
  BY <1>1 DEF vars, AnswersVars
<1>2. ASSUME NEW t \in Threads, Answering(t) \/ Routing(t)
      PROVE  (Ask(t) \/ RouteStep(t)) /\ UNCHANGED <<local, feedbackVars>>
  BY <1>2 DEF Answering, Routing, Only
<1>3. ASSUME NEW t \in Threads, Rating(t) \/ Crediting(t)
      PROVE  (Submit(t) \/ FeedbackStep(t)) /\ UNCHANGED <<local, routeVars>>
  BY <1>3 DEF Rating, Crediting, Only
<1>4. CASE Cooling
  BY <1>4 DEF Cooling, Only
<1>5. ASSUME NEW t \in Threads,
             Calling(t) \/ Renewing(t) \/ Emitting(t) \/ Saving(t) \/ Deriving(t)
               \/ Commanding(t) \/ Confirming(t)
      PROVE  UNCHANGED AnswersVars
  BY <1>5 DEF Calling, Renewing, Emitting, Saving, Deriving, Commanding, Confirming, Only,
     OthersThanTokens, OthersThanInsight, OthersThanCommands, AnswersVars
<1>6. CASE Ageing \/ Reading \/ Subscribing \/ Ticking \/ Forgetting \/ Upgrading
  BY <1>6 DEF Ageing, Reading, Subscribing, Ticking, Forgetting, Upgrading, Only,
     OthersThanTokens, OthersThanCommands, OthersThanUpgrade, AnswersVars
<1>7. ASSUME NEW T \in SUBSET Threads, RequestsEnd(T)
      PROVE  /\ route' = Ends(route, T) /\ submit' = Ends(submit, T)
             /\ UNCHANGED <<local, used, answered, given, credits, samples, lengths>>
  BY <1>7 DEF RequestsEnd
<1>8. CASE Raise
  BY <1>7, <1>8 DEF Raise
<1>9. CASE Restart
  BY <1>7, <1>9 DEF Restart
<1> QED BY <1>1, <1>2, <1>3, <1>4, <1>5, <1>6, <1>8, <1>9 DEF Next

LEMMA AnswersInvStep == RouteInv /\ FeedbackInv /\ [Next]_vars => RouteInv' /\ FeedbackInv'
<1> SUFFICES ASSUME RouteInv, FeedbackInv, [Next]_vars PROVE RouteInv' /\ FeedbackInv'
  OBVIOUS
<1>a. RouteTypes /\ FeedbackTypes
  BY DEF RouteInv, FeedbackInv
<1>1. CASE UNCHANGED AnswersVars
  <2>1. UNCHANGED <<local, used, cooling, answered, route, given, credits, samples, lengths, submit>>
    BY <1>1 DEF AnswersVars, routeVars, feedbackVars
  <2>2. RouteInv'
    BY <2>1 DEF RouteInv, RouteTypes, WithinBudget, Trying
  <2>3. FeedbackInv'
    BY <2>1 DEF FeedbackInv, FeedbackTypes, Promised
  <2> QED BY <2>2, <2>3
<1>2. ASSUME NEW t \in Threads, Ask(t) \/ RouteStep(t), UNCHANGED <<local, feedbackVars>>
      PROVE  RouteInv' /\ FeedbackInv'
  <2>1. answered' \in {answered, answered + 1}
    BY <1>2 DEF Ask, RouteStep, Consider, Answers, CallFails, DeadlineReached, Record,
       RecordInteraction
  <2>2. UNCHANGED <<local, given, credits, samples, lengths, submit>>
    BY <1>2 DEF feedbackVars
  <2>3. answered' \in Nat /\ 1..answered \subseteq 1..answered'
    BY <1>a, <2>1 DEF RouteTypes
  <2>4. FeedbackTypes'
    BY <1>a, <2>2, <2>3 DEF FeedbackTypes
  <2>5. FeedbackInv'
    BY <2>2, <2>4 DEF FeedbackInv, Promised
  <2> QED BY <1>2, <2>5, RouteInvStep
<1>3. ASSUME NEW t \in Threads, Submit(t) \/ FeedbackStep(t), UNCHANGED <<local, routeVars>>
      PROVE  RouteInv' /\ FeedbackInv'
  <2>1. RouteInv'
    BY <1>3 DEF routeVars, RouteInv, RouteTypes, WithinBudget, Trying
  <2>2. local' = local /\ answered' = answered
    BY <1>3 DEF routeVars
  <2> QED BY <1>3, <2>1, <2>2, FeedbackInvStep
<1>4. CASE CooledDown /\ UNCHANGED <<local, feedbackVars>>
  <2>1. /\ cooling' \subseteq cooling
        /\ UNCHANGED <<local, used, answered, route, given, credits, samples, lengths, submit>>
    BY <1>4 DEF CooledDown, feedbackVars
  <2>2. RouteInv'
    BY <2>1 DEF RouteInv, RouteTypes, WithinBudget, Trying
  <2>3. FeedbackInv'
    BY <2>1 DEF FeedbackInv, FeedbackTypes, Promised
  <2> QED BY <2>2, <2>3
<1>5. ASSUME NEW T \in SUBSET Threads, route' = Ends(route, T), submit' = Ends(submit, T),
             cooling' \in {cooling, {}},
             UNCHANGED <<local, used, answered, given, credits, samples, lengths>>
      PROVE  RouteInv' /\ FeedbackInv'
  <2>1. \A t \in Threads : /\ route'[t] = IF t \in T THEN Rest ELSE route[t]
                           /\ submit'[t] = IF t \in T THEN Rest ELSE submit[t]
    BY <1>5 DEF Ends
  <2>2. /\ route' \in [Threads -> Questions] /\ submit' \in [Threads -> Submissions]
    BY <1>a, <1>5 DEF Ends, RouteTypes, FeedbackTypes, Questions, Submissions
  <2>3. RouteTypes'
    BY <1>a, <1>5, <2>2 DEF RouteTypes
  <2>4. ASSUME NEW r \in Routes PROVE WithinBudget(r)'
    <3>1. Trying(r)' \subseteq Trying(r)
      BY <2>1, RestTries DEF Trying
    <3> QED BY <1>5, <3>1, FewerTry
  <2>5. FeedbackTypes'
    BY <1>a, <1>5, <2>1, <2>2 DEF FeedbackTypes
  <2>6. Promised' \subseteq Promised
    <3>1. ASSUME NEW x \in Promised' PROVE x \in Promised
      <4>1. /\ x \in Threads \X (1..Survey) /\ x[1] \in Threads
            /\ submit'[x[1]].at = "commit" /\ x[2] <= submit'[x[1]].grant
        BY <3>1 DEF Promised
      <4>2. submit'[x[1]] = submit[x[1]]
        BY <2>1, <4>1 DEF Rest
      <4> QED BY <4>1, <4>2 DEF Promised
    <3> QED BY <3>1
  <2>7. ~local' => credits' + Cardinality(Promised') <= DailyCap + Racing
    BY <1>5, <2>6, NothingPromised
  <2>8. local' => /\ credits' <= DailyCap /\ samples' = lengths'
                  /\ \A t \in Threads : submit'[t].at \in {"rest", "write"}
    BY <1>5, <2>1 DEF FeedbackInv, Rest
  <2> QED BY <2>3, <2>4, <2>5, <2>7, <2>8 DEF RouteInv, FeedbackInv
<1> QED BY <1>1, <1>2, <1>3, <1>4, <1>5, AnswersSteps

LEMMA AnswersInvInit == Init => RouteInv /\ FeedbackInv
<1> SUFFICES ASSUME Init PROVE RouteInv /\ FeedbackInv
  OBVIOUS
<1>1. /\ used = [r \in Routes |-> 0] /\ cooling = {} /\ answered \in {0, Earlier}
      /\ route = [t \in Threads |-> Rest] /\ given = {} /\ credits = 0 /\ samples = 0
      /\ lengths = 0 /\ submit = [t \in Threads |-> Rest] /\ local \in BOOLEAN
  BY DEF Init, RoutingInit, FeedbackInit
<1>2. answered \in Nat
  BY <1>1, PreferenceAssumption
<1>3. RouteTypes /\ FeedbackTypes
  BY <1>1, <1>2 DEF RouteTypes, FeedbackTypes, Questions, Submissions
<1>4. ASSUME NEW r \in Routes PROVE WithinBudget(r)
  <2>1. Trying(r) = {}
    BY <1>1, RestTries DEF Trying
  <2> QED BY <1>1, <2>1, FS_EmptySet, ThreadsAreCounted, BudgetsArePositive DEF WithinBudget
<1>5. Promised = {}
  BY <1>1 DEF Promised, Rest
<1>6. credits + Cardinality(Promised) <= DailyCap + Racing /\ credits <= DailyCap
  BY <1>1, <1>5, FS_EmptySet, RacingIs, CreditsAssumption
<1>7. \A t \in Threads : submit[t].at \in {"rest", "write"}
  BY <1>1 DEF Rest
<1> QED BY <1>1, <1>3, <1>4, <1>6, <1>7 DEF RouteInv, FeedbackInv

(* The budgets of the routes and the daily cap of credits are exceeded by  *)
(* no more than what the other threads had under way, for any number of    *)
(* threads and however long it goes on; in SQLite the cap never is.        *)
THEOREM SpendingHolds == Spec => []SpendingStaysInBounds
<1>1. RouteInv /\ FeedbackInv /\ local \in BOOLEAN => SpendingStaysInBounds
  <2> SUFFICES ASSUME RouteInv, FeedbackInv, local \in BOOLEAN PROVE SpendingStaysInBounds
    OBVIOUS
  <2>1. ASSUME NEW r \in Routes PROVE used[r] <= Budget[r] + (Cardinality(Threads) - 1)
    <3>1. Cardinality(Trying(r)) \in Nat
      BY ThreadsAreCounted DEF Trying
    <3>2. used[r] + Cardinality(Trying(r)) <= Budget[r] + Cardinality(Threads) - 1
      BY DEF RouteInv, WithinBudget
    <3> QED BY <3>1, <3>2, ThreadsAreCounted, BudgetsArePositive DEF RouteInv, RouteTypes
  <2>2. credits <= DailyCap + (IF local THEN 0 ELSE Cardinality(Threads) - 1) * Survey
    <3>1. CASE local
      <4>1. 0 * Survey = 0
        BY CreditsAssumption
      <4> QED BY <3>1, <4>1, CreditsAssumption DEF FeedbackInv, FeedbackTypes
    <3>2. CASE ~local
      <4>1. Cardinality(Promised) \in Nat
        BY PromisesAreFinite DEF Promised
      <4>2. credits + Cardinality(Promised) <= DailyCap + Racing
        BY <3>2 DEF FeedbackInv
      <4>3. credits <= DailyCap + Racing
        BY <4>1, <4>2, RacingIs, CreditsAssumption DEF FeedbackInv, FeedbackTypes
      <4> QED BY <3>2, <4>3 DEF Racing
    <3> QED BY <3>1, <3>2
  <2>3. local => samples = lengths
    BY DEF FeedbackInv
  <2> QED BY <2>1, <2>2, <2>3 DEF SpendingStaysInBounds
<1>2. Init => local \in BOOLEAN
  BY DEF Init
<1>3. local \in BOOLEAN /\ [Next]_vars => (local \in BOOLEAN)'
  BY LocalStays
<1> QED BY <1>1, <1>2, <1>3, AnswersInvInit, AnswersInvStep, PTL DEF Spec

-----------------------------------------------------------------------------
(* The index.  An indexing that no deletion has touched has linked the     *)
(* topics it is past; of two of them, or of one and a video that is        *)
(* indexed, one will come to the other as long as there is no edge.  The   *)
(* topics they share are those that both look for.                         *)
Steps == {"topics", "creator", "peers", "edges", "concepts"}
IsJob(q) ==
    /\ q = Job(q.at, q.video, q.left, q.row, q.found, q.peers, q.whole)
    /\ q.at \in Steps /\ q.whole \in BOOLEAN
    /\ q.at # "concepts" => q.video \in Videos
    /\ q.video \in Videos \cup {""}
    /\ q.at = "topics" => q.left \subseteq Names(q.video)
                          /\ (q.row # <<>> => q.row[2] \in Names(q.video))
Removals == [at : {"video", "links"}, video : Videos]
Fine(J) ==
    /\ J = [t \in Threads |-> J[t]]
    /\ \A t \in Threads : J[t] = Rest \/ J[t] \in Removals \/ IsJob(J[t])
InsightTypes ==
    /\ saved \subseteq Videos /\ capsules \subseteq Videos /\ indexed \subseteq Videos
    /\ links \subseteq (UNION {Names(v) : v \in Videos}) \X Videos
    /\ Fine(job)

IsIndexing(q) == q.at \in Steps /\ q.video \in Videos \ {""} /\ q.whole
Shared(v, w) == Range(TopicsOf[v]) \cap Range(TopicsOf[w]) \cap LookedFor(v) \cap LookedFor(w)
(* There is an edge among the rows R.                                      *)
Edge(v, w, R) == {<<"same_topic", v, w>>, <<"same_topic", w, v>>} \cap R # {}
LinkedUp(v, L) == \A n \in Names(v) : <<n, v>> \in L
(* The names of its video that an indexing has yet to link.                *)
ToLink(q) == q.left \cup (IF q.row = <<>> THEN {} ELSE {q.row[2]})
(* An indexing will come to a video that shares a topic with its own.      *)
ComesTo(q, w) ==
    \/ q.at \in {"topics", "creator"}
    \/ q.at = "peers" /\ (w \in q.peers \/ Shared(q.video, w) \cap q.left # {})
    \/ q.at = "edges" /\ (w \in q.left \/ q.row = <<"same_topic", q.video, w>>)

Links(q, L) ==
    IF q.at = "topics" THEN \A n \in Names(q.video) \ ToLink(q) : <<n, q.video>> \in L
    ELSE LinkedUp(q.video, L)
AllLinked(J, X, L) ==
    /\ \A v \in X : LinkedUp(v, L)
    /\ \A t \in Threads : IsIndexing(J[t]) => Links(J[t], L)
LinksInv == AllLinked(job, indexed, links)
(* Of a request and an indexed video, and of two requests: an edge, or one *)
(* will come to the other.                                                 *)
Meets(q, w, R) == q.video # w /\ Shared(q.video, w) # {} => Edge(q.video, w, R) \/ ComesTo(q, w)
Meet(q, r, R) ==
    q.video # r.video /\ Shared(q.video, r.video) # {}
      => Edge(q.video, r.video, R) \/ ComesTo(q, r.video) \/ ComesTo(r, q.video)
AllMeet(J, X, R) ==
    /\ \A v, w \in X : v # w /\ Shared(v, w) # {} => Edge(v, w, R)
    /\ \A t \in Threads, w \in X : IsIndexing(J[t]) => Meets(J[t], w, R)
    /\ \A t, u \in Threads : IsIndexing(J[t]) /\ IsIndexing(J[u]) => Meet(J[t], J[u], R)
EdgesInv == AllMeet(job, indexed, rows)
InsightInv == InsightTypes /\ LinksInv /\ EdgesInv

LEMMA JobFields ==
    ASSUME NEW a, NEW b, NEW c, NEW d, NEW e, NEW f, NEW g
    PROVE  /\ Job(a, b, c, d, e, f, g).at = a /\ Job(a, b, c, d, e, f, g).video = b
           /\ Job(a, b, c, d, e, f, g).left = c /\ Job(a, b, c, d, e, f, g).row = d
           /\ Job(a, b, c, d, e, f, g).found = e /\ Job(a, b, c, d, e, f, g).peers = f
           /\ Job(a, b, c, d, e, f, g).whole = g
BY DEF Job

LEMMA OnlyJobsGoOn ==
    ASSUME InsightTypes, NEW t \in Threads
    PROVE  /\ job[t].at \in Steps => IsJob(job[t])
           /\ "left" \in DOMAIN job[t] => IsJob(job[t])
           /\ "row" \in DOMAIN job[t] => IsJob(job[t])
<1>1. job[t] = Rest => job[t].at \notin Steps /\ DOMAIN job[t] = {"at"}
  BY DEF Rest, Steps
<1>2. job[t] \in Removals => job[t].at \notin Steps /\ DOMAIN job[t] = {"at", "video"}
  BY DEF Removals, Steps
<1> QED BY <1>1, <1>2 DEF InsightTypes, Fine

LEMMA FirstIsTopics == FirstStage = "topics"
<1>1. DOMAIN Stages = {"topics", "creator", "peers", "edges"}
  BY DEF Stages
<1>2. /\ Stages["topics"] = "creator" /\ Stages["creator"] = "peers"
      /\ Stages["peers"] = "edges" /\ Stages["edges"] = "concepts"
  BY DEF Stages
<1>3. \A s \in DOMAIN Stages : (\A r \in DOMAIN Stages : Stages[r] # s) <=> s = "topics"
  BY <1>1, <1>2
<1>4. (CHOOSE s \in DOMAIN Stages : \A r \in DOMAIN Stages : Stages[r] # s) = "topics"
  BY <1>1, <1>3
<1> QED BY <1>4 DEF FirstStage

LEMMA TypesNext ==
    /\ saved' \subseteq Videos /\ capsules' \subseteq Videos /\ indexed' \subseteq Videos
    /\ links' \subseteq (UNION {Names(v) : v \in Videos}) \X Videos
    /\ Fine(job')
    => InsightTypes'
BY Zenon DEF InsightTypes, Fine, IsJob, Job, Names, Removals, Rest, Steps

LEMMA LinksNext == LinksInv' <=> AllLinked(job', indexed', links')
BY Zenon DEF LinksInv, AllLinked, LinkedUp, Links, ToLink, IsIndexing, Steps, Names

LEMMA EdgesNext == EdgesInv' <=> AllMeet(job', indexed', rows')
BY Zenon DEF EdgesInv, AllMeet, Meets, Meet, IsIndexing, Steps, Shared, Edge, ComesTo

(* Who looks for a name has linked it.                                     *)
LEMMA SharedNames ==
    ASSUME NEW v, NEW w, NEW n \in Shared(v, w)
    PROVE  /\ n \in Range(TopicsOf[w]) /\ n \in LookedFor(v)
           /\ n \in Names(v) /\ n \in Names(w)
<1>1. \A u : LookedFor(u) \subseteq Names(u)
  BY DEF LookedFor, FirstNames, Names, Range
<1> QED BY <1>1 DEF Shared

LEMMA MoreRows ==
    ASSUME NEW R, NEW S, R \subseteq S, NEW v, NEW w, Edge(v, w, R)
    PROVE  Edge(v, w, S)
BY DEF Edge

LEMMA MeetSame ==
    ASSUME NEW q, NEW r, NEW R, Meet(q, r, R)
    PROVE  Meet(r, q, R)
<1>1. \A v, w : Edge(v, w, R) <=> Edge(w, v, R)
  BY DEF Edge
<1>2. \A v, w : Shared(v, w) = Shared(w, v)
  BY DEF Shared
<1> QED BY <1>1, <1>2 DEF Meet

(* Who stops, or is marked by a deletion, leaves nothing to be shown.      *)
LEMMA FewerIndex ==
    ASSUME EdgesInv, rows \subseteq rows', indexed' \subseteq indexed,
           \A t \in Threads : IsIndexing(job'[t]) => job'[t] = job[t]
    PROVE  EdgesInv'
<1>1. \A v, w : Edge(v, w, rows) => Edge(v, w, rows')
  BY MoreRows
<1>2. \A v, w \in indexed' : v # w /\ Shared(v, w) # {} => Edge(v, w, rows')
  BY <1>1 DEF EdgesInv, AllMeet
<1>3. \A t \in Threads, w \in indexed' : IsIndexing(job'[t]) => Meets(job'[t], w, rows')
  BY <1>1 DEF EdgesInv, AllMeet, Meets
<1>4. \A t, u \in Threads :
         IsIndexing(job'[t]) /\ IsIndexing(job'[u]) => Meet(job'[t], job'[u], rows')
  BY <1>1 DEF EdgesInv, AllMeet, Meet
<1> QED BY <1>2, <1>3, <1>4, EdgesNext DEF AllMeet

(* An indexing starts, or goes on without passing over a video whose       *)
(* topics are linked.                                                      *)
GoesOn(p, q, R) ==
    \/ ~IsIndexing(q) \/ q.at \in {"topics", "creator"}
    \/ /\ q.at \in Steps /\ p.at \in Steps \ {"topics"} /\ q.video = p.video
       /\ (q.whole => p.whole)
       /\ \A w \in Videos : LinkedUp(w, links) /\ w # p.video /\ Shared(p.video, w) # {} /\ ComesTo(p, w)
             => ComesTo(q, w) \/ Edge(p.video, w, R)

LEMMA IndexMeets ==
    ASSUME InsightInv, NEW t \in Threads, NEW q, NEW R, rows \subseteq R,
           GoesOn(job[t], q, R), IsIndexing(q)
    PROVE  /\ \A w \in indexed : Meets(q, w, R)
           /\ \A u \in Threads \ {t} : IsIndexing(job[u]) => Meet(q, job[u], R)
<1>1. \A v, w : Edge(v, w, rows) => Edge(v, w, R)
  BY MoreRows
<1>2. CASE q.at \in {"topics", "creator"}
  <2>1. \A w \in indexed : Meets(q, w, R)
    BY <1>2 DEF Meets, ComesTo
  <2>2. \A u \in Threads \ {t} : Meet(q, job[u], R)
    BY <1>2 DEF Meet, ComesTo
  <2> QED BY <2>1, <2>2
<1>3. CASE q.at \notin {"topics", "creator"}
  <2>2. /\ job[t].at \in Steps \ {"topics"} /\ q.video = job[t].video /\ IsIndexing(job[t])
        /\ \A w \in Videos : LinkedUp(w, links) /\ w # q.video /\ Shared(q.video, w) # {} /\ ComesTo(job[t], w)
              => ComesTo(q, w) \/ Edge(q.video, w, R)
    BY <1>3 DEF GoesOn, IsIndexing
  <2>3. ASSUME NEW w \in indexed
        PROVE  Meets(q, w, R)
    <3>1. w \in Videos /\ LinkedUp(w, links) /\ Meets(job[t], w, rows)
      BY <2>2, <2>3 DEF InsightInv, InsightTypes, LinksInv, AllLinked, EdgesInv, AllMeet
    <3> QED BY <1>1, <2>2, <3>1 DEF Meets
  <2>4. ASSUME NEW u \in Threads \ {t}, IsIndexing(job[u])
        PROVE  Meet(q, job[u], R)
    <3>1. CASE job[u].at = "topics"
      BY <3>1 DEF Meet, ComesTo
    <3>2. CASE job[u].at # "topics"
      <4>1. LinkedUp(job[u].video, links) /\ Meet(job[t], job[u], rows)
        BY <2>2, <2>4, <3>2 DEF InsightInv, LinksInv, AllLinked, Links, EdgesInv, AllMeet
      <4> QED BY <1>1, <2>2, <2>4, <4>1 DEF Meet, IsIndexing
    <3> QED BY <3>1, <3>2
  <2> QED BY <2>3, <2>4
<1> QED BY <1>2, <1>3

LEMMA IndexingGoesOn ==
    ASSUME InsightInv, NEW t \in Threads, NEW q, job' = [job EXCEPT ![t] = q],
           rows \subseteq rows', indexed' = indexed, GoesOn(job[t], q, rows')
    PROVE  EdgesInv'
<1>1. \A v, w : Edge(v, w, rows) => Edge(v, w, rows')
  BY MoreRows
<1>2. \A u \in Threads : job'[u] = IF u = t THEN q ELSE job[u]
  BY DEF InsightInv, InsightTypes, Fine
<1>3. \A v, w \in indexed' : v # w /\ Shared(v, w) # {} => Edge(v, w, rows')
  BY <1>1 DEF InsightInv, EdgesInv, AllMeet
<1>4. ASSUME IsIndexing(q)
      PROVE  /\ \A w \in indexed : Meets(q, w, rows')
             /\ \A u \in Threads \ {t} : IsIndexing(job[u]) => Meet(q, job[u], rows')
  BY <1>4, IndexMeets
<1>5. /\ \A u \in Threads, w \in indexed : IsIndexing(job[u]) => Meets(job[u], w, rows')
      /\ \A u, v \in Threads :
            IsIndexing(job[u]) /\ IsIndexing(job[v]) => Meet(job[u], job[v], rows')
  BY <1>1 DEF InsightInv, EdgesInv, AllMeet, Meets, Meet
<1>6. \A u \in Threads, w \in indexed' : IsIndexing(job'[u]) => Meets(job'[u], w, rows')
  BY <1>2, <1>4, <1>5
<1>7. ASSUME NEW u \in Threads, NEW v \in Threads, IsIndexing(job'[u]), IsIndexing(job'[v])
      PROVE  Meet(job'[u], job'[v], rows')
  <2>1. CASE u = t /\ v = t
    BY <1>2, <2>1 DEF Meet
  <2>2. CASE u = t /\ v # t
    BY <1>2, <1>4, <1>7, <2>2
  <2>3. CASE u # t /\ v = t
    BY <1>2, <1>4, <1>7, <2>3, MeetSame
  <2>4. CASE u # t /\ v # t
    BY <1>2, <1>5, <1>7, <2>4
  <2> QED BY <2>1, <2>2, <2>3, <2>4
<1> QED BY <1>3, <1>6, <1>7, EdgesNext DEF AllMeet

LEMMA JobIs ==
    ASSUME NEW a \in Steps, NEW b \in Videos \cup {""}, NEW c, NEW d, NEW e, NEW f,
           NEW g \in BOOLEAN, a # "concepts" => b \in Videos,
           a = "topics" => c \subseteq Names(b) /\ (d # <<>> => d[2] \in Names(b))
    PROVE  IsJob(Job(a, b, c, d, e, f, g))
<1> DEFINE q == Job(a, b, c, d, e, f, g)
<1>1. /\ q.at = a /\ q.video = b /\ q.left = c /\ q.row = d /\ q.found = e /\ q.peers = f
      /\ q.whole = g
  BY DEF Job
<1>2. q = Job(q.at, q.video, q.left, q.row, q.found, q.peers, q.whole)
  BY <1>1
<1> HIDE DEF q
<1>3. IsJob(q)
  BY <1>1, <1>2 DEF IsJob
<1> QED BY <1>3 DEF q

(* A thread gets another request.                                          *)
LEMMA JobMoves ==
    ASSUME InsightTypes, NEW t \in Threads, NEW q, job' = [job EXCEPT ![t] = q],
           q = Rest \/ q \in Removals \/ IsJob(q)
    PROVE  Fine(job') /\ \A u \in Threads : job'[u] = IF u = t THEN q ELSE job[u]
BY DEF InsightTypes, Fine

LEMMA LinksGoOn ==
    ASSUME InsightInv, NEW t \in Threads, NEW q, job' = [job EXCEPT ![t] = q],
           links \subseteq links', indexed' = indexed, IsIndexing(q) => Links(q, links')
    PROVE  LinksInv'
<1>1. \A u \in Threads : job'[u] = IF u = t THEN q ELSE job[u]
  BY DEF InsightInv, InsightTypes, Fine
<1>2. \A v : LinkedUp(v, links) => LinkedUp(v, links')
  BY DEF LinkedUp
<1>3. \A r : Links(r, links) => Links(r, links')
  BY <1>2 DEF Links
<1>4. \A v \in indexed' : LinkedUp(v, links')
  BY <1>2 DEF InsightInv, LinksInv, AllLinked
<1>5. \A u \in Threads : IsIndexing(job'[u]) => Links(job'[u], links')
  BY <1>1, <1>3 DEF InsightInv, LinksInv, AllLinked
<1> QED BY <1>4, <1>5, LinksNext DEF AllLinked

(* The topics of a thread's video that are yet to be linked, the lookups   *)
(* and the edges: each step of an indexing keeps the invariant.            *)
LEMMA SaveKeeps ==
    ASSUME InsightInv, NEW t \in Threads, Save(t)
    PROVE  InsightInv'
<1>1. PICK v \in Videos :
         /\ saved' = saved \cup {v} /\ capsules' \subseteq capsules \cup {v}
         /\ \E left \in LeftAt(FirstStage, Indexing(v, {})) :
               job' = [job EXCEPT ![t] = At(Indexing(v, {}), FirstStage, left)]
         /\ rows' = rows /\ links' = links /\ indexed' = indexed
  BY DEF Save
<1> DEFINE q == Job("topics", v, Names(v), <<>>, FALSE, {}, TRUE)
<1>2. job' = [job EXCEPT ![t] = q]
  <2>1. Indexing(v, {}).video = v
    BY DEF Indexing, Job
  <2>2. LeftAt("topics", Indexing(v, {})) = {Names(v)}
    BY <2>1 DEF LeftAt
  <2>3. At(Indexing(v, {}), "topics", Names(v)) = q
    BY DEF At, Indexing, Job
  <2> QED BY <1>1, <2>2, <2>3, FirstIsTopics
<1>3. IsJob(q)
  BY JobIs DEF Steps
<1>4. q.at = "topics" /\ q.video = v /\ q.left = Names(v) /\ q.row = <<>>
  BY DEF Job
<1> HIDE DEF q
<1>6. InsightTypes'
  BY <1>1, <1>2, <1>3, JobMoves, TypesNext DEF InsightInv, InsightTypes
<1>7. LinksInv'
  <2>1. Links(q, links')
    BY <1>4 DEF Links, ToLink
  <2> QED BY <1>1, <1>2, <2>1, LinksGoOn
<1>8. EdgesInv'
  <2>1. GoesOn(job[t], q, rows')
    BY <1>4 DEF GoesOn
  <2> QED BY <1>1, <1>2, <2>1, IndexingGoesOn
<1> QED BY <1>6, <1>7, <1>8 DEF InsightInv

LEMMA ViewKeeps ==
    ASSUME InsightInv, NEW t \in Threads, ViewCapsules(t)
    PROVE  InsightInv'
<1>1. PICK names \in SUBSET UNION {Names(v) : v \in Videos} :
         /\ job' = [job EXCEPT ![t] = Job("concepts", "", names, <<>>, FALSE, {}, TRUE)]
         /\ UNCHANGED <<saved, capsules, rows, links, indexed>>
  BY DEF ViewCapsules, Some
<1> DEFINE q == Job("concepts", "", names, <<>>, FALSE, {}, TRUE)
<1>3. IsJob(q)
  BY JobIs DEF Steps
<1>4. ~IsIndexing(q)
  BY DEF Job, IsIndexing
<1>5. job' = [job EXCEPT ![t] = q]
  BY <1>1
<1> HIDE DEF q
<1>6. InsightTypes'
  BY <1>1, <1>3, <1>5, JobMoves, TypesNext DEF InsightInv, InsightTypes
<1>7. LinksInv'
  BY <1>1, <1>4, <1>5, LinksGoOn
<1>8. EdgesInv'
  <2>1. GoesOn(job[t], q, rows')
    BY <1>4 DEF GoesOn
  <2> QED BY <1>1, <1>5, <2>1, IndexingGoesOn
<1> QED BY <1>6, <1>7, <1>8 DEF InsightInv

LEMMA StagesAre ==
    /\ DOMAIN Stages = {"topics", "creator", "peers", "edges"}
    /\ Stages["topics"] = "creator" /\ Stages["creator"] = "peers"
    /\ Stages["peers"] = "edges" /\ Stages["edges"] = "concepts"
BY DEF Stages

(* An indexing that does not pass over a video it met takes all of them.   *)
LEMMA TurnKeeps ==
    ASSUME InsightInv, NEW t \in Threads, Turn(t), job[t].at \in DOMAIN Stages
    PROVE  InsightInv'
<1> DEFINE p == job[t]
<1>1. IsJob(p)
  BY OnlyJobsGoOn DEF InsightInv, Turn
<1>2. /\ p.left = {} /\ p.row = <<>>
      /\ UNCHANGED <<saved, capsules, rows, links, indexed>>
  BY DEF Turn
<1>3. PICK left \in LeftAt(Stages[p.at], p) :
         job' = [job EXCEPT ![t] = At(p, Stages[p.at], left)]
  BY DEF Turn
<1> DEFINE q == At(p, Stages[p.at], left)
           all == Stages[p.at] = "edges" => left = p.peers
<1>4. /\ p.at \in {"topics", "creator", "peers", "edges"} /\ p.video \in Videos
      /\ p.whole \in BOOLEAN
  BY <1>1, StagesAre DEF IsJob
<1>5. IsJob(q)
  <2>1. q = Job(Stages[p.at], p.video, left, p.row, p.found, p.peers, p.whole /\ all)
    BY DEF At
  <2>2. Stages[p.at] \in Steps \ {"topics"}
    BY <1>4, StagesAre DEF Steps
  <2>3. (p.whole /\ all) \in BOOLEAN
    OBVIOUS
  <2> HIDE DEF q, all
  <2> QED BY <1>4, <2>1, <2>2, <2>3, JobIs
<1>6. /\ q.at = Stages[p.at] /\ q.video = p.video /\ q.left = left
      /\ q.row = <<>> /\ q.peers = p.peers /\ q.whole = (p.whole /\ all)
  BY <1>2, JobFields DEF At
<1>7. /\ p.at = "creator" => q.left = LookedFor(p.video)
      /\ p.at = "peers" /\ q.whole => q.left = p.peers
  BY <1>3, <1>6, StagesAre DEF LeftAt
<1> HIDE DEF q
<1>8. IsIndexing(q) => IsIndexing(p) /\ q.whole
  BY <1>4, <1>6 DEF IsIndexing, Steps
<1>9. InsightTypes'
  BY <1>2, <1>3, <1>5, JobMoves, TypesNext DEF InsightInv, InsightTypes, q
<1>10. LinksInv'
  <2>1. IsIndexing(q) => Links(p, links)
    BY <1>8 DEF InsightInv, LinksInv, AllLinked
  <2>2. Links(p, links) => Links(q, links)
    BY <1>2, <1>4, <1>6, StagesAre DEF Links, ToLink, LinkedUp
  <2>3. job' = [job EXCEPT ![t] = q]
    BY <1>3 DEF q
  <2> QED BY <1>2, <2>1, <2>2, <2>3, LinksGoOn
<1>11. EdgesInv'
  <2>1. ASSUME NEW w, Shared(p.video, w) # {}, ComesTo(p, w), p.at # "topics", q.whole
        PROVE  ComesTo(q, w)
    <3>1. CASE p.at = "creator"
      <4>1. Shared(q.video, w) \cap q.left # {} /\ q.at = "peers"
        BY <1>6, <1>7, <2>1, <3>1, StagesAre, SharedNames
      <4> QED BY <4>1 DEF ComesTo
    <3>2. CASE p.at = "peers"
      BY <1>2, <1>6, <1>7, <2>1, <3>2, StagesAre DEF ComesTo
    <3>3. CASE p.at = "edges"
      BY <1>2, <2>1, <3>3 DEF ComesTo
    <3> QED BY <1>4, <2>1, <3>1, <3>2, <3>3
  <2>2. ~q.whole \/ p.at = "topics" => GoesOn(p, q, rows')
    BY <1>6, StagesAre DEF GoesOn, IsIndexing
  <2>3. q.whole /\ p.at # "topics" => GoesOn(p, q, rows')
    BY <1>4, <1>6, <2>1, StagesAre DEF GoesOn, Steps
  <2>4. job' = [job EXCEPT ![t] = q]
    BY <1>3 DEF q
  <2> QED BY <1>2, <2>2, <2>3, <2>4, IndexingGoesOn
<1> QED BY <1>9, <1>10, <1>11 DEF InsightInv

(* The end of an indexing: who still comes to its video will find the rest *)
(* of what is to be shown, and it has come to everyone else.               *)
LEMMA EndKeeps ==
    ASSUME InsightInv, NEW t \in Threads, Turn(t), job[t].at \notin DOMAIN Stages
    PROVE  InsightInv'
<1> DEFINE p == job[t]
<1>1. IsJob(p)
  BY OnlyJobsGoOn DEF InsightInv, Turn
<1>2. /\ job' = [job EXCEPT ![t] = Rest]
      /\ UNCHANGED <<saved, capsules, rows, links>>
  BY DEF Turn
<1>3. p.at = "concepts" /\ p.whole \in BOOLEAN /\ p.video \in Videos \cup {""}
  BY <1>1, StagesAre DEF IsJob, Steps
<1>4. indexed' = IF IsIndexing(p) THEN indexed \cup {p.video} ELSE indexed
  BY <1>3, StagesAre DEF Turn, IsIndexing, Steps
<1>5. /\ Fine(job') /\ \A u \in Threads : job'[u] = IF u = t THEN Rest ELSE job[u]
  BY <1>2, JobMoves DEF InsightInv
<1>6. ~IsIndexing(Rest)
  BY DEF Rest, IsIndexing, Steps
<1>7. \A u \in Threads : IsIndexing(job'[u]) => job'[u] = job[u] /\ u # t
  BY <1>5, <1>6
<1>8. InsightTypes'
  BY <1>2, <1>3, <1>4, <1>5, TypesNext DEF InsightInv, InsightTypes, IsIndexing
<1>9. LinksInv'
  <2>1. IsIndexing(p) => LinkedUp(p.video, links)
    BY <1>3 DEF InsightInv, LinksInv, AllLinked, Links
  <2>2. \A v \in indexed' : LinkedUp(v, links')
    BY <1>2, <1>4, <2>1 DEF InsightInv, LinksInv, AllLinked
  <2>3. \A u \in Threads : IsIndexing(job'[u]) => Links(job'[u], links')
    BY <1>2, <1>7 DEF InsightInv, LinksInv, AllLinked
  <2> QED BY <2>2, <2>3, LinksNext DEF AllLinked
<1>10. EdgesInv'
  <2>1. \A v, w : Edge(v, w, rows) => Edge(w, v, rows)
    BY DEF Edge
  <2>2. \A v, w : Shared(v, w) = Shared(w, v)
    BY DEF Shared
  <2>3. \A w : ~ComesTo(p, w)
    BY <1>3 DEF ComesTo
  <2>4. ASSUME IsIndexing(p), NEW w \in indexed, p.video # w, Shared(p.video, w) # {}
        PROVE  Edge(p.video, w, rows)
    BY <2>3, <2>4 DEF InsightInv, EdgesInv, AllMeet, Meets
  <2>5. ASSUME IsIndexing(p), NEW u \in Threads, IsIndexing(job[u])
        PROVE  Meets(job[u], p.video, rows)
    BY <2>1, <2>2, <2>3, <2>5 DEF InsightInv, EdgesInv, AllMeet, Meet, Meets
  <2>6. \A v, w \in indexed' : v # w /\ Shared(v, w) # {} => Edge(v, w, rows')
    BY <1>2, <1>4, <2>1, <2>2, <2>4 DEF InsightInv, EdgesInv, AllMeet
  <2>7. \A u \in Threads, w \in indexed' : IsIndexing(job'[u]) => Meets(job'[u], w, rows')
    BY <1>2, <1>4, <1>7, <2>5 DEF InsightInv, EdgesInv, AllMeet
  <2>8. \A u, v \in Threads :
           IsIndexing(job'[u]) /\ IsIndexing(job'[v]) => Meet(job'[u], job'[v], rows')
    BY <1>2, <1>7 DEF InsightInv, EdgesInv, AllMeet
  <2> QED BY <2>6, <2>7, <2>8, EdgesNext DEF AllMeet
<1> QED BY <1>8, <1>9, <1>10 DEF InsightInv

(* A peer shares a topic, and is found by the link of that topic.          *)
LEMMA CollectKeeps ==
    ASSUME InsightInv, NEW t \in Threads, CollectPeers(t)
    PROVE  InsightInv'
<1> DEFINE p == job[t]
<1>1. PICK n \in p.left :
         job' = [job EXCEPT ![t] = Job(p.at, p.video, p.left \ {n}, p.row, p.found,
                                       p.peers \cup (Linked(n) \ {p.video}), p.whole)]
  BY DEF CollectPeers
<1> DEFINE q == Job(p.at, p.video, p.left \ {n}, p.row, p.found,
                    p.peers \cup (Linked(n) \ {p.video}), p.whole)
<1>2. p.at = "peers" /\ UNCHANGED <<saved, capsules, rows, links, indexed>>
  BY DEF CollectPeers
<1>3. IsJob(p)
  BY <1>2, OnlyJobsGoOn DEF InsightInv, Steps
<1>4. p.at \in Steps /\ p.video \in Videos /\ p.whole \in BOOLEAN
  BY <1>2, <1>3 DEF IsJob
<1>5. IsJob(q)
  BY <1>2, <1>4, JobIs
<1>6. /\ q.at = "peers" /\ q.video = p.video /\ q.left = p.left \ {n}
      /\ q.peers = p.peers \cup (Linked(n) \ {p.video}) /\ q.whole = p.whole
  BY <1>2, JobFields
<1>7. job' = [job EXCEPT ![t] = q]
  BY <1>1
<1> HIDE DEF q
<1>8. IsIndexing(q) <=> IsIndexing(p)
  BY <1>2, <1>6 DEF IsIndexing
<1>9. InsightTypes'
  BY <1>2, <1>5, <1>7, JobMoves, TypesNext DEF InsightInv, InsightTypes
<1>10. LinksInv'
  <2>1. IsIndexing(q) => Links(q, links')
    BY <1>2, <1>6, <1>8 DEF InsightInv, LinksInv, AllLinked, Links
  <2> QED BY <1>2, <1>7, <2>1, LinksGoOn
<1>11. EdgesInv'
  <2>1. ASSUME NEW w \in Videos, LinkedUp(w, links), w # p.video, Shared(p.video, w) # {},
               ComesTo(p, w)
        PROVE  ComesTo(q, w)
    <3>1. CASE n \in Shared(p.video, w)
      <4>1. <<n, w>> \in links
        BY <2>1, <3>1, SharedNames DEF LinkedUp
      <4> QED BY <1>6, <2>1, <4>1 DEF Linked, ComesTo
    <3>2. CASE n \notin Shared(p.video, w)
      BY <1>2, <1>6, <2>1, <3>2 DEF ComesTo
    <3> QED BY <3>1, <3>2
  <2>2. GoesOn(p, q, rows')
    BY <1>2, <1>6, <2>1 DEF GoesOn, Steps
  <2> QED BY <1>2, <1>7, <2>2, IndexingGoesOn
<1> QED BY <1>9, <1>10, <1>11 DEF InsightInv

(* The row that is looked for: at the topics, a topic of the video; at the *)
(* edges, that of the peer, whose topics are linked.                       *)
LEMMA LookKeeps ==
    ASSUME InsightInv, NEW t \in Threads, Look(t)
    PROVE  InsightInv'
<1> DEFINE p == job[t]
<1>1. PICK x \in p.left :
         job' = [job EXCEPT ![t] = Job(p.at, p.video, p.left \ {x}, RowFor(p, x),
                                       RowFor(p, x) \in rows, p.peers, p.whole)]
  BY DEF Look
<1> DEFINE q == Job(p.at, p.video, p.left \ {x}, RowFor(p, x), RowFor(p, x) \in rows,
                    p.peers, p.whole)
<1>2. /\ p.at \in {"topics", "creator", "edges", "concepts"} /\ p.row = <<>>
      /\ UNCHANGED <<saved, capsules, rows, links, indexed>>
  BY DEF Look
<1>3. IsJob(p)
  BY <1>2, OnlyJobsGoOn DEF InsightInv, Steps
<1>4. /\ p.at \in Steps /\ p.video \in Videos \cup {""} /\ p.whole \in BOOLEAN
      /\ (p.at # "concepts" => p.video \in Videos)
      /\ (p.at = "topics" => p.left \subseteq Names(p.video))
  BY <1>2, <1>3 DEF IsJob
<1>5. /\ p.at = "topics" => RowFor(p, x) = <<"topic", x>>
      /\ p.at = "edges" => RowFor(p, x) = EdgeTo(p.video, x)
  BY DEF RowFor
<1>6. IsJob(q)
  BY <1>4, <1>5, JobIs
<1>7. /\ q.at = p.at /\ q.video = p.video /\ q.left = p.left \ {x}
      /\ q.row = RowFor(p, x) /\ q.peers = p.peers /\ q.whole = p.whole
  BY JobFields
<1>8. job' = [job EXCEPT ![t] = q]
  BY <1>1
<1> HIDE DEF q
<1>9. IsIndexing(q) <=> IsIndexing(p)
  BY <1>7 DEF IsIndexing
<1>10. InsightTypes'
  BY <1>2, <1>6, <1>8, JobMoves, TypesNext DEF InsightInv, InsightTypes
<1>11. LinksInv'
  <2>1. p.at = "topics" => ToLink(q) = p.left
    <3>1. p.at = "topics" => q.row # <<>> /\ q.row[2] = x
      BY <1>5, <1>7
    <3> QED BY <1>7, <3>1 DEF ToLink
  <2>2. ToLink(p) = p.left
    BY <1>2 DEF ToLink
  <2>3. IsIndexing(q) => Links(p, links)
    BY <1>9 DEF InsightInv, LinksInv, AllLinked
  <2>4. Links(p, links) => Links(q, links')
    BY <1>2, <1>7, <2>1, <2>2 DEF Links
  <2> QED BY <1>2, <1>8, <2>3, <2>4, LinksGoOn
<1>12. EdgesInv'
  <2>1. ASSUME NEW w \in Videos, LinkedUp(w, links), Shared(p.video, w) # {}, ComesTo(p, w),
               p.at \in {"edges", "concepts"}
        PROVE  ComesTo(q, w)
    <3>1. p.at = "edges" /\ w \in p.left
      BY <1>2, <2>1 DEF ComesTo
    <3>2. NamesOfPeer(w) \cap Names(p.video) # {}
      <4>1. PICK n \in Shared(p.video, w) : TRUE
        BY <2>1
      <4>2. n \in Range(TopicsOf[w]) /\ n \in Names(p.video) /\ <<n, w>> \in links
        BY <2>1, SharedNames DEF LinkedUp
      <4>3. n \in {l[1] : l \in {k \in links : k[2] = w}}
        BY <4>2
      <4> QED BY <4>2, <4>3 DEF NamesOfPeer
    <3>3. EdgeTo(p.video, w) = <<"same_topic", p.video, w>>
      BY <3>2 DEF EdgeTo
    <3>4. w = x => q.row = <<"same_topic", q.video, w>>
      BY <1>5, <1>7, <3>1, <3>3
    <3> QED BY <1>7, <3>1, <3>4 DEF ComesTo
  <2>2. GoesOn(p, q, rows')
    BY <1>2, <1>7, <2>1 DEF GoesOn, Steps
  <2> QED BY <1>2, <1>8, <2>2, IndexingGoesOn
<1> QED BY <1>10, <1>11, <1>12 DEF InsightInv

(* The row is there afterwards, whoever wrote it.                          *)
LEMMA PutKeeps ==
    ASSUME InsightInv, NEW t \in Threads, Put(t)
    PROVE  InsightInv'
<1> DEFINE p == job[t]
           r == Job(p.at, p.video, p.left, <<>>, p.found, p.peers, p.whole)
<1>1. PICK raises \in BOOLEAN :
         /\ links' = IF p.at = "topics" /\ ~raises THEN links \cup {<<p.row[2], p.video>>} ELSE links
         /\ job' = [job EXCEPT ![t] = IF raises THEN Rest ELSE r]
  BY DEF Put
<1>2. /\ "row" \in DOMAIN p /\ p.row # <<>> /\ rows' = rows \cup {p.row}
      /\ UNCHANGED <<saved, capsules, indexed>>
  BY DEF Put
<1>3. IsJob(p)
  BY <1>2, OnlyJobsGoOn DEF InsightInv
<1>4. /\ p.at \in Steps /\ p.video \in Videos \cup {""} /\ p.whole \in BOOLEAN
      /\ (p.at # "concepts" => p.video \in Videos)
      /\ (p.at = "topics" => p.left \subseteq Names(p.video) /\ p.row[2] \in Names(p.video))
  BY <1>2, <1>3 DEF IsJob
<1>5. IsJob(r)
  BY <1>4, JobIs
<1>6. /\ r.at = p.at /\ r.video = p.video /\ r.left = p.left
      /\ r.row = <<>> /\ r.peers = p.peers /\ r.whole = p.whole
  BY JobFields
<1> HIDE DEF r
<1> DEFINE q == IF raises THEN Rest ELSE r
<1>7. job' = [job EXCEPT ![t] = q] /\ (q = Rest \/ IsJob(q))
  BY <1>1, <1>5
<1>8. IsIndexing(q) => ~raises /\ q = r /\ IsIndexing(p)
  BY <1>6 DEF IsIndexing, Rest, Steps
<1> HIDE DEF q
<1>9. links \subseteq links' /\ links' \subseteq (UNION {Names(v) : v \in Videos}) \X Videos
  <2>1. p.at = "topics" => <<p.row[2], p.video>> \in (UNION {Names(v) : v \in Videos}) \X Videos
    BY <1>4
  <2> QED BY <1>1, <2>1 DEF InsightInv, InsightTypes
<1>10. InsightTypes'
  BY <1>2, <1>7, <1>9, JobMoves, TypesNext DEF InsightInv, InsightTypes
<1>11. LinksInv'
  <2>1. ASSUME IsIndexing(q) PROVE Links(q, links')
    <3>1. Links(p, links) /\ q = r /\ ~raises
      BY <1>8, <2>1 DEF InsightInv, LinksInv, AllLinked
    <3>2. CASE p.at = "topics"
      <4>1. ToLink(p) = p.left \cup {p.row[2]} /\ ToLink(r) = p.left
        BY <1>2, <1>6 DEF ToLink
      <4>2. links' = links \cup {<<p.row[2], p.video>>}
        BY <1>1, <3>1, <3>2
      <4> QED BY <1>6, <3>1, <3>2, <4>1, <4>2 DEF Links
    <3>3. CASE p.at # "topics"
      BY <1>6, <1>9, <3>1, <3>3 DEF Links, LinkedUp
    <3> QED BY <3>2, <3>3
  <2> QED BY <1>2, <1>7, <1>9, <2>1, LinksGoOn
<1>12. EdgesInv'
  <2>1. ASSUME NEW w, ComesTo(p, w)
        PROVE  ComesTo(r, w) \/ Edge(p.video, w, rows')
    BY <1>2, <1>6, <2>1 DEF ComesTo, Edge
  <2>2. CASE ~IsIndexing(q)
    <3>1. GoesOn(p, q, rows')
      BY <2>2 DEF GoesOn
    <3> QED BY <1>2, <1>7, <3>1, IndexingGoesOn
  <2>3. CASE IsIndexing(q)
    <3>1. q = r /\ r.at \in Steps
      BY <1>4, <1>6, <1>8, <2>3
    <3>2. GoesOn(p, r, rows')
      BY <1>4, <1>6, <2>1, <3>1 DEF GoesOn
    <3> QED BY <1>2, <1>7, <3>1, <3>2, IndexingGoesOn
  <2> QED BY <2>2, <2>3
<1> QED BY <1>10, <1>11, <1>12 DEF InsightInv

(* A deletion marks the indexings of its video, and takes the video's own  *)
(* links only.                                                             *)
LEMMA DeletesKeep ==
    ASSUME InsightInv, NEW t \in Threads, NEW v \in Videos, NEW next,
           Deletes(t, v, next), next = Rest \/ next \in Removals,
           saved' \subseteq Videos, capsules' \subseteq Videos, rows' = rows,
           links' \in {links, {l \in links : l[2] # v}}
    PROVE  InsightInv'
<1>1. /\ indexed' = indexed \ {v}
      /\ job' = [u \in Threads |->
            IF u = t THEN next
            ELSE IF job[u].at \in {"rest", "video", "links"} \/ job[u].video # v THEN job[u]
            ELSE Undone(job[u])]
  BY Zenon DEF Deletes
<1>2. \A u \in Threads :
         job'[u] = IF u = t THEN next
                   ELSE IF job[u].at \in {"rest", "video", "links"} \/ job[u].video # v THEN job[u]
                   ELSE Undone(job[u])
  BY <1>1
<1>3. job' = [u \in Threads |-> job'[u]]
  BY <1>1
<1>4. ASSUME NEW u \in Threads, job[u].at \notin {"rest", "video", "links"}
      PROVE  /\ IsJob(Undone(job[u])) /\ ~IsIndexing(Undone(job[u]))
  <2> DEFINE p == job[u]
  <2>1. IsJob(p)
    BY <1>4 DEF InsightInv, InsightTypes, Fine, Rest, Removals
  <2>2. /\ p.at \in Steps /\ p.video \in Videos \cup {""} /\ (p.at # "concepts" => p.video \in Videos)
        /\ (p.at = "topics" => p.left \subseteq Names(p.video)
                               /\ (p.row # <<>> => p.row[2] \in Names(p.video)))
    BY <2>1 DEF IsJob
  <2>3. IsJob(Job(p.at, p.video, p.left, p.row, p.found, p.peers, FALSE))
    BY <2>2, JobIs
  <2>4. ~Job(p.at, p.video, p.left, p.row, p.found, p.peers, FALSE).whole
    BY DEF Job
  <2> QED BY <2>3, <2>4 DEF Undone, IsIndexing
<1>5. \A u \in Threads : job'[u] = Rest \/ job'[u] \in Removals \/ IsJob(job'[u])
  BY <1>2, <1>4 DEF InsightInv, InsightTypes, Fine
<1>6. ~IsIndexing(next)
  <2>1. Rest.at = "rest" /\ \A r \in Removals : r.at \in {"video", "links"}
    BY DEF Rest, Removals
  <2>2. next.at \in {"rest", "video", "links"}
    BY <2>1
  <2> QED BY <2>2 DEF IsIndexing, Steps
<1>7. ASSUME NEW u \in Threads, IsIndexing(job'[u])
      PROVE  job'[u] = job[u] /\ job[u].video # v
  BY <1>2, <1>4, <1>6, <1>7 DEF IsIndexing, Steps
<1>8. InsightTypes'
  <2>1. Fine(job')
    BY <1>3, <1>5 DEF Fine
  <2>2. links' \subseteq (UNION {Names(w) : w \in Videos}) \X Videos /\ indexed' \subseteq Videos
    BY <1>1 DEF InsightInv, InsightTypes
  <2> QED BY <2>1, <2>2, TypesNext
<1>9. LinksInv'
  <2>1. \A w : w # v /\ LinkedUp(w, links) => LinkedUp(w, links')
    BY DEF LinkedUp
  <2>2. \A w \in indexed' : LinkedUp(w, links')
    BY <1>1, <2>1 DEF InsightInv, LinksInv, AllLinked
  <2>3. \A q : q.video # v /\ Links(q, links) => Links(q, links')
    BY <2>1 DEF Links
  <2>4. \A u \in Threads : IsIndexing(job'[u]) => Links(job'[u], links')
    BY <1>7, <2>3 DEF InsightInv, LinksInv, AllLinked
  <2> QED BY <2>2, <2>4, LinksNext DEF AllLinked
<1>10. EdgesInv'
  BY <1>1, <1>7, FewerIndex DEF InsightInv
<1> QED BY <1>8, <1>9, <1>10 DEF InsightInv

LEMMA RemovalKeeps ==
    ASSUME InsightInv, NEW t \in Threads, DeleteCapsule(t) \/ DeleteVideo(t) \/ DeleteLinks(t)
    PROVE  InsightInv'
<1>a. saved \subseteq Videos /\ capsules \subseteq Videos
  BY DEF InsightInv, InsightTypes
<1>1. CASE DeleteCapsule(t)
  <2>1. PICK v \in saved :
           /\ capsules' = capsules \ {v} /\ Deletes(t, v, [at |-> "video", video |-> v])
           /\ UNCHANGED <<saved, rows, links>>
    BY <1>1 DEF DeleteCapsule
  <2>2. v \in Videos /\ [at |-> "video", video |-> v] \in Removals
    BY <1>a DEF Removals
  <2> QED BY <1>a, <2>1, <2>2, DeletesKeep
<1>2. ASSUME job[t].at \in {"video", "links"}
      PROVE  job[t].video \in Videos
  <2>1. Rest.at = "rest" /\ \A r \in Removals : r.video \in Videos
    BY DEF Rest, Removals
  <2>2. \A r : IsJob(r) => r.at \notin {"video", "links"}
    BY DEF IsJob, Steps
  <2> QED BY <1>2, <2>1, <2>2 DEF InsightInv, InsightTypes, Fine
<1>3. CASE DeleteVideo(t)
  <2> DEFINE v == job[t].video
  <2>1. /\ v \in Videos /\ saved' = saved \ {v} /\ Deletes(t, v, [at |-> "links", video |-> v])
        /\ UNCHANGED <<capsules, rows, links>>
    BY <1>2, <1>3 DEF DeleteVideo
  <2>2. [at |-> "links", video |-> v] \in Removals
    BY <2>1 DEF Removals
  <2> HIDE DEF v
  <2> QED BY <1>a, <2>1, <2>2, DeletesKeep
<1>4. CASE DeleteLinks(t)
  <2> DEFINE v == job[t].video
  <2>1. /\ v \in Videos /\ links' = {l \in links : l[2] # v} /\ Deletes(t, v, Rest)
        /\ UNCHANGED <<saved, capsules, rows>>
    BY <1>2, <1>4 DEF DeleteLinks
  <2> HIDE DEF v
  <2> QED BY <1>a, <2>1, DeletesKeep
<1> QED BY <1>1, <1>3, <1>4

(* Requests end; every other step leaves the index alone.                  *)
LEMMA InsightSteps ==
    ASSUME [Next]_vars
    PROVE  \/ UNCHANGED insightVars
           \/ \E t \in Threads : InsightCall(t) \/ InsightStep(t)
           \/ /\ UNCHANGED <<saved, capsules, rows, links, indexed>>
              /\ \E T \in SUBSET Threads : job' = Ends(job, T)
<1>1. CASE UNCHANGED vars
  BY <1>1 DEF vars
<1>2. ASSUME NEW T \in SUBSET Threads, RequestsEnd(T)
      PROVE  UNCHANGED <<saved, capsules, rows, links, indexed>> /\ job' = Ends(job, T)
  BY <1>2 DEF RequestsEnd
<1>3. CASE Raise \/ Restart
  BY <1>2, <1>3 DEF Raise, Restart
<1>4. ASSUME NEW t \in Threads,
             Answering(t) \/ Routing(t) \/ Rating(t) \/ Crediting(t) \/ Calling(t) \/ Renewing(t)
               \/ Emitting(t) \/ Commanding(t) \/ Confirming(t)
      PROVE  UNCHANGED insightVars
  BY <1>4 DEF Answering, Routing, Rating, Crediting, Calling, Renewing, Emitting, Commanding,
     Confirming, OthersThanAnswers, OthersThanTokens, OthersThanCommands
<1>5. ASSUME NEW t \in Threads, Saving(t) \/ Deriving(t)
      PROVE  InsightCall(t) \/ InsightStep(t)
  BY <1>5 DEF Saving, Deriving
<1>6. CASE Cooling \/ Ageing \/ Reading \/ Subscribing \/ Ticking \/ Forgetting \/ Upgrading
  BY <1>6 DEF Cooling, Ageing, Reading, Subscribing, Ticking, Forgetting, Upgrading,
     OthersThanAnswers, OthersThanTokens, OthersThanCommands, OthersThanUpgrade
<1> QED BY <1>1, <1>3, <1>4, <1>5, <1>6 DEF Next

LEMMA InsightInvStep == InsightInv /\ [Next]_vars => InsightInv'
<1> SUFFICES ASSUME InsightInv, [Next]_vars PROVE InsightInv'
  OBVIOUS
<1>1. CASE UNCHANGED insightVars
  <2>1. UNCHANGED <<saved, capsules, rows, links, indexed, job>>
    BY <1>1 DEF insightVars
  <2>2. InsightTypes'
    BY <2>1, TypesNext DEF InsightInv, InsightTypes
  <2>3. LinksInv'
    BY <2>1, LinksNext DEF InsightInv, LinksInv
  <2>4. EdgesInv'
    BY <2>1, EdgesNext DEF InsightInv, EdgesInv
  <2> QED BY <2>2, <2>3, <2>4 DEF InsightInv
<1>2. ASSUME NEW t \in Threads, InsightCall(t) \/ InsightStep(t)
      PROVE  InsightInv'
  <2>1. CASE Turn(t)
    BY <2>1, TurnKeeps, EndKeeps
  <2> QED BY <1>2, <2>1, SaveKeeps, ViewKeeps, CollectKeeps, LookKeeps, PutKeeps, RemovalKeeps
          DEF InsightCall, InsightStep
<1>3. ASSUME NEW T \in SUBSET Threads, job' = Ends(job, T),
             UNCHANGED <<saved, capsules, rows, links, indexed>>
      PROVE  InsightInv'
  <2>1. /\ job' = [t \in Threads |-> job'[t]]
        /\ \A t \in Threads : job'[t] = IF t \in T THEN Rest ELSE job[t]
    BY <1>3 DEF Ends
  <2>2. ~IsIndexing(Rest)
    BY DEF Rest, IsIndexing, Steps
  <2>3. InsightTypes'
    BY <1>3, <2>1, TypesNext DEF InsightInv, InsightTypes, Fine
  <2>4. \A t \in Threads : IsIndexing(job'[t]) => job'[t] = job[t]
    BY <2>1, <2>2
  <2>5. LinksInv'
    BY <1>3, <2>4, LinksNext DEF InsightInv, LinksInv, AllLinked
  <2>6. EdgesInv'
    BY <1>3, <2>4, FewerIndex DEF InsightInv
  <2> QED BY <2>3, <2>5, <2>6 DEF InsightInv
<1> QED BY <1>1, <1>2, <1>3, InsightSteps

LEMMA InsightInvInit == Init => InsightInv
<1> SUFFICES ASSUME Init PROVE InsightInv
  OBVIOUS
<1>1. /\ saved = {} /\ capsules = {} /\ rows = {} /\ links = {} /\ indexed = {}
      /\ job = [t \in Threads |-> Rest]
  BY DEF Init, InsightInit
<1>2. ~IsIndexing(Rest)
  BY DEF Rest, IsIndexing, Steps
<1>3. InsightTypes
  BY <1>1 DEF InsightTypes, Fine
<1>4. LinksInv
  BY <1>1, <1>2 DEF LinksInv, AllLinked
<1>5. EdgesInv
  BY <1>1, <1>2 DEF EdgesInv, AllMeet
<1> QED BY <1>3, <1>4, <1>5 DEF InsightInv

(* Two videos that were indexed to the end and share a topic that is among *)
(* the first MaxNames names of both have an edge, whatever was indexed,    *)
(* deleted or looked at meanwhile, by any number of threads, and whichever *)
(* of them raised: an indexing links its topics before it looks for peers, *)
(* so the later of the two finds the earlier.  Excepted are videos whose   *)
(* indexing met more than MaxPeers others, of which it passes over some.   *)
THEOREM TopicsLinked == Spec => []SharedTopicsAreLinked
<1>1. InsightInv => SharedTopicsAreLinked
  BY DEF InsightInv, EdgesInv, AllMeet, Shared, Edge, SharedTopicsAreLinked
<1> QED BY <1>1, InsightInvInit, InsightInvStep, PTL DEF Spec

-----------------------------------------------------------------------------
(* The types.  Beside what the proofs above need: no more requests than    *)
(* asked, no question but among the answers, what was read or came late is *)
(* of the log, and keys are numbered as they were drawn.                   *)
RequestBounds ==
    /\ local \in BOOLEAN /\ part \in Parts /\ asked \in 0..MaxAsked
    /\ part # "answers" => \A t \in Threads : route[t] = Rest
LogBounds == late \subseteq log /\ reader.read \subseteq log
KeyBounds ==
    /\ clock <= MaxClock /\ consumed \subseteq tokens /\ disk <= keys /\ cached <= keys
    /\ \A k \in tokens : k.key <= keys
    /\ \A t \in Threads : cmd[t].at \in Keying => cmd[t].key <= keys

LEMMA RequestBoundsStep == RequestBounds /\ [Next]_vars => RequestBounds'
<1> SUFFICES ASSUME RequestBounds, [Next]_vars PROVE RequestBounds'
  OBVIOUS
<1>1. local' = local /\ part' = part
  BY LocalStays
<1>2. CASE UNCHANGED vars
  <2>1. asked' = asked /\ route' = route
    BY <1>2 DEF vars, routeVars
  <2> QED BY <1>1, <2>1 DEF RequestBounds
<1>3. ASSUME asked' = asked \/ Asked, part = "answers" \/ route' = route
      PROVE  RequestBounds'
  <2>1. asked' \in 0..MaxAsked
    BY <1>3, AskedAssumption DEF Asked, RequestBounds
  <2> QED BY <1>1, <1>3, <2>1 DEF RequestBounds
<1>4. ASSUME NEW T \in SUBSET Threads, RequestsEnd(T) PROVE RequestBounds'
  <2>1. asked' = asked /\ \A t \in Threads : route'[t] = IF t \in T THEN Rest ELSE route[t]
    BY <1>4 DEF RequestsEnd, Ends
  <2> QED BY <1>1, <2>1 DEF RequestBounds
<1>5. CASE Raise \/ Restart
  BY <1>4, <1>5 DEF Raise, Restart
<1>6. ASSUME NEW t \in Threads, Answering(t) \/ Routing(t) \/ Rating(t) \/ Crediting(t)
      PROVE  (asked' = asked \/ Asked) /\ part = "answers"
  BY <1>6 DEF Answering, Routing, Rating, Crediting, Only
<1>7. ASSUME NEW t \in Threads,
             Calling(t) \/ Renewing(t) \/ Emitting(t) \/ Saving(t) \/ Deriving(t)
               \/ Commanding(t) \/ Confirming(t)
      PROVE  (asked' = asked \/ Asked) /\ route' = route
  BY <1>7 DEF Calling, Renewing, Emitting, Saving, Deriving, Commanding, Confirming,
     OthersThanTokens, OthersThanInsight, OthersThanCommands, routeVars
<1>8. CASE Cooling \/ Ageing \/ Reading \/ Subscribing \/ Ticking \/ Forgetting \/ Upgrading
  <2>1. (asked' = asked \/ Asked) /\ (part = "answers" \/ route' = route)
    BY <1>8 DEF Cooling, Ageing, Reading, Subscribing, Ticking, Forgetting, Upgrading, Only,
       OthersThanTokens, OthersThanCommands, OthersThanUpgrade, routeVars
  <2> QED BY <1>3, <2>1
<1> QED BY <1>2, <1>3, <1>5, <1>6, <1>7, <1>8 DEF Next

LEMMA LogBoundsStep == LogBounds /\ [Next]_vars => LogBounds'
<1> SUFFICES ASSUME LogBounds, [Next]_vars PROVE LogBounds'
  OBVIOUS
<1>1. CASE UNCHANGED vars
  BY <1>1 DEF vars, logVars, LogBounds
<1>2. ASSUME NEW t \in Threads, EmitStep(t) PROVE LogBounds'
  BY <1>2 DEF EmitStep, Store, Commit, FindHooks, Post, LogBounds
<1>3. CASE ListEvents
  <2>1. PICK next \in Page(reader.cursor) :
           reader' = [cursor |-> next, read |-> reader.read \cup Page(reader.cursor)]
    BY <1>3 DEF ListEvents, NextAfter
  <2>2. Page(reader.cursor) \subseteq log /\ log' = log /\ late' = late
    BY <1>3 DEF ListEvents, Page, Following
  <2> QED BY <2>1, <2>2 DEF LogBounds
<1>4. CASE UNCHANGED <<log, late, reader>>
  BY <1>4 DEF LogBounds
<1> QED BY <1>1, <1>2, <1>3, <1>4, LogSteps DEF logVars, Subscribe, Unsubscribe

LEMMA KeyBoundsStep == CommandTypes /\ KeyBounds /\ [Next]_vars => KeyBounds'
<1> SUFFICES ASSUME CommandTypes, KeyBounds, [Next]_vars PROVE KeyBounds'
  OBVIOUS
<1>a. /\ keys \in Nat /\ clock \in Nat /\ disk \in Nat /\ cached \in Nat
      /\ \A k \in tokens : k.key \in Nat
      /\ \A t \in Threads : cmd[t].at \in Keying => cmd[t].key \in Nat
  BY Busy DEF CommandTypes, Minting, Verifying
<1>b. Rest.at \notin Keying /\ "refused" \notin Keying /\ "consume" \notin Keying
  BY DEF Rest, Keying
<1>1. CASE UNCHANGED confirmVars
  BY <1>1 DEF confirmVars, KeyBounds
<1>2. ASSUME NEW t \in Threads, CommandCall(t) PROVE KeyBounds'
  <2>1. PICK q : cmd' = [cmd EXCEPT ![t] = q] /\ (q.at \notin Keying \/ q.key = 0)
    BY <1>2, <1>b DEF CommandCall, PlanCommand, ExecuteCommand
  <2>2. \A u \in Threads : cmd'[u] = IF u = t THEN q ELSE cmd[u]
    BY <2>1 DEF CommandTypes
  <2>3. UNCHANGED <<keyVars, tokenVars>>
    BY <1>2 DEF CommandCall, PlanCommand, ExecuteCommand
  <2>4. UNCHANGED <<clock, tokens, consumed, disk, cached, keys>>
    BY <2>3 DEF keyVars, tokenVars
  <2> QED BY <1>a, <2>1, <2>2, <2>4 DEF KeyBounds
<1>3. ASSUME NEW t \in Threads, CommandStep(t) PROVE KeyBounds'
  <2>1. CASE KeyAtHand(t) \/ ReadFile(t) \/ Truncate(t) \/ Fill(t) \/ CacheKey(t) \/ DrawInMemory(t)
    <3>1. cmd[t] \in Minting \cup Verifying /\ cmd[t].at \in Keying
      BY <2>1, Busy DEF KeyAtHand, ReadFile, Truncate, Fill, CacheKey, DrawInMemory, Keying
    <3>2. PICK a \in Keying, k \in Nat :
             /\ cmd' \in {[cmd EXCEPT ![t].at = a], [cmd EXCEPT ![t].at = a, ![t].key = k]}
             /\ k <= keys'
      BY <1>a, <2>1, <3>1 DEF KeyAtHand, ReadFile, Truncate, Fill, CacheKey, DrawInMemory, Has,
         Proceeds, Keying, CommandTypes, KeyBounds, Kept, EnvKey, keyVars
    <3>3. \A u \in Threads : u # t => cmd'[u] = cmd[u]
      BY <3>2 DEF CommandTypes
    <3>4. cmd'[t].key \in {cmd[t].key, k}
      BY <3>1, <3>2 DEF CommandTypes, Minting, Verifying
    <3>5. /\ keys <= keys' /\ keys' \in Nat /\ disk' <= keys' /\ cached' <= keys'
      BY <1>a, <2>1, <3>1 DEF KeyAtHand, ReadFile, Truncate, Fill, CacheKey, DrawInMemory,
         KeyBounds, Kept, keyVars
    <3>6. UNCHANGED <<clock, tokens, consumed>>
      BY <2>1 DEF KeyAtHand, ReadFile, Truncate, Fill, CacheKey, DrawInMemory, tokenVars
    <3>7. \A u \in Threads : cmd'[u].at \in Keying => cmd'[u].key <= keys'
      BY <1>a, <3>1, <3>2, <3>3, <3>4, <3>5 DEF KeyBounds
    <3>8. \A l \in tokens : l.key <= keys'
      BY <1>a, <3>5 DEF KeyBounds
    <3> QED BY <3>5, <3>6, <3>7, <3>8 DEF KeyBounds
  <2>2. CASE Mint(t)
    <3>1. cmd[t].key <= keys
      BY <2>2 DEF Mint, KeyBounds, Keying
    <3>2. \A u \in Threads : cmd'[u] = IF u = t THEN Rest ELSE cmd[u]
      BY <2>2 DEF Mint, Done, CommandTypes
    <3>3. UNCHANGED <<clock, consumed, disk, cached, keys>>
      BY <2>2 DEF Mint, keyVars
    <3>4. tokens \subseteq tokens' /\ \A k \in tokens' : k.key <= keys
      BY <2>2, <3>1 DEF Mint, KeyBounds
    <3> QED BY <1>b, <3>2, <3>3, <3>4 DEF KeyBounds
  <2>3. CASE Verify(t) \/ Consume(t) \/ Refuse(t)
    <3>1. \A u \in Threads : u # t => cmd'[u] = cmd[u]
      BY <2>3 DEF Verify, Consume, Refuse, Proceeds, Done, CommandTypes
    <3>2. cmd'[t].at \notin Keying \/ cmd'[t].key = 0
      <4>1. CASE Verify(t) \/ Consume(t)
        <5>1. cmd[t] \in Verifying
          BY <4>1, Busy DEF Verify, Consume, Keying
        <5>2. \E a \in {"consume", "refused"} :
                 cmd' = [cmd EXCEPT ![t].at = a] \/ cmd' = [cmd EXCEPT ![t] = Rest]
          BY <4>1 DEF Verify, Consume, Proceeds, Done
        <5> QED BY <1>b, <5>1, <5>2 DEF Verifying, CommandTypes
      <4>2. CASE Refuse(t)
        <5> DEFINE q == [at |-> "key", for |-> "mint", of |-> cmd[t].of, ts |-> clock, key |-> 0]
        <5>1. cmd' = [cmd EXCEPT ![t] = Rest] \/ cmd' = [cmd EXCEPT ![t] = q]
          BY <4>2 DEF Refuse, Done
        <5>2. q.key = 0
          OBVIOUS
        <5> HIDE DEF q
        <5> QED BY <1>b, <5>1, <5>2 DEF CommandTypes
      <4> QED BY <2>3, <4>1, <4>2
    <3>3. UNCHANGED <<clock, tokens, disk, cached, keys>>
      BY <2>3 DEF Verify, Consume, Refuse, keyVars, tokenVars
    <3>4. consumed' \subseteq tokens
      <4>1. CASE Consume(t)
        <5>1. cmd[t].token \in tokens
          BY <4>1, Busy DEF Consume, Verifying
        <5> QED BY <4>1, <5>1 DEF Consume, Remembered, KeyBounds
      <4>2. CASE Verify(t) \/ Refuse(t)
        BY <4>2 DEF Verify, Refuse, tokenVars, KeyBounds
      <4> QED BY <2>3, <4>1, <4>2
    <3> QED BY <1>a, <3>1, <3>2, <3>3, <3>4 DEF KeyBounds
  <2> QED BY <1>3, <2>1, <2>2, <2>3 DEF CommandStep
<1>4. CASE Tick
  BY <1>4, <1>a, ClockAssumption DEF Tick, keyVars, KeyBounds
<1>5. CASE Forget
  BY <1>5, <1>a, <1>b DEF Forget, KeyBounds
<1>6. CASE UNCHANGED vars
  BY <1>1, <1>6 DEF vars
<1> QED BY <1>1, <1>2, <1>3, <1>4, <1>5, <1>6, CommandSteps

(* The state is always what the stores and the threads can hold.           *)
THEOREM TypesHold == Spec => []TypeOK
<1>1. Init => RequestBounds /\ LogBounds /\ KeyBounds
  <2> SUFFICES ASSUME Init PROVE RequestBounds /\ LogBounds /\ KeyBounds
    OBVIOUS
  <2>1. RequestBounds
    BY AskedAssumption DEF Init, RoutingInit, RequestBounds
  <2>2. LogBounds
    BY DEF Init, LogInit, LogBounds
  <2>3. KeyBounds
    BY ClockAssumption DEF Init, ConfirmInit, KeyBounds, EnvKey, Rest, Keying
  <2> QED BY <2>1, <2>2, <2>3
<1>2. Init => LogInv /\ VaultInv /\ KeysInv
  <2> SUFFICES ASSUME Init PROVE LogInv /\ VaultInv /\ KeysInv
    OBVIOUS
  <2>1. LogInv
    BY DEF Init, LogInit, LogInv, ReadersMissNothing, Emissions, Rest
  <2>2. VaultInv
    BY DEF Init, VaultInit, VaultInv, Renewals
  <2>3. KeysInv
    BY DEF Init, ConfirmInit, KeysInv, SigningInv, FileInv, Rest, Fetching
  <2> QED BY <2>1, <2>2, <2>3
<1>3. ASSUME RequestBounds, LogBounds, KeyBounds, LogInv, VaultInv, CommandTypes, KeysInv, UpgradeInv,
             RouteInv, FeedbackInv, InsightInv
      PROVE  TypeOK
  <2>1. /\ used \in [Routes -> Nat] /\ cooling \subseteq Routes /\ answered \in Nat
        /\ given \subseteq 1..answered /\ credits \in Nat /\ samples \in 0..lengths
    BY <1>3 DEF RouteInv, RouteTypes, FeedbackInv, FeedbackTypes
  <2>2. {"left", "chosen"} \cap UNION {DOMAIN route[t] : t \in Threads} # {} => part = "answers"
    BY <1>3 DEF RequestBounds, Rest
  <2>3. \A t \in Threads : "grant" \in DOMAIN submit[t] => submit[t].grant \in 0..Survey
    BY <1>3 DEF FeedbackInv, FeedbackTypes, Submissions, Rest
  <2>4. /\ row \in {"none", "valid", "expired", "revoked"}
        /\ late \subseteq log /\ log \subseteq 1..drawn /\ hooks \subseteq Hooks
        /\ reader.cursor \in 0..drawn /\ reader.read \subseteq log
    <3>1. drawn \in Nat /\ log \subseteq 1..drawn /\ reader.cursor \in log \cup {0}
      BY <1>3 DEF LogInv
    <3>2. reader.cursor \in 1..drawn \/ reader.cursor = 0
      BY <3>1
    <3> QED BY <1>3, <3>1, <3>2 DEF LogInv, LogBounds, VaultInv
  <2>5. /\ capsules \cup indexed \subseteq Videos /\ saved \subseteq Videos
        /\ links \subseteq (UNION {Names(v) : v \in Videos}) \X Videos
    BY <1>3 DEF InsightInv, InsightTypes
  <2>6. /\ clock \in 0..MaxClock /\ {disk, cached} \subseteq 0..keys
        /\ recent \subseteq tokens /\ consumed \cup accepted \subseteq tokens
    BY <1>3, ClockAssumption DEF CommandTypes, KeyBounds
  <2>7. ASSUME NEW k \in tokens PROVE k.of \in Commands /\ k.key \in 1..keys
    <3>1. k.of \in Commands /\ k.key \in Nat /\ k.key <= keys /\ k.key # 0 /\ keys \in Nat
      BY <1>3 DEF CommandTypes, KeyBounds, KeysInv, SigningInv
    <3> QED BY <3>1
  <2>8. version \in 0..SchemaVersion /\ made \subseteq 1..(SchemaVersion - 1)
    BY <1>3 DEF UpgradeInv, FileTypes, ScriptsRun
  <2>9. local \in BOOLEAN /\ part \in Parts /\ asked \in 0..MaxAsked
    BY <1>3 DEF RequestBounds
  <2> QED BY <2>1, <2>2, <2>3, <2>4, <2>5, <2>6, <2>7, <2>8, <2>9 DEF TypeOK
<1>5. Spec => [](CommandTypes /\ KeysInv /\ KeyBounds)
  BY <1>1, <1>2, CommandTypesInit, CommandTypesStep, KeysStep, KeyBoundsStep, PTL DEF Spec
<1>6. Spec => [](RequestBounds /\ LogBounds /\ LogInv /\ VaultInv)
  BY <1>1, <1>2, RequestBoundsStep, LogBoundsStep, LogStep, VaultInvStep, PTL DEF Spec
<1>7. Spec => [](UpgradeInv /\ RouteInv /\ FeedbackInv /\ InsightInv)
  BY UpgradeInvInit, UpgradeKeeps, AnswersInvInit, AnswersInvStep, InsightInvInit, InsightInvStep,
     PTL DEF Spec
<1> QED BY <1>3, <1>5, <1>6, <1>7, PTL

=============================================================================
