------------------------------ MODULE ServicePlane ------------------------------
(***************************************************************************)
(* The services around the memory, as requests of one user use them: the   *)
(* answers with their feedback, the tokens with their events, the insight  *)
(* into what was saved, the confirmation of bulk commands; and the upgrade *)
(* of the file before any of them.  These share no rows, so that each      *)
(* behaviour is about one of them.                                         *)
(***************************************************************************)
EXTENDS Feedback, TokenVault, InsightIndex, CommandConfirm, SchemaUpgrade

CONSTANT MaxAsked       \* bound: the requests of a behaviour
ASSUME AskedAssumption == MaxAsked \in Nat

VARIABLES part, asked
vars ==
    <<local, part, asked, routeVars, feedbackVars, vaultVars, logVars, insightVars,
      confirmVars, upgradeVars>>

Parts == {"answers", "tokens", "insight", "commands", "upgrade"}

Init ==
    /\ local \in BOOLEAN /\ part \in Parts /\ asked = 0
    /\ RoutingInit /\ (part # "answers" => answered = 0) /\ FeedbackInit /\ VaultInit /\ LogInit
    /\ capsuled \in (IF part = "insight" THEN BOOLEAN ELSE {FALSE}) /\ InsightInit
    /\ place \in (IF part = "commands" THEN Places ELSE {"env"}) /\ ConfirmInit
    /\ UpgradeInit /\ (part # "upgrade" => version = 0 /\ ~Exists("video_registry"))
    /\ (part \in {"commands", "upgrade"} => local)

-----------------------------------------------------------------------------
Only(name) == part = name /\ UNCHANGED <<local, part>>
OthersThanAnswers == UNCHANGED <<vaultVars, logVars, insightVars, confirmVars, upgradeVars>>
OthersThanTokens == UNCHANGED <<routeVars, feedbackVars, insightVars, confirmVars, upgradeVars>>
OthersThanInsight ==
    UNCHANGED <<routeVars, feedbackVars, vaultVars, logVars, confirmVars, upgradeVars>>
OthersThanCommands ==
    UNCHANGED <<routeVars, feedbackVars, vaultVars, logVars, insightVars, upgradeVars>>
OthersThanUpgrade ==
    UNCHANGED <<routeVars, feedbackVars, vaultVars, logVars, insightVars, confirmVars>>
Asked == asked < MaxAsked /\ asked' = asked + 1

Answering(t) ==
    /\ Only("answers") /\ OthersThanAnswers /\ submit[t] = Rest
    /\ Ask(t) /\ Asked /\ UNCHANGED feedbackVars
Routing(t) ==
    /\ Only("answers") /\ OthersThanAnswers
    /\ RouteStep(t) /\ UNCHANGED <<asked, feedbackVars>>
Rating(t) ==
    /\ Only("answers") /\ OthersThanAnswers /\ route[t] = Rest
    /\ Submit(t) /\ Asked /\ UNCHANGED routeVars
Crediting(t) ==
    /\ Only("answers") /\ OthersThanAnswers
    /\ FeedbackStep(t) /\ UNCHANGED <<asked, routeVars>>
Cooling ==
    /\ Only("answers") /\ OthersThanAnswers
    /\ CooledDown /\ UNCHANGED <<asked, feedbackVars>>

Calling(t) == Only("tokens") /\ OthersThanTokens /\ VaultCall(t) /\ Asked
Renewing(t) == Only("tokens") /\ OthersThanTokens /\ VaultStep(t) /\ UNCHANGED asked
Emitting(t) == Only("tokens") /\ OthersThanTokens /\ EmitStep(t) /\ UNCHANGED <<asked, vaultVars>>
Ageing == Only("tokens") /\ OthersThanTokens /\ Expire /\ UNCHANGED asked
Reading ==
    /\ Only("tokens") /\ OthersThanTokens
    /\ ListEvents /\ UNCHANGED <<asked, vaultVars>>
Subscribing ==
    /\ Only("tokens") /\ OthersThanTokens
    /\ (Subscribe \/ Unsubscribe) /\ Asked /\ UNCHANGED vaultVars

Saving(t) == Only("insight") /\ OthersThanInsight /\ InsightCall(t) /\ Asked
Deriving(t) == Only("insight") /\ OthersThanInsight /\ InsightStep(t) /\ UNCHANGED asked

Commanding(t) == Only("commands") /\ OthersThanCommands /\ CommandCall(t) /\ Asked
Confirming(t) == Only("commands") /\ OthersThanCommands /\ CommandStep(t) /\ UNCHANGED asked
Ticking == Only("commands") /\ OthersThanCommands /\ Tick /\ UNCHANGED asked
Forgetting == Only("commands") /\ OthersThanCommands /\ Forget /\ UNCHANGED asked

Upgrading == Only("upgrade") /\ OthersThanUpgrade /\ UpgradeStep /\ UNCHANGED asked

-----------------------------------------------------------------------------
(* A store raises and the request ends there, or the process restarts and  *)
(* all of them do.                                                         *)
Ends(who, T) == [t \in Threads |-> IF t \in T THEN Rest ELSE who[t]]
RequestsEnd(T) ==
    /\ \E t \in T : \E q \in {route[t], submit[t], vault[t], emit[t], job[t]} : q # Rest
    /\ route' = Ends(route, T) /\ submit' = Ends(submit, T)
    /\ vault' = Ends(vault, T) /\ emit' = Ends(emit, T) /\ job' = Ends(job, T)
    /\ UNCHANGED <<local, part, asked, used, answered, given, credits, samples, lengths,
                   row, log, drawn, late, hooks, reader,
                   capsuled, saved, capsules, rows, links, indexed,
                   confirmVars, upgradeVars>>
Raise == \E t \in Threads : RequestsEnd({t}) /\ UNCHANGED cooling
Restart == RequestsEnd(Threads) /\ cooling' = {}

Next ==
    \/ \E t \in Threads :
          \/ Answering(t) \/ Routing(t) \/ Rating(t) \/ Crediting(t)
          \/ Calling(t) \/ Renewing(t) \/ Emitting(t)
          \/ Saving(t) \/ Deriving(t)
          \/ Commanding(t) \/ Confirming(t)
    \/ Cooling \/ Ageing \/ Reading \/ Subscribing
    \/ Ticking \/ Forgetting \/ Upgrading
    \/ Raise \/ Restart

Spec == Init /\ [][Next]_vars

-----------------------------------------------------------------------------
(* The state is what the stores and the threads can hold; in particular no *)
(* reward is negative.                                                     *)
TypeOK ==
    /\ local \in BOOLEAN /\ part \in Parts /\ asked \in 0..MaxAsked
    /\ used \in [Routes -> Nat] /\ cooling \subseteq Routes /\ answered \in Nat
    /\ {"left", "chosen"} \cap UNION {DOMAIN route[t] : t \in Threads} # {} => part = "answers"
    /\ given \subseteq 1..answered /\ credits \in Nat /\ samples \in 0..lengths
    /\ \A t \in Threads : "grant" \in DOMAIN submit[t] => submit[t].grant \in 0..Survey
    /\ row \in {"none", "valid", "expired", "revoked"}
    /\ late \subseteq log /\ log \subseteq 1..drawn /\ hooks \subseteq Hooks
    /\ reader.cursor \in 0..drawn /\ reader.read \subseteq log
    /\ capsules \cup indexed \subseteq Videos /\ saved \subseteq Videos
    /\ clock \in 0..MaxClock /\ {disk, cached} \subseteq 0..keys
    /\ recent \subseteq tokens /\ consumed \cup accepted \subseteq tokens
    /\ \A k \in tokens : k.of \in Commands /\ k.key \in 1..keys
    /\ version \in 0..SchemaVersion /\ made \subseteq 1..(SchemaVersion - 1)
    /\ links \subseteq (UNION {Names(v) : v \in Videos}) \X Videos

(* The budget of a route and the daily cap of credits are read first, and  *)
(* used up in a later transaction or statement.  They may be exceeded by   *)
(* what the other threads had under way, and not by more, however long it  *)
(* goes on.  In SQLite only the budgets may, and each feedback about the   *)
(* length is counted.                                                      *)
SpendingStaysInBounds ==
    LET others == Cardinality(Threads) - 1
        racing == IF local THEN 0 ELSE others
    IN
    /\ \A r \in Routes : used[r] <= Budget[r] + others
    /\ credits <= DailyCap + racing * Survey
    /\ local => samples = lengths

(* Two videos that were indexed to the end, in whatever order or at the    *)
(* same time, and share a topic have an edge between them, if the topic is *)
(* among the first MaxNames names of both.  Excepted are the videos whose  *)
(* indexing met more than MaxPeers others: it takes any MaxPeers of these. *)
SharedTopicsAreLinked ==
    \A v, w \in indexed :
       v # w /\ Range(TopicsOf[v]) \cap Range(TopicsOf[w]) \cap LookedFor(v) \cap LookedFor(w) # {} =>
          {<<"same_topic", v, w>>, <<"same_topic", w, v>>} \cap rows # {}

(* An authorization that was revoked comes back only when the user         *)
(* connects again, or out of a refresh that was under way when it was      *)
(* revoked.  (That it may come back out of such a refresh is a weakness.)  *)
RevokedTokensStayRevoked ==
    [][row = "revoked" /\ row' # "revoked" =>
          \E t \in Threads :
             \/ Unoccupied(t) /\ vault'[t] = Rest /\ ~Quiet(t)'
             \/ vault[t].at = "put" /\ vault[t].crossed]_vars

(* Whoever follows the log by its cursor is given every event that has an  *)
(* id up to there, but for those that were committed after a later one;    *)
(* SQLite has none of these.                                               *)
ReadersMissNothing ==
    /\ {e \in log : e <= reader.cursor} \subseteq reader.read \cup late
    /\ local => late = {}

(* "Verify HMAC token and mark it single-use (reject replays within TTL)": *)
(* until the second in which it expires, a process accepts a token once.   *)
ConfirmedOnce ==
    [][\A t \in Threads :
          Accepts(t) /\ cmd'[t] = Rest /\ cached' = cached
             => cmd[t].token \notin accepted \/ clock >= cmd[t].token.exp]_vars

(* "A later successful file write cannot invalidate tokens minted": those  *)
(* a process hands out stay good as long as it runs; kept in a file, also  *)
(* longer, but if two requests drew a key at once or one was not stored.   *)
TokensStayGood ==
    /\ \A k \in recent : k.key = IF place = "env" THEN EnvKey ELSE cached
    /\ place = "file" /\ ~raced => \A k \in tokens : k.key = disk

(* No row of the library is ever lost, and a program that is up has every  *)
(* table and all rows where it looks for them, if it did not die in the    *)
(* middle of the exchange: then rows may stay behind in a copy for good.   *)
UpgradesKeepTheLibrary ==
    /\ \A n \in TableNames : known[n] \subseteq lib[n].rows \cup lib[Copy(n)].rows
    /\ at.do = "up" /\ ~torn =>
          /\ version = SchemaVersion /\ made = 1..(SchemaVersion - 1)
          /\ \A n \in TableNames : lib[n].shape = "keyed" /\ known[n] \subseteq lib[n].rows
=============================================================================
