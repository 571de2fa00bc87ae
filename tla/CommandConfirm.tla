----------------------------- MODULE CommandConfirm -----------------------------
(***************************************************************************)
(* The tokens by which a user confirms a bulk command: handed out with the *)
(* plan of the command, signed with a secret key, and good for one         *)
(* execution until they expire.  The key is the configured one, or it is   *)
(* drawn once and kept in a file and in memory; the tokens that were used  *)
(* are kept in memory only.  A token is [of, exp, key]: what it confirms,  *)
(* the last second it is good for, and the key it is signed with.          *)
(***************************************************************************)
EXTENDS Requests

CONSTANTS
    Commands,       \* bulk commands: a user, an intent and a query
    Ttl,            \* seconds a token is good for
    MaxClock        \* bound: the seconds of a behaviour
ASSUME ClockAssumption == Ttl \in Nat /\ MaxClock \in Nat

VARIABLES
    clock,      \* in seconds
    place,      \* where the key is kept besides memory
    disk,       \* the key in the file; 0: there is none, or half of one
    cached,     \* the key in memory, or 0
    keys,       \* how many keys there have been
    tokens,     \* all tokens that were handed out
    recent,     \* those of them handed out since the start of the process
    consumed,   \* _used_confirm_tokens
    accepted,   \* tokens accepted since the start of the process (history)
    raced,      \* a key was drawn while another was being stored, or the
                \* file was left incomplete (history)
    cmd         \* what a thread does with a command
confirmVars ==
    <<clock, place, disk, cached, keys, tokens, recent, consumed, accepted, raced, cmd>>
keyVars == <<place, disk, cached, keys, raced>>
tokenVars == <<clock, tokens, recent, consumed, accepted>>

EnvKey == 1         \* AUTH_SECRET; later ones are drawn
Places == {"env", "file", "read-only", "memory"}

ConfirmInit ==
    /\ clock = 0 /\ disk = 0 /\ cached = 0 /\ keys = EnvKey
    /\ tokens = {} /\ recent = {} /\ consumed = {} /\ accepted = {}
    /\ raced = FALSE /\ cmd = [t \in Threads |-> Rest]

Tick ==
    /\ clock < MaxClock /\ clock' = clock + 1
    /\ UNCHANGED <<keyVars, tokens, recent, consumed, accepted, cmd>>

Proceeds(t, at) == cmd' = [cmd EXCEPT ![t].at = at]
Has(t, at, key) == cmd' = [cmd EXCEPT ![t].at = at, ![t].key = key]
Done(t) == cmd' = [cmd EXCEPT ![t] = Rest]

-----------------------------------------------------------------------------
(* A request reads the clock and goes for the key.  To plan a command, a   *)
(* token of it is made;                                                    *)
PlanCommand(t, c) ==
    /\ cmd[t] = Rest
    /\ cmd' = [cmd EXCEPT ![t] = [at |-> "key", for |-> "mint", of |-> c, ts |-> clock, key |-> 0]]
    /\ UNCHANGED <<keyVars, tokenVars>>
(* to execute it, the token that the user sends is verified, unless it     *)
(* confirms something else or has expired.                                 *)
InTime(token, ts) == ts <= token.exp
ExecuteCommand(t, c, token) ==
    /\ cmd[t] = Rest
    /\ cmd' = [cmd EXCEPT ![t] =
          IF token.of = c /\ InTime(token, clock)
          THEN [at |-> "key", for |-> "verify", of |-> c, ts |-> clock, key |-> 0, token |-> token]
          ELSE [at |-> "refused", of |-> c]]
    /\ UNCHANGED <<keyVars, tokenVars>>

-----------------------------------------------------------------------------
(* _secret: the configured key, or the cached one,                         *)
KeyAtHand(t) ==
    /\ cmd[t].at = "key"
    /\ \/ place = "env" /\ Has(t, "sign", EnvKey)
       \/ place # "env" /\ cached # 0 /\ Has(t, "sign", cached)
       \/ place # "env" /\ cached = 0 /\ Proceeds(t, "file")
    /\ UNCHANGED <<keyVars, tokenVars>>
(* or the one in the file, if there is a whole one; or else one is drawn, *)
Storing == \E u \in Threads : cmd[u].at \in {"write", "fill", "cache"}
ReadFile(t) ==
    /\ cmd[t].at = "file" /\ place # "memory"
    /\ IF disk # 0
       THEN Has(t, "cache", disk) /\ UNCHANGED <<keys, raced>>
       ELSE /\ keys' = keys + 1
            /\ Has(t, IF place = "file" THEN "write" ELSE "cache", keys')
            /\ raced' = (raced \/ Storing)
    /\ UNCHANGED <<place, disk, cached, tokenVars>>
(* written over what is there,                                             *)
Truncate(t) ==
    /\ cmd[t].at = "write"
    /\ disk' = 0 /\ Proceeds(t, "fill")
    /\ UNCHANGED <<place, cached, keys, raced, tokenVars>>
Fill(t) ==
    /\ cmd[t].at = "fill"
    /\ \/ disk' = cmd[t].key /\ UNCHANGED raced
       \/ raced' = TRUE /\ UNCHANGED disk       \* OSError
    /\ Proceeds(t, "cache")
    /\ UNCHANGED <<place, cached, keys, tokenVars>>
(* and cached, unless there is one in the cache by now.                    *)
(* Mutant of Kept: the later one stays.                                    *)
KeptLast(key) == key
Kept(key) == IF cached # 0 THEN cached ELSE key
CacheKey(t) ==
    /\ cmd[t].at = "cache"
    /\ cached' = Kept(cmd[t].key) /\ Has(t, "sign", cached')
    /\ UNCHANGED <<place, disk, keys, raced, tokenVars>>
DrawInMemory(t) ==
    /\ cmd[t].at = "file" /\ place = "memory"
    /\ keys' = IF cached = 0 THEN keys + 1 ELSE keys
    /\ cached' = Kept(keys') /\ Has(t, "sign", cached')
    /\ UNCHANGED <<place, disk, raced, tokenVars>>

-----------------------------------------------------------------------------
(* mint_confirm_token: the same command in the same second has the same.   *)
Mint(t) ==
    LET token == [of |-> cmd[t].of, exp |-> cmd[t].ts + Ttl, key |-> cmd[t].key] IN
    /\ cmd[t].at = "sign" /\ cmd[t].for = "mint"
    /\ tokens' = tokens \cup {token} /\ recent' = recent \cup {token}
    /\ Done(t)
    /\ UNCHANGED <<clock, consumed, accepted, keyVars>>

(* verify_confirm_token: the signature is that of the key.                 *)
Verify(t) ==
    /\ cmd[t].at = "sign" /\ cmd[t].for = "verify"
    /\ Proceeds(t, IF cmd[t].token.key = cmd[t].key THEN "consume" ELSE "refused")
    /\ UNCHANGED <<keyVars, tokenVars>>

(* consume_confirm_token, under its lock: what has expired is forgotten,   *)
(* and the token must not have been used.                                  *)
(* Mutant of Stale: one second too early.                                  *)
StaleEarly(token, ts) == token.exp <= ts + 1
Stale(token, ts) == token.exp <= ts
Remembered(ts) == {k \in consumed : ~Stale(k, ts)}
Accepts(t) == cmd[t].at = "consume" /\ cmd[t].token \notin Remembered(cmd[t].ts)
Consume(t) ==
    /\ cmd[t].at = "consume"
    /\ IF Accepts(t)
       THEN /\ consumed' = Remembered(cmd[t].ts) \cup {cmd[t].token}
            /\ accepted' = accepted \cup {cmd[t].token}
            /\ Done(t)
       ELSE consumed' = Remembered(cmd[t].ts) /\ UNCHANGED accepted /\ Proceeds(t, "refused")
    /\ UNCHANGED <<clock, tokens, recent, keyVars>>

(* Who was refused is told so, or given another token at once.             *)
Refuse(t) ==
    /\ cmd[t].at = "refused"
    /\ \/ Done(t)
       \/ cmd' = [cmd EXCEPT ![t] =
            [at |-> "key", for |-> "mint", of |-> cmd[t].of, ts |-> clock, key |-> 0]]
    /\ UNCHANGED <<keyVars, tokenVars>>

(* The process starts again: what it had in memory is gone.                *)
Forget ==
    /\ cached' = 0 /\ recent' = {} /\ consumed' = {} /\ accepted' = {}
    /\ raced' = (raced \/ \E t \in Threads : cmd[t].at \in {"write", "fill"})
    /\ cmd' = [t \in Threads |-> Rest]
    /\ UNCHANGED <<clock, place, disk, keys, tokens>>

CommandCall(t) ==
    \E c \in Commands : PlanCommand(t, c) \/ \E token \in tokens : ExecuteCommand(t, c, token)
CommandStep(t) ==
    \/ KeyAtHand(t) \/ ReadFile(t) \/ Truncate(t) \/ Fill(t) \/ CacheKey(t) \/ DrawInMemory(t)
    \/ Mint(t) \/ Verify(t) \/ Consume(t) \/ Refuse(t)
=============================================================================
