------------------------------ MODULE Sessions ------------------------------
(***************************************************************************)
(* The server's sessions and its limit of failed logins (auth.py).  A      *)
(* token is kept by itself in one dictionary while the process lives, by   *)
(* its hash in another after a restart, and by its hash in the database;   *)
(* requests in threads of their own look for it in that order, each look   *)
(* a step, while logins, logouts and the cleanup run on the event loop.    *)
(* Failed logins of an address are counted over a window that slides.      *)
(***************************************************************************)
EXTENDS Naturals, FiniteSets

CONSTANTS Token,         \* tokens that logins may make
          Request,       \* threads that validate one
          TokenLife,     \* TOKEN_TTL_H
          SessionFaults, \* bound: restarts and failed database calls
          LoginWindow,   \* window_s
          Lockout,       \* lockout_s
          MaxAttempts,   \* max_attempts
          SessionClock   \* bound: the clock

ASSUME SessionAssumption ==
    /\ Token # {} /\ {SessionFaults, SessionClock} \subseteq Nat
    /\ {TokenLife, LoginWindow, Lockout, MaxAttempts} \subseteq Nat \ {0}

VARIABLES now, faults,
          tokens,    \* _tokens
          byHash,    \* _tokens_by_hash
          rows,      \* the table tokens
          expires,   \* the time that goes with a token, 0 if it was never made
          looks,   \* what each thread does, with which token
          leaving,   \* the tokens whose logout has yet to delete the row
          gone, \* history: tokens of a logout, or that were never stored
          attempts,  \* _attempts of an address: times, numbered as some are equal
          lockedTo,  \* _lockouts of it, 0 if it has none
          failures,  \* history: its failed logins since the last success or lockout
          due        \* history: until when it deserves to be locked out

sessionVars == <<now, faults, tokens, byHash, rows, expires, looks, leaving, gone>>
loginVars == <<attempts, lockedTo, failures, due>>

NoRequest == [at |-> "rest", token |-> CHOOSE t \in Token : TRUE, failed |-> FALSE]

SessionTypeOK ==
    /\ now \in 0..SessionClock /\ faults \in 0..SessionFaults
    /\ {tokens, byHash, rows, leaving, gone} \subseteq SUBSET Token
    /\ expires \in [Token -> 0..SessionClock + TokenLife]
    /\ looks \in [Request -> [at : {"rest", "hash", "row", "store", "refused"},
                                token : Token, failed : BOOLEAN]]
    /\ {attempts, failures} \subseteq SUBSET (Nat \X (0..SessionClock))
    /\ Cardinality(attempts) < MaxAttempts /\ {lockedTo, due} \subseteq 0..SessionClock + Lockout

SessionInit ==
    /\ now = 0 /\ faults = 0 /\ tokens = {} /\ byHash = {} /\ rows = {}
    /\ expires = [t \in Token |-> 0] /\ looks = [r \in Request |-> NoRequest]
    /\ leaving = {} /\ gone = {}
    /\ attempts = {} /\ lockedTo = 0 /\ failures = {} /\ due = 0

Live(t) == expires[t] > now

\* A database call fails, which is logged and otherwise overlooked.
CallFails == faults < SessionFaults /\ faults' = faults + 1

HourGoes ==
    /\ now < SessionClock /\ now' = now + 1
    /\ UNCHANGED <<faults, tokens, byHash, rows, expires, looks, leaving, gone, loginVars>>

-----------------------------------------------------------------------------
(* Sessions. *)

\* generate: the token goes to the dictionary and to the table; only then does
\* a client have it.
Generate(t) ==
    /\ expires[t] = 0
    /\ expires' = [expires EXCEPT ![t] = now + TokenLife]
    /\ tokens' = tokens \union {t}
    /\ \/ rows' = rows \union {t} /\ UNCHANGED <<faults, gone>>
       \/ CallFails /\ gone' = gone \union {t} /\ UNCHANGED rows
    /\ UNCHANGED <<now, byHash, looks, leaving, loginVars>>

\* validate, first step: the dictionary of tokens.
LookUpToken(r, t) ==
    /\ looks[r].at = "rest" /\ expires[t] # 0
    /\ tokens' = IF Live(t) THEN tokens ELSE tokens \ {t}
    /\ looks' = [looks EXCEPT ![r] =
          IF t \in tokens' THEN NoRequest ELSE [NoRequest EXCEPT !.at = "hash", !.token = t]]
    /\ UNCHANGED <<now, faults, byHash, rows, expires, leaving, gone, loginVars>>

LookUpHashOnly(r) ==
    LET t == looks[r].token found == t \in byHash /\ Live(t) IN
    /\ looks[r].at = "hash"
    /\ byHash' = byHash \ {t}
    /\ tokens' = IF found THEN tokens \union {t} ELSE tokens
    /\ looks' = [looks EXCEPT ![r] = IF found THEN NoRequest ELSE [@ EXCEPT !.at = "refused"]]
    /\ UNCHANGED <<now, faults, rows, expires, leaving, gone, loginVars>>

\* Second step: a token known by its hash moves to the dictionary of tokens.
LookUpHash(r) ==
    LET t == looks[r].token found == t \in byHash /\ Live(t) IN
    /\ looks[r].at = "hash"
    /\ byHash' = byHash \ {t}
    /\ tokens' = IF found THEN tokens \union {t} ELSE tokens
    /\ looks' = [looks EXCEPT ![r] = IF found THEN NoRequest ELSE [@ EXCEPT !.at = "row"]]
    /\ UNCHANGED <<now, faults, rows, expires, leaving, gone, loginVars>>

\* Third step: its row, which may be one that another thread's look has moved.
LookUpRow(r) ==
    /\ looks[r].at = "row"
    /\ \/ /\ looks' = [looks EXCEPT ![r].at =
                IF looks[r].token \in rows /\ Live(looks[r].token) THEN "store" ELSE "refused"]
          /\ UNCHANGED faults
       \/ CallFails /\ looks' = [looks EXCEPT ![r].at = "refused", ![r].failed = TRUE]
    /\ UNCHANGED <<now, tokens, byHash, rows, expires, leaving, gone, loginVars>>

StoreToken(r) ==
    /\ looks[r].at = "store"
    /\ tokens' = tokens \union {looks[r].token}
    /\ looks' = [looks EXCEPT ![r] = NoRequest]
    /\ UNCHANGED <<now, faults, byHash, rows, expires, leaving, gone, loginVars>>

\* The client gets its 401.
Refuse(r) ==
    /\ looks[r].at = "refused"
    /\ looks' = [looks EXCEPT ![r] = NoRequest]
    /\ UNCHANGED <<now, faults, tokens, byHash, rows, expires, leaving, gone, loginVars>>

\* revoke and revoke_by_prefix: the dictionaries, ...
Revoke(t) ==
    /\ expires[t] # 0 /\ t \notin gone
    /\ tokens' = tokens \ {t} /\ byHash' = byHash \ {t}
    /\ leaving' = leaving \union {t} /\ gone' = gone \union {t}
    /\ UNCHANGED <<now, faults, rows, expires, looks, loginVars>>

\* ... then the row.
DeleteRow(t) ==
    /\ t \in leaving /\ leaving' = leaving \ {t}
    /\ \/ rows' = rows \ {t} /\ UNCHANGED faults
       \/ CallFails /\ UNCHANGED rows
    /\ UNCHANGED <<now, tokens, byHash, expires, looks, gone, loginVars>>

\* cleanup of both dictionaries and of the table.
CleanUp ==
    /\ tokens' = {t \in tokens : Live(t)} /\ byHash' = {t \in byHash : Live(t)}
    /\ \/ rows' = {t \in rows : Live(t)} /\ UNCHANGED faults
       \/ CallFails /\ UNCHANGED rows
    /\ UNCHANGED <<now, expires, looks, leaving, gone, loginVars>>

\* A restart loads the rows that have not expired, or fails to.
SessionRestart ==
    /\ CallFails
    /\ tokens' = {} /\ leaving' = {}
    /\ byHash' \in {{t \in rows : Live(t)}, {}}
    /\ looks' = [r \in Request |-> NoRequest]
    /\ UNCHANGED <<now, rows, expires, gone, loginVars>>

SessionNext ==
    \/ HourGoes \/ CleanUp \/ SessionRestart
    \/ \E t \in Token : Generate(t) \/ Revoke(t) \/ DeleteRow(t)
    \/ \E r \in Request :
         \/ \E t \in Token : LookUpToken(r, t)
         \/ LookUpHash(r) \/ LookUpRow(r) \/ StoreToken(r) \/ Refuse(r)

-----------------------------------------------------------------------------
(* Failed logins of one address. *)

InWindow(s) == {f \in s : f[2] + LoginWindow > now}

\* This failure, numbered after those that count.
FailureNow == <<Cardinality(failures) + 1, now>>

\* is_locked drops a lockout that is over.
AskLocked ==
    /\ lockedTo' = IF lockedTo > now THEN lockedTo ELSE 0
    /\ UNCHANGED <<sessionVars, attempts, failures, due>>

\* History: every failure counts, the last MaxAttempts of a window lock.
Count ==
    LET last == InWindow(failures) \union {FailureNow} IN
    /\ failures' = IF Cardinality(last) >= MaxAttempts THEN {} ELSE failures \union {FailureNow}
    /\ due' = IF Cardinality(last) >= MaxAttempts THEN now + Lockout ELSE due

\* record_failure, of a login that may have been let in before a lockout.
RecordFailure ==
    LET last == InWindow(attempts) \union {FailureNow} IN
    /\ \/ Cardinality(last) >= MaxAttempts /\ lockedTo' = now + Lockout /\ attempts' = {}
       \/ Cardinality(last) < MaxAttempts /\ attempts' = last /\ UNCHANGED lockedTo
    /\ Count
    /\ UNCHANGED sessionVars

\* reset, of a login that succeeds.
Succeed ==
    /\ attempts' = {} /\ lockedTo' = 0
    /\ failures' = {} /\ due' = 0
    /\ UNCHANGED sessionVars

KeptIfAllAreRecent == IF InWindow(attempts) = attempts THEN attempts ELSE {}

\* What cleanup keeps of the failures.
KeptFailures == InWindow(attempts)

CleanUpLogins ==
    /\ attempts' = KeptFailures
    /\ lockedTo' = IF lockedTo > now THEN lockedTo ELSE 0
    /\ UNCHANGED <<sessionVars, failures, due>>

LoginNext == HourGoes \/ AskLocked \/ RecordFailure \/ Succeed \/ CleanUpLogins

SessionSpec == SessionInit /\ [][SessionNext \/ LoginNext]_<<sessionVars, loginVars>>

-----------------------------------------------------------------------------
(* Properties. *)

\* "Tokens survive restarts": whatever requests race each other, a logout, the
\* cleanup and restarts, a request is refused only if its token has expired,
\* was logged out or never stored, or the database failed that very request.
SessionsSurvive ==
    \A r \in Request : looks[r].at = "refused" /\ ~looks[r].failed =>
        ~Live(looks[r].token) \/ looks[r].token \in gone

\* An address is locked when, and for as long as, MaxAttempts failures within a
\* window since its last success or lockout ask for it, although the code drops
\* the times it no longer needs.
LockoutIsDeserved ==
    /\ lockedTo > now <=> due > now
    /\ lockedTo > now => lockedTo = due
=============================================================================
