--------------------------- MODULE Authentication ---------------------------
(***************************************************************************)
(* Authentication of connections to the daemon: the sub-negotiations of    *)
(* Conn::handle_authenticate (crates/daemon/src/conn.rs), grants and SSH   *)
(* challenges (crates/auth), and the source-address RateLimiter            *)
(* (crates/daemon/src/auth.rs) that all connections share.                 *)
(*                                                                         *)
(* The limiter is asked when an attempt begins and told when it ends, each *)
(* time under its lock, while other connections (and, for a password, a    *)
(* blocking verifier) run in between: an attempt is two actions, and what  *)
(* the message carries is chosen where it is judged.  Signatures and       *)
(* grants are records; clock is the daemon's time.                         *)
(***************************************************************************)
EXTENDS Naturals, Sequences, FiniteSets

CONSTANTS
    AuthConns,               \* connections
    Sources,             \* source addresses
    SourceOf,            \* peer_ip of a connection
    AuthUsers,           \* user names that exist
    AuthorizedKeys,      \* SshVerifier: user -> keys without options
    SecurityKeys,        \* those that are FIDO keys
    PasswordUsers,       \* allowlisted for password login
    PriorGrants,         \* grants signed with this issuer's key before
    ForeignGrants,       \* grants of other issuers or audiences, garbage
    MaxFailures, Window, Lockout, MaxTracked,   \* RateLimitPolicy
    GrantLife,           \* lifetime of an issued grant
    MaxTime,             \* bound: the clock
    MaxAttempts          \* bound: attempts of each connection

\* A limiter tolerates at least one attempt; there are finitely many
\* connections, each with its source.
ASSUME AuthAssumption ==
    /\ IsFiniteSet(AuthConns) /\ SourceOf \in [AuthConns -> Sources]
    /\ MaxFailures \in Nat \ {0} /\ Window \in Nat /\ Lockout \in Nat

VARIABLES
    clock,
    tracked,             \* RateLimiter's map: its keys,
    failures, lockedUntil, lastSweep,           \* its buckets, the last sweep
    negotiated, authenticated, userId, opScope, \* Conn
    pending,             \* Conn::pending_challenge
    attempt,             \* is an admitted Authenticate message being handled?
    attempts,            \* attempts begun
    nonces,              \* challenges issued
    grants               \* grants issued

limiterVars == <<tracked, failures, lockedUntil, lastSweep>>
connVars == <<negotiated, authenticated, userId, opScope, pending>>
authVars == <<clock, limiterVars, connVars, attempt, attempts, nonces, grants>>

None == "none"
Keys == UNION {AuthorizedKeys[u] : u \in AuthUsers}

AuthInit ==
    /\ clock = 1 /\ tracked = {} /\ lastSweep = 0
    /\ failures = [s \in Sources |-> <<>>]
    /\ lockedUntil = [s \in Sources |-> 0]
    /\ negotiated = [c \in AuthConns |-> FALSE]
    /\ authenticated = [c \in AuthConns |-> FALSE]
    /\ userId = [c \in AuthConns |-> None] /\ opScope = [c \in AuthConns |-> {}]
    /\ pending = [c \in AuthConns |-> [user |-> None, nonce |-> 0]]
    /\ attempt = [c \in AuthConns |-> FALSE] /\ attempts = [c \in AuthConns |-> 0]
    /\ nonces = 0 /\ grants = PriorGrants
-----------------------------------------------------------------------------
(* RateLimiter.  A bucket that is not tracked has no failures.             *)

Locked(s) == s \in tracked /\ clock < lockedUntil[s]

\* check, when it admits the attempt: an elapsed lockout resets the bucket.
check(s) ==
    /\ ~Locked(s)
    /\ failures' = [failures EXCEPT ![s] = IF lockedUntil[s] # 0 THEN <<>> ELSE @]
    /\ lockedUntil' = [lockedUntil EXCEPT ![s] = 0]
    /\ UNCHANGED <<tracked, lastSweep>>

\* Failures are recorded in the order of their times, so that those retain
\* keeps are the last ones.
Expired(fs) == {i \in 1 .. Len(fs) : clock >= fs[i] + Window}
Recent(fs) == SubSeq(fs, Cardinality(Expired(fs)) + 1, Len(fs))
is_dead(s, fs, until) == clock >= until /\ Recent(fs) = <<>>
Later(a, b) == IF a < b THEN b ELSE a
expires_at(fs, until) ==
    IF fs = <<>> THEN (IF until = 0 THEN clock ELSE until)
    ELSE Later(until, fs[Len(fs)] + Window)

\* Over the cap the buckets that expire first are dropped; the order among
\* equals is the map's.
Evicted(live, fs, until) ==
    {E \in SUBSET live :
        /\ Cardinality(live) <= MaxTracked => E = {}
        /\ Cardinality(live) > MaxTracked =>
               /\ Cardinality(live \ E) = MaxTracked
               /\ \A e \in E, k \in live \ E :
                    expires_at(fs[e], until[e]) <= expires_at(fs[k], until[k])}

\* Mutant of record_failure: the lockout comes one failure late.
record_failure_late(s) ==
    LET fs == [failures EXCEPT ![s] = Append(Recent(@), clock)]
        until == [lockedUntil EXCEPT ![s] =
                    IF Len(fs[s]) > MaxFailures THEN clock + Lockout ELSE @]
        all == tracked \cup {s}
        sweep == \/ lastSweep = 0 \/ clock >= lastSweep + Window
                 \/ Cardinality(all) > MaxTracked
        live == IF sweep THEN {x \in all : ~is_dead(x, fs[x], until[x])} ELSE all IN
    \E E \in Evicted(live, fs, until) :
        /\ tracked' = live \ E
        /\ failures' = [x \in Sources |-> IF x \in tracked' THEN fs[x] ELSE <<>>]
        /\ lockedUntil' = [x \in Sources |-> IF x \in tracked' THEN until[x] ELSE 0]
        /\ lastSweep' = IF sweep THEN clock ELSE lastSweep

\* record_failure with its trailing prune.
record_failure(s) ==
    LET fs == [failures EXCEPT ![s] = Append(Recent(@), clock)]
        until == [lockedUntil EXCEPT ![s] =
                    IF Len(fs[s]) >= MaxFailures THEN clock + Lockout ELSE @]
        all == tracked \cup {s}
        sweep == \/ lastSweep = 0 \/ clock >= lastSweep + Window
                 \/ Cardinality(all) > MaxTracked
        live == IF sweep THEN {x \in all : ~is_dead(x, fs[x], until[x])} ELSE all IN
    \E E \in Evicted(live, fs, until) :
        /\ tracked' = live \ E
        /\ failures' = [x \in Sources |-> IF x \in tracked' THEN fs[x] ELSE <<>>]
        /\ lockedUntil' = [x \in Sources |-> IF x \in tracked' THEN until[x] ELSE 0]
        /\ lastSweep' = IF sweep THEN clock ELSE lastSweep

record_success(s) ==
    /\ tracked' = tracked \ {s}
    /\ failures' = [failures EXCEPT ![s] = <<>>]
    /\ lockedUntil' = [lockedUntil EXCEPT ![s] = 0]
    /\ UNCHANGED lastSweep
-----------------------------------------------------------------------------
(* Credentials.                                                            *)

\* Mutant of verify: the signature is not checked.
verify_unsigned(g) == clock < g.exp /\ g.iat <= clock + 1

\* GrantVerifier::verify: signature and audience (a grant of this issuer),
\* expiry, and the clock skew allowed for its issue.
verify(g) == g \in grants /\ clock < g.exp /\ g.iat <= clock + 1

\* SshVerifier::verify_response: an authorized key has signed this channel's
\* binding and this nonce, a security key with its user present.
verify_response(c, user, nonce, sig) ==
    /\ sig.key \in AuthorizedKeys[user]
    /\ sig.binding = c /\ sig.nonce = nonce
    /\ sig.key \in SecurityKeys => sig.present

Signatures == [key : Keys, binding : AuthConns, nonce : 1 .. nonces, present : BOOLEAN]
-----------------------------------------------------------------------------
(* Conn.                                                                   *)

\* ClientHello (again, if the client likes).
ClientHello(c) ==
    /\ ~negotiated[c] /\ negotiated' = [negotiated EXCEPT ![c] = TRUE]
    /\ UNCHANGED <<clock, limiterVars, authenticated, userId, opScope, pending,
                   attempt, attempts, nonces, grants>>

\* Authenticate arrives: refused if the source is locked out, else admitted.
Admit(c) ==
    /\ negotiated[c] /\ ~attempt[c] /\ attempts[c] < MaxAttempts[c]
    /\ check(SourceOf[c])
    /\ attempt' = [attempt EXCEPT ![c] = TRUE]
    /\ attempts' = [attempts EXCEPT ![c] = @ + 1]
    /\ UNCHANGED <<clock, connVars, nonces, grants>>

RateLimited(c) ==
    /\ negotiated[c] /\ ~attempt[c] /\ attempts[c] < MaxAttempts[c]
    /\ Locked(SourceOf[c])
    /\ attempts' = [attempts EXCEPT ![c] = @ + 1]
    /\ UNCHANGED <<clock, limiterVars, connVars, attempt, nonces, grants>>

Ends(c) == attempt[c] /\ attempt' = [attempt EXCEPT ![c] = FALSE]

fail_auth(c) == record_failure(SourceOf[c])

succeed(c, user) ==
    /\ authenticated' = [authenticated EXCEPT ![c] = TRUE]
    /\ userId' = [userId EXCEPT ![c] = user]
    /\ record_success(SourceOf[c])

\* The connection is the user's; a session grant for all operations goes back.
succeed_issuing_grant(c, user) ==
    /\ succeed(c, user)
    /\ grants' = grants \cup {[sub |-> user, iat |-> clock, exp |-> clock + GrantLife,
                               ops |-> {}]}

PresentGrant(c, g) ==
    /\ Ends(c)
    /\ \/ /\ verify(g) /\ succeed(c, g.sub)
          /\ opScope' = [opScope EXCEPT ![c] = g.ops]
       \/ /\ ~verify(g) /\ fail_auth(c)
          /\ UNCHANGED <<authenticated, userId, opScope>>
    /\ UNCHANGED <<clock, negotiated, pending, attempts, nonces, grants>>

OfferKey(c, user, key) ==
    /\ Ends(c)
    /\ \/ /\ key \in AuthorizedKeys[user]
          /\ nonces' = nonces + 1
          /\ pending' = [pending EXCEPT ![c] = [user |-> user, nonce |-> nonces + 1]]
                /\ UNCHANGED limiterVars
       \/ /\ key \notin AuthorizedKeys[user] /\ fail_auth(c)
          /\ UNCHANGED <<nonces, pending>>
    /\ UNCHANGED <<clock, negotiated, authenticated, userId, opScope, attempts,
                   grants>>

\* The pending challenge is taken whatever comes of it.  The challenge that
\* the response repeats must be the pending one too.
ProveKey(c, sig) ==
    LET p == pending[c]
        ok == p.nonce # 0 /\ verify_response(c, p.user, p.nonce, sig) IN
    /\ Ends(c)
    /\ pending' = [pending EXCEPT ![c] = [user |-> None, nonce |-> 0]]
    /\ \/ ok /\ succeed_issuing_grant(c, p.user)
       \/ ~ok /\ fail_auth(c) /\ UNCHANGED <<authenticated, userId, grants>>
    /\ UNCHANGED <<clock, negotiated, opScope, attempts, nonces>>

\* The verifier (PAM) has its own opinion; it is asked only for the allowlist.
CheckPassword(c, user) ==
    /\ Ends(c)
    /\ \/ user \in PasswordUsers /\ succeed_issuing_grant(c, user)
       \/ fail_auth(c) /\ UNCHANGED <<authenticated, userId, grants>>
    /\ UNCHANGED <<clock, negotiated, opScope, pending, attempts, nonces>>

NoMethod(c) ==
    /\ Ends(c) /\ fail_auth(c)
    /\ UNCHANGED <<clock, connVars, attempts, nonces, grants>>

AuthTick ==
    /\ clock < MaxTime /\ clock' = clock + 1
    /\ UNCHANGED <<limiterVars, connVars, attempt, attempts, nonces, grants>>

AuthNext ==
    \/ AuthTick
    \/ \E c \in AuthConns :
         \/ ClientHello(c) \/ Admit(c) \/ RateLimited(c)
         \/ \E g \in grants \cup ForeignGrants : PresentGrant(c, g)
         \/ \E user \in AuthUsers, key \in Keys : OfferKey(c, user, key)
         \/ \E sig \in Signatures : ProveKey(c, sig)
         \/ \E user \in AuthUsers : CheckPassword(c, user)
         \/ NoMethod(c)

AuthSpec == AuthInit /\ [][AuthNext]_authVars
-----------------------------------------------------------------------------
(* Properties.                                                             *)

PeersOf(s) == Cardinality({c \in AuthConns : SourceOf[c] = s})

\* check and record_failure are separate: however attempts interleave, the
\* failures recorded for a source before its lockout bites exceed the limit
\* by at most one for every other connection it has open.
FailuresBounded ==
    \A s \in Sources : Len(failures[s]) <= MaxFailures - 1 + PeersOf(s)

\* Whoever a connection speaks for, the daemon's own key has vouched for: the
\* user was proved by a key or a password, on this connection or on the one
\* that earned the grant; and a connection limited by a grant's scope never
\* gains operations by authenticating again with a key or a password.
GrantedUsersProved ==
    \A c \in AuthConns : authenticated[c] =>
        /\ \E g \in grants : g.sub = userId[c]
        /\ opScope[c] # {} => \E g \in grants : g.ops = opScope[c]
=============================================================================
