------------------------------ MODULE KVStore ------------------------------
(***************************************************************************)
(* What a client of sahDB sees: a map from keys to values, each with an    *)
(* optional expiry time, in which a key disappears the moment the clock    *)
(* reaches its expiry time.  Hash chains, the expiry heap, lazy deletion   *)
(* and the several clock readings of one EXPIRE are all invisible here;    *)
(* Keyspace.tla has them and is shown to implement this module.            *)
(***************************************************************************)
EXTENDS Integers

CONSTANTS Keys,       \* the keys clients use
          Values,     \* the values they store
          Durations,  \* the arguments of EXPIRE, in seconds
          StartTime,  \* the clock when the server starts
          LONG_MAX    \* the largest time_t

VARIABLES live,       \* the visible keys, each with its value and expiry time
          now,        \* the clock, time(NULL)
          held,       \* the key a running EXPIRE has found, or "none"
          reply       \* the answer to the last request

vars == <<live, now, held, reply>>

NEVER == -1           \* the expiry time of a key that does not expire

\* time_t arithmetic wraps at its width.
WrapTime(t) ==
  ((t + LONG_MAX + 1) % (2 * (LONG_MAX + 1))) - (LONG_MAX + 1)

Unexpired(t, clock) == t = NEVER \/ t > clock

\* The keys of m that are unexpired at the given time, and h.
Visible(m, clock, h) ==
  [k \in {j \in DOMAIN m : j = h \/ Unexpired(m[j].expiry, clock)} |-> m[k]]

Init ==
  /\ live = [k \in {} |-> NEVER]
  /\ now = StartTime
  /\ held = "none"
  /\ reply = <<>>

\* A key that EXPIRE has found does not disappear before it is given its time.
Tick ==
  /\ now' = now + 1
  /\ live' = Visible(live, now', held)
  /\ UNCHANGED <<held, reply>>

Put(k, e) == [j \in DOMAIN live \union {k} |-> IF j = k THEN e ELSE live[j]]

\* A visible key keeps its expiry time; a new one never expires.
SetDone(k, v) ==
  /\ live' = Put(k, [value |-> v,
                     expiry |-> IF k \in DOMAIN live THEN live[k].expiry
                                ELSE NEVER])
  /\ reply' = <<"OK">>

\* The store may run out of room or memory; and a key that has expired may
\* swallow the value, which its old expiry time keeps invisible.
SetLost(k) ==
  /\ \/ reply' \in {<<"ERR">>, <<>>}
     \/ k \notin DOMAIN live /\ reply' = <<"OK">>
  /\ UNCHANGED live

Get(k) ==
  /\ reply' = IF k \in DOMAIN live THEN <<"VALUE", live[k].value>> ELSE <<"ERR">>
  /\ UNCHANGED live

GetExpiry(k) ==
  /\ reply' = IF k \notin DOMAIN live THEN <<"ERR">>
              ELSE IF live[k].expiry = NEVER THEN <<"NULL">>
              ELSE <<"EXPIRY", live[k].expiry>>
  /\ UNCHANGED live

Exists(k) ==
  /\ reply' = IF k \in DOMAIN live THEN <<"TRUE">> ELSE <<"FALSE">>
  /\ UNCHANGED live

\* A key that has expired may still be there to be deleted.
Delete(k) ==
  /\ live' = [j \in DOMAIN live \ {k} |-> live[j]]
  /\ reply' \in IF k \in DOMAIN live THEN {<<"OK">>} ELSE {<<"OK">>, <<"ERR">>}

ExpireFind(k) ==
  /\ k \in DOMAIN live
  /\ held' = k
  /\ UNCHANGED <<live, reply>>

ExpireMissing(k) ==
  /\ k \notin DOMAIN live
  /\ reply' \in {<<"FALSE">>, <<"NULL">>}
  /\ UNCHANGED live

\* The answer is ERR when the key could not be queued: its time has changed.
ExpireDone(d) ==
  /\ held # "none"
  /\ live' = Visible(Put(held, [live[held] EXCEPT !.expiry = WrapTime(now + d)]),
                     now, "none")
  /\ held' = "none"
  /\ reply' \in {<<"OK">>, <<"ERR">>}

BadRequest ==
  /\ reply' \in {<<"ERR">>, <<>>}
  /\ UNCHANGED live

Request ==
  \/ \E k \in Keys, v \in Values : SetDone(k, v)
  \/ \E k \in Keys : SetLost(k) \/ Get(k) \/ GetExpiry(k) \/ Exists(k) \/ Delete(k)
  \/ \E k \in Keys : ExpireMissing(k)
  \/ BadRequest

Next ==
  \/ Tick
  \/ held = "none" /\ Request /\ UNCHANGED <<now, held>>
  \/ held = "none" /\ UNCHANGED now /\ \E k \in Keys : ExpireFind(k)
  \/ UNCHANGED now /\ \E d \in Durations : ExpireDone(d)

Spec == Init /\ [][Next]_vars
=============================================================================
