------------------------------ MODULE ApiKeys ------------------------------
(***************************************************************************)
(* The API keys and the operators that issue, revoke and rotate them, with *)
(* scripts/manage_api_keys.py or through the admin routes.  Every command  *)
(* is one transaction; an UPDATE locks its row until the transaction ends. *)
(***************************************************************************)
EXTENDS Clock

CONSTANTS
    Keys,        \* rows of api_keys
    NoKey,       \* no key at all
    Operators,   \* administrative transactions
    Callers,     \* requests, which write the row of the key they present
    Grants       \* the scope sets that operators grant

ASSUME NoKeyAssumption == NoKey \notin Keys
ASSUME SessionAssumption == Operators \cap Callers = {} /\ NoKey \notin Operators \cup Callers
ASSUME GrantsAssumption == Grants # {} /\ {} \notin Grants

VARIABLES
    keys,     \* the committed rows
    lockOf,   \* the transaction that has written a row and not ended
    tx        \* what the transaction of an operator has read and written

keyVars == <<keys, lockOf, tx>>

Sessions == Operators \cup Callers

Nobody == NoKey

Row == [status : {"none", "ACTIVE", "REVOKED", "EXPIRED"}, scopes : Grants \cup {{}},
        expires : 0..Never, from : Keys \cup {NoKey}]

NoRow == [status |-> "none", scopes |-> {}, expires |-> Never, from |-> NoKey]

Transaction == [new : Keys \cup {NoKey}, row : Row, revokes : Keys \cup {NoKey},
                step : {"idle", "revoke", "commit"}]

NoTransaction == [new |-> NoKey, row |-> NoRow, revokes |-> NoKey, step |-> "idle"]

KeysTypeOK ==
    /\ keys \in [Keys -> Row]
    /\ lockOf \in [Keys -> Sessions \cup {Nobody}]
    /\ tx \in [Operators -> Transaction]

KeysInit ==
    /\ keys = [k \in Keys |-> NoRow]
    /\ lockOf = [k \in Keys |-> Nobody]
    /\ tx = [o \in Operators |-> NoTransaction]

\* A key whose random part nobody has drawn.
Fresh(k) == keys[k].status = "none" /\ \A o \in Operators : tx[o].new # k

\* create: ACTIVE, and expires_at, when there is one, in the future.
NewRow(grant, expires, from) ==
    [status |-> "ACTIVE", scopes |-> grant, expires |-> expires, from |-> from]

Future == now + 1..Never

\* is_valid, of a row as it was read.
Expired(row) == row.expires <= now
IsValid(row) == row.status = "ACTIVE" /\ ~Expired(row)

Released(s) == [k \in Keys |-> IF lockOf[k] = s THEN Nobody ELSE lockOf[k]]

----------------------------------------------------------------------------
(* The commands.                                                           *)

Create(o, k) ==
    /\ tx[o] = NoTransaction /\ Fresh(k)
    /\ \E grant \in Grants, expires \in Future :
           tx' = [tx EXCEPT ![o] = [new |-> k, row |-> NewRow(grant, expires, NoKey),
                                    revokes |-> NoKey, step |-> "commit"]]
    /\ UNCHANGED <<now, keys, lockOf>>

\* The key is looked up whatever its status.
Revoke(o, k) ==
    /\ tx[o] = NoTransaction /\ keys[k].status # "none"
    /\ tx' = [tx EXCEPT ![o] = [NoTransaction EXCEPT !.revokes = k, !.step = "revoke"]]
    /\ UNCHANGED <<now, keys, lockOf>>

Rotate_RevokesLater(o, k, n) ==
    /\ tx[o] = NoTransaction /\ keys[k].status # "none" /\ Fresh(n)
    /\ \E expires \in Future :
           tx' = [tx EXCEPT ![o] = [new |-> n, row |-> NewRow(keys[k].scopes, expires, k),
                                    revokes |-> NoKey, step |-> "commit"]]
    /\ UNCHANGED <<now, keys, lockOf>>

\* rotate: the successor has the scopes of the row that was read and an expiry
\* of its own.
Rotate(o, k, n) ==
    /\ tx[o] = NoTransaction /\ keys[k].status # "none" /\ Fresh(n)
    /\ \E expires \in Future :
           tx' = [tx EXCEPT ![o] = [new |-> n, row |-> NewRow(keys[k].scopes, expires, k),
                                    revokes |-> k, step |-> "revoke"]]
    /\ UNCHANGED <<now, keys, lockOf>>

\* The UPDATE of revoke waits for the lock of the row.
FlushRevocation(o) ==
    /\ tx[o].step = "revoke" /\ lockOf[tx[o].revokes] = Nobody
    /\ lockOf' = [lockOf EXCEPT ![tx[o].revokes] = o]
    /\ tx' = [tx EXCEPT ![o].step = "commit"]
    /\ UNCHANGED <<now, keys>>

Committed(o) ==
    [k \in Keys |-> IF k = tx[o].new THEN tx[o].row
                    ELSE IF k = tx[o].revokes THEN [keys[k] EXCEPT !.status = "REVOKED"]
                    ELSE keys[k]]

CommitKeys(o) ==
    /\ tx[o].step = "commit"
    /\ keys' = Committed(o)
    /\ lockOf' = Released(o)
    /\ tx' = [tx EXCEPT ![o] = NoTransaction]
    /\ UNCHANGED now

\* Any failure before the commit rolls the command back.
RollBackKeys(o) ==
    /\ tx[o] # NoTransaction
    /\ lockOf' = Released(o)
    /\ tx' = [tx EXCEPT ![o] = NoTransaction]
    /\ UNCHANGED <<now, keys>>

OperatorStep ==
    \E o \in Operators :
        \/ \E k \in Keys : Create(o, k)
        \/ \E k \in Keys : Revoke(o, k)
        \/ \E k, n \in Keys : Rotate(o, k, n)
        \/ FlushRevocation(o)
        \/ CommitKeys(o)
        \/ RollBackKeys(o)

----------------------------------------------------------------------------
(* What the keys promise.                                                  *)

\* A key that was revoked stays revoked, whoever writes its row afterwards: a
\* request that had read it before, an expiry, a second command.
RevokedIsForever ==
    [][\A k \in Keys : keys[k].status = "REVOKED" => keys'[k].status = "REVOKED"]_keyVars

\* A successor is never usable together with the key it replaces: rotate commits
\* the new key and the revocation of the old one at once.
RotationIsAtomic ==
    \A n \in Keys : keys[n].from # NoKey => keys[keys[n].from].status = "REVOKED"
----------------------------------------------------------------------------
(* Why: what an open transaction has read stays true of the rows.          *)

\* The key a transaction is about to insert is nobody else's, and a successor is
\* committed with the revocation of the key it replaces.
TransactionsStand ==
    \A o \in Operators :
        /\ tx[o].new # NoKey =>
              /\ keys[tx[o].new].status = "none"
              /\ \A p \in Operators \ {o} : tx[p].new # tx[o].new
              /\ tx[o].row.status = "ACTIVE"
              /\ tx[o].row.from # NoKey => tx[o].row.from = tx[o].revokes
        /\ tx[o].revokes # NoKey => keys[tx[o].revokes].status # "none"
=============================================================================
