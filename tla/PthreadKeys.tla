----------------------------- MODULE PthreadKeys -----------------------------
(***************************************************************************)
(* The keys of thread-specific data of libpthread (pt-key-create.c,        *)
(* pt-key-delete.c of sysdeps/hurd).  A call holds __pthread_key_lock.     *)
(* Keys are numbered from 1 here.  ref is the set of keys created and not  *)
(* deleted.  The values that threads keep under the keys are left out.     *)
(***************************************************************************)
EXTENDS LibState

CONSTANTS
    MaxKeys,        \* bound on the length of the table
    ManyInvalid,    \* 4 in the code: fewer deleted keys are not looked for
    FirstSize       \* 8 in the code: the first length of the table

ASSUME KeysAssumption == ManyInvalid \in Nat /\ FirstSize \in Nat \ {0}

KeyKind == "keys"

\* An entry of the table is "invalid" or a destructor, which may be NULL.
Entries == {"invalid", "null", "destructor"}

KeyInit ==
    /\ lib = [kind |-> KeyKind, table |-> <<>>, size |-> 0, invalid |-> 0, index |-> 1]
    /\ ref = {}

Free(table, from) == {i \in from..Len(table) : table[i] = "invalid"}

\* A deleted key is handed out again.
TakesDeleted(K, i, d) ==
    [K EXCEPT !.table[i] = d, !.index = i + 1, !.invalid = @ - 1]

\* pthread_key_create: the next deleted key after index; or a new one at the
\* end; or, when the table is full and many keys were deleted, the first
\* deleted one; or one more after the table was enlarged.
KeyCreate(d) ==
    LET K == lib
        full == K.size = Len(K.table)
        search == full /\ K.invalid > ManyInvalid /\ K.invalid > K.size \div 8
        from == IF Free(K.table, K.index) # {} THEN K.index ELSE 1
        i == Min(Free(K.table, from))   \* the assertions: there is one, counted
    IN  \/ /\ Free(K.table, K.index) # {} \/ search
           /\ Becomes(TakesDeleted(K, i, d), ref \cup {i})
        \/ /\ Free(K.table, K.index) = {} /\ ~search
           /\ Len(K.table) < MaxKeys
           /\ Becomes([K EXCEPT !.table = Append(@, d), !.index = Len(K.table) + 2,
                                !.size = IF ~full THEN @ ELSE IF @ = 0 THEN FirstSize ELSE 2 * @],
                      ref \cup {Len(K.table) + 1})

\* pthread_key_delete.
KeyDelete(k) ==
    /\ lib.table[k] # "invalid"
    /\ Becomes([lib EXCEPT !.table[k] = "invalid", !.invalid = @ + 1], ref \ {k})

KeyNext ==
    /\ lib.kind = KeyKind
    /\ \/ \E d \in Entries \ {"invalid"} : KeyCreate(d)
       \/ \E k \in ref : KeyDelete(k)

\* A key is handed out to one user at a time: the entries in use are those
\* created and not deleted, the others are counted, so that a search that the
\* count promises to succeed does, and the search hint is never behind the end.
KeysAgree ==
    lib.kind = KeyKind =>
        /\ ref = {k \in DOMAIN lib.table : lib.table[k] # "invalid"}
        /\ lib.invalid = Len(lib.table) - Cardinality(ref)
        /\ lib.index <= Len(lib.table) + 1
        /\ Len(lib.table) <= lib.size
=============================================================================
