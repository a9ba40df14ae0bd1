---------------------------- MODULE Dictionaries ----------------------------
(***************************************************************************)
(* Durable dictionaries: the equality and the hash every value answers     *)
(* (language/smalltalk-equality.js), the open-addressed table              *)
(* (smalltalk-dictionary-table.js), the primitives that read a table, run  *)
(* the keys' own code and swap in a whole new table                        *)
(* (smalltalk-primitives-dictionary.js), and what is composed from them:   *)
(* at:ifAbsentPut:, Set >> add: and the hash tables of Common Lisp, which  *)
(* remove by storing a tombstone (common-lisp.js).                         *)
(*                                                                         *)
(* A published table is never rewritten, so the model keeps the table in   *)
(* the dictionary's record; a call works on the table it loaded while the  *)
(* keys' hash and = run, and only the record's version tells it whether    *)
(* someone else (or its own keys' code) wrote in the meantime.             *)
(***************************************************************************)
EXTENDS Integers, Sequences, FiniteSets, SequencesExt

CONSTANTS DictionaryClients,  \* activations that use the one dictionary
          DictionaryKeys,     \* values used as keys: records with a kind
          DictionaryValues,   \* values that are stored
          Beginnings,         \* sequences of keys already stored at the start
          HashOfForm(_),      \* the digest of a normal form, an integer
          Tombstone,          \* common-lisp/hash-table-tombstone/v1
          Unanswered,         \* what a broken hash answers: not an Integer
          Missing,            \* the outcome of a call that has none yet, or no value
          MinimumCapacity,    \* capacity of an empty table, a power of two
          MaxDictionaryCalls  \* bound on the calls made

VARIABLES dictionary,     \* the record: its version and its table
          dictionaryCalls,\* what each client is doing
          callsMade,      \* calls begun so far
          readable        \* for the properties: what each call's key has meant
                          \* to a reader since the call began

dictionaryVars == <<dictionary, dictionaryCalls, callsMade, readable>>

ASSUME DictionaryAssumption ==
    /\ MinimumCapacity \in Nat \ {0}
    /\ Tombstone \notin DictionaryValues
    /\ Missing \notin DictionaryValues \cup {Tombstone}

----------------------------------------
(* Equality and hash.  A key is a record whose kind is integer (number),   *)
(* float64 (whether it is NaN, twice its number, its bits), text, boolean, *)
(* ref (an object; the two kernel singletons are refs), pinned, or own: an *)
(* object whose class overrides hash and =.                                *)

(* The local true and false objects stand for the boolean values.          *)
Normalized(key) ==
    IF key.kind = "ref" /\ key.object \in {"true", "false"}
    THEN [kind |-> "boolean", boolean |-> key.object = "true"]
    ELSE key

Integral(key) == key.kind = "float64" /\ ~key.nan /\ key.twice % 2 = 0

IsNumber(key) == key.kind \in {"integer", "float64"}

(* Integers and integral floats share one form; NaN has one per payload.   *)
NormalForm(key) ==
    CASE key.kind = "integer" -> <<"integer", key.number>>
      [] Integral(key) -> <<"integer", key.twice \div 2>>
      [] key.kind = "float64" /\ key.nan -> <<"nan", key.bits>>
      [] key.kind = "float64" -> <<"float64", key.bits>>
      [] key.kind = "text" -> <<"text", key.text>>
      [] key.kind = "boolean" -> <<"boolean", key.boolean>>
      [] key.kind = "ref" -> <<"ref", key.object>>

Numerically(left, right) ==
    LET Twice(key) == IF key.kind = "integer" THEN 2 * key.number ELSE key.twice
        IsNaN(key) == key.kind = "float64" /\ key.nan
    IN  ~IsNaN(left) /\ ~IsNaN(right) /\ Twice(left) = Twice(right)

BuiltInEquals(left, right) ==
    IF IsNumber(left) /\ IsNumber(right)
    THEN Numerically(left, right)
    ELSE left.kind = right.kind /\ left.kind # "pinned" /\ left = right

(* The two messages a lookup sends; a key of its own class answers them    *)
(* itself.                                                                 *)
SendHash(key) ==
    CASE key.kind = "own" -> key.hash
      [] key.kind = "pinned" -> Unanswered
      [] OTHER -> HashOfForm(NormalForm(Normalized(key)))

SendEquals(stored, query) ==
    IF stored.kind = "own"
    THEN query.kind = "own" /\ query.means = stored.means
    ELSE BuiltInEquals(Normalized(stored), Normalized(query))

----------------------------------------
(* The table: a sequence of buckets, each empty or <<hash, key, value>>.   *)

EmptyBuckets(capacity) == [i \in 1 .. capacity |-> <<>>]

Occupied(buckets) == {i \in DOMAIN buckets : buckets[i] # <<>>}

Tally(buckets) == Cardinality(Occupied(buckets))

(* Linear probing from the floor modulo of the hash, around the table.     *)
ProbeSequence(hash, capacity) ==
    [step \in 1 .. capacity |-> ((hash + step - 1) % capacity) + 1]

(* The first probed bucket that is empty or holds the key ends the search. *)
Ends(buckets, hash, key, i) ==
    \/ buckets[i] = <<>>
    \/ buckets[i][1] = hash /\ SendEquals(buckets[i][2], key)

(* The index of the key's bucket, 0 when the table does not hold the key.  *)
Locate(buckets, hash, key) ==
    LET probes == ProbeSequence(hash, Len(buckets))
        ending == {step \in DOMAIN probes : Ends(buckets, hash, key, probes[step])}
        last   == CHOOSE step \in ending : \A other \in ending : step <= other
    IN  IF ending = {} \/ buckets[probes[last]] = <<>> THEN 0 ELSE probes[last]

(* Storing in the first free bucket of the probe sequence.                 *)
Placed(buckets, bucket) ==
    LET probes == ProbeSequence(bucket[1], Len(buckets))
        free   == {step \in DOMAIN probes : buckets[probes[step]] = <<>>}
        first  == CHOOSE step \in free : \A other \in free : step <= other
    IN  [buckets EXCEPT ![probes[first]] = bucket]

NeedsGrowth(tallyAfterInsert, capacity) == tallyAfterInsert * 4 > capacity * 3

(* A plausible bug: growing by adding empty buckets behind the old ones.   *)
Widened(buckets, capacity) ==
    buckets \o EmptyBuckets(capacity - Len(buckets))

(* Growth places every entry again, by its stored hash.                    *)
Reinsert(buckets, capacity) ==
    FoldLeft(Placed, EmptyBuckets(capacity),
             SelectSeq(buckets, LAMBDA bucket : bucket # <<>>))

(* The next complete table of at:put:.                                     *)
Stored(buckets, key, value) ==
    LET hash  == SendHash(key)
        found == Locate(buckets, hash, key)
        grown == IF NeedsGrowth(Tally(buckets) + 1, Len(buckets))
                 THEN Reinsert(buckets, 2 * Len(buckets)) ELSE buckets
    IN  IF found # 0 THEN [buckets EXCEPT ![found][3] = value]
        ELSE Placed(grown, <<hash, key, value>>)

----------------------------------------
(* What a table means: each key with the value a lookup finds for it.      *)

At(buckets, key) ==
    LET found == Locate(buckets, SendHash(key), key)
    IN  IF found = 0 THEN Missing ELSE buckets[found][3]

Usable(key) == SendHash(key) # Unanswered

(* maphash: the pairs of a snapshot whose value is not the tombstone.      *)
Listed(buckets) ==
    {buckets[i][2] : i \in {j \in Occupied(buckets) : buckets[j][3] # Tombstone}}

(* What GETHASH makes of the value under a key.                            *)
ToReader(value) == IF value = Tombstone THEN Missing ELSE value

----------------------------------------
(* Calls.  A call runs one primitive after another: includes, at or put.   *)

Idle == [op |-> "none", key |-> Missing, value |-> Missing, doing |-> "nothing",
         loaded |-> <<>>, seen |-> 0, result |-> Missing]

Table == dictionary.table

(* The messages of the Smalltalk class; Set >> add: is at:put: with true.  *)
Selectors == {"at:", "at:put:", "at:ifAbsentPut:", "initialize"}

(* The Lisp functions; %SET-GETHASH is at:put: with its arguments turned.  *)
LispFunctions == {"gethash", "remhash"}

FirstPrimitive(op) ==
    CASE op = "at:" -> "at"
      [] op = "at:put:" -> "put"
      [] op = "initialize" -> "initialize"
      [] OTHER -> "includes"

Begins(client) ==
    \E key \in DictionaryKeys, value \in DictionaryValues,
       op \in Selectors \cup LispFunctions :
      /\ dictionaryCalls[client].doing = "nothing"
      /\ callsMade < MaxDictionaryCalls
      /\ callsMade' = callsMade + 1
      /\ dictionaryCalls' = [dictionaryCalls EXCEPT ![client] =
           [Idle EXCEPT !.op = op, !.key = IF op = "initialize" THEN Missing ELSE key,
                        !.value = CASE op = "remhash" -> Tombstone
                                    [] op \in {"at:put:", "at:ifAbsentPut:"} -> value
                                    [] OTHER -> Missing,
                        !.doing = FirstPrimitive(op)]]
      /\ readable' = [readable EXCEPT ![client] =
           IF op = "gethash" /\ Usable(key) THEN {ToReader(At(Table, key))} ELSE {}]
      /\ UNCHANGED dictionary

(* Every primitive begins by reading the record and its table.             *)
Loads(client) ==
    LET call == dictionaryCalls[client]
    IN  /\ call.doing # "nothing" /\ call.seen = 0
        /\ dictionaryCalls' = [dictionaryCalls EXCEPT
             ![client].loaded = Table, ![client].seen = dictionary.version]
        /\ UNCHANGED <<dictionary, callsMade, readable>>

Continues(client, doing) ==
    /\ dictionaryCalls' = [dictionaryCalls EXCEPT
         ![client].doing = doing, ![client].loaded = <<>>, ![client].seen = 0]
    /\ UNCHANGED <<dictionary, callsMade, readable>>

Ended(call, result) == [Idle EXCEPT !.op = call.op, !.result = result]

Answers(client, result) ==
    /\ dictionaryCalls' = [dictionaryCalls EXCEPT ![client] = Ended(@, result)]
    /\ UNCHANGED <<dictionary, callsMade, readable>>

(* The hash of a key that does not answer an Integer ends the call.        *)
BreaksProtocol(client) ==
    /\ dictionaryCalls[client].seen # 0
    /\ dictionaryCalls[client].doing # "initialize" /\ ~Usable(dictionaryCalls[client].key)
    /\ Answers(client, "protocol error")

(* includesKey: decides what the composed operations do next.              *)
Includes(client) ==
    LET call  == dictionaryCalls[client]
        there == Locate(call.loaded, SendHash(call.key), call.key) # 0
    IN  /\ call.doing = "includes" /\ call.seen # 0 /\ Usable(call.key)
        /\ CASE there -> Continues(client, "at")
             [] ~there /\ call.op = "at:ifAbsentPut:" -> Continues(client, "put")
             [] OTHER -> Answers(client, Missing)

(* What the two Lisp operations make of the value at: answered.            *)
Gethash(client, value) == Answers(client, ToReader(value))

Remhash(client, value) ==
    IF value = Tombstone THEN Answers(client, "nil") ELSE Continues(client, "put")

ReadsAt(client) ==
    LET call  == dictionaryCalls[client]
        value == At(call.loaded, call.key)
    IN  /\ call.doing = "at" /\ call.seen # 0 /\ Usable(call.key)
        /\ CASE call.op = "gethash" -> Gethash(client, value)
             [] call.op = "remhash" -> Remhash(client, value)
             [] OTHER -> Answers(client, IF value = Missing THEN "key not found" ELSE value)

----------------------------------------
(* at:put: ends in one compare-and-set of the record.                      *)

Unmoved(call) == dictionary.version = call.seen

(* Every GETHASH under way on the same key may answer the new value.       *)
Noticed(key, value) ==
    readable' = [client \in DictionaryClients |->
      IF /\ dictionaryCalls[client].op = "gethash"
         /\ dictionaryCalls[client].doing # "nothing"
         /\ Usable(dictionaryCalls[client].key)
         /\ SendHash(key) = SendHash(dictionaryCalls[client].key)
         /\ SendEquals(key, dictionaryCalls[client].key)
      THEN readable[client] \cup {ToReader(value)} ELSE readable[client]]

Swaps(client) ==
    LET call == dictionaryCalls[client]
    IN  /\ dictionary' = [version |-> dictionary.version + 1,
                          table |-> Stored(call.loaded, call.key, call.value)]
        /\ dictionaryCalls' = [dictionaryCalls EXCEPT ![client] = Ended(@, "stored")]
        /\ Noticed(call.key, call.value)
        /\ UNCHANGED callsMade

(* Whether the loaded table already holds exactly this value.              *)
NothingToDo(call) == At(call.loaded, call.key) = call.value

(* A plausible bug: answering the no-op from the loaded table alone.       *)
EndsFromTheSnapshot(client) ==
    LET call == dictionaryCalls[client]
    IN  /\ call.doing = "put" /\ call.seen # 0 /\ Usable(call.key)
        /\ CASE NothingToDo(call) -> Answers(client, "stored")
             [] ~Unmoved(call) -> Answers(client, "conflict")
             [] OTHER -> Swaps(client)

(* A write and a no-op alike stand only if the record is as it was read;   *)
(* a conflict is never retried, for a retry would run the keys' code again.*)
AtPut(client) ==
    LET call == dictionaryCalls[client]
    IN  /\ call.doing = "put" /\ call.seen # 0 /\ Usable(call.key)
        /\ CASE ~Unmoved(call) -> Answers(client, "conflict")
             [] NothingToDo(call) -> Answers(client, "stored")
             [] OTHER -> Swaps(client)

(* initialize again: a new empty table, published before it is swapped in  *)
(* under the version the record was read at.                               *)
Initializes(client) ==
    LET call == dictionaryCalls[client]
    IN  /\ call.doing = "initialize" /\ call.seen # 0
        /\ IF Unmoved(call)
           THEN /\ dictionary' = [version |-> dictionary.version + 1,
                                  table |-> EmptyBuckets(MinimumCapacity)]
                /\ dictionaryCalls' = [dictionaryCalls EXCEPT ![client] = Ended(@, "initialized")]
                /\ readable' = [c \in DictionaryClients |->
                     IF dictionaryCalls[c].op = "gethash" THEN readable[c] \cup {Missing} ELSE {}]
                /\ UNCHANGED callsMade
           ELSE Answers(client, "conflict")

----------------------------------------
Begun(stored, value) ==
    [version |-> 1,
     table |-> FoldLeft(LAMBDA table, key : Stored(table, key, value),
                        EmptyBuckets(MinimumCapacity), stored)]

DictionaryInit ==
    /\ \E stored \in Beginnings, value \in DictionaryValues \cup {Tombstone} :
         dictionary = Begun(stored, value)
    /\ dictionaryCalls = [client \in DictionaryClients |-> Idle]
    /\ callsMade = 0
    /\ readable = [client \in DictionaryClients |-> {}]

DictionaryNext ==
    \E client \in DictionaryClients :
      \/ Begins(client)
      \/ Loads(client)
      \/ BreaksProtocol(client)
      \/ Includes(client)
      \/ ReadsAt(client)
      \/ AtPut(client)
      \/ Initializes(client)

----------------------------------------
(* The shape of the state.                                                 *)
DictionaryTypeOK ==
    /\ dictionary.version \in Nat \ {0}
    /\ \A i \in Occupied(Table) :
         /\ Table[i][1] \in Int
         /\ Table[i][2] \in DictionaryKeys
         /\ Table[i][3] \in DictionaryValues \cup {Tombstone}
    /\ \A client \in DictionaryClients :
         dictionaryCalls[client].doing \in {"nothing", "includes", "at", "put", "initialize"}

(* Wherever collisions, wrapping and growth put an entry, a lookup that    *)
(* starts from the entry's stored hash ends at that very bucket, so no two *)
(* buckets hold equal keys; NaN, which equals nothing, is the exception.   *)
(* The table always keeps a free bucket (smalltalk-dictionary-table.js     *)
(* reinsert, locate).                                                      *)
EveryEntryIsFound ==
    /\ \A i \in Occupied(Table) :
         SendEquals(Table[i][2], Table[i][2]) => Locate(Table, Table[i][1], Table[i][2]) = i
    /\ Tally(Table) < Len(Table)

(* MAPHASH lists exactly the keys GETHASH finds, however entries were      *)
(* removed and stored again, and every answer of GETHASH is something its  *)
(* key meant to a reader at some moment of the call, though the call reads *)
(* the table twice (common-lisp.js MAPHASH, GETHASH, REMHASH).             *)
HashTablesAgree ==
    /\ \A i \in Occupied(Table) :
         SendEquals(Table[i][2], Table[i][2]) =>
           (Table[i][2] \in Listed(Table) <=> ToReader(At(Table, Table[i][2])) # Missing)
    /\ \A client \in DictionaryClients :
         LET call == dictionaryCalls[client]
         IN  call.op = "gethash" /\ call.doing = "nothing" /\ call.result # "protocol error"
               => call.result \in readable[client]

(* Values that are = answer the same hash, across integers and floats,     *)
(* and the boolean objects and values (smalltalk-equality.js).             *)
EqualKeysHashAlike ==
    \A left, right \in {key \in DictionaryKeys : key.kind # "own"} :
      SendEquals(left, right) => SendHash(left) = SendHash(right)

DictionariesAreSound == EveryEntryIsFound /\ HashTablesAgree /\ EqualKeysHashAlike

(* No write is lost and none is invented: a change of what the dictionary  *)
(* means is one client's value under that client's key, or an initialize   *)
(* that removes all of what the record held when it was read;              *)
(* and a call that answers "stored" leaves its value under its key at that *)
(* moment (smalltalk-primitives-dictionary.js: the compare-and-set and the *)
(* re-read before the no-op).                                              *)
DictionariesChangeByOneCall ==
    [][/\ LET usable == {key \in DictionaryKeys : Usable(key) /\ SendEquals(key, key)}
              Means(table) == [key \in usable |-> At(table, key)]
          IN  \/ dictionary' = dictionary
              \/ Means(dictionary'.table) = Means(Table)
              \/ /\ \A key \in usable : Means(dictionary'.table)[key] = Missing
                 /\ \E client \in DictionaryClients :
                      LET call == dictionaryCalls[client]
                      IN  call.doing = "initialize" /\ Means(call.loaded) = Means(Table)
              \/ \E client \in DictionaryClients :
                   LET call == dictionaryCalls[client]
                   IN  call.doing = "put" /\ \A key \in usable : Means(dictionary'.table)[key] =
                         IF SendHash(key) = SendHash(call.key) /\ SendEquals(key, call.key)
                         THEN call.value ELSE Means(Table)[key]
       /\ \A client \in DictionaryClients :
            LET call == dictionaryCalls[client]
            IN  call.doing = "put" /\ dictionaryCalls'[client].doing = "nothing"
                  /\ dictionaryCalls'[client].result = "stored"
                  /\ SendEquals(call.key, call.key)
                => At(dictionary'.table, call.key) = call.value]_dictionaryVars

========================================
