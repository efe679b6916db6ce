------------------------------ MODULE MongoApi ------------------------------
(***************************************************************************)
(* lib/util/mongoapi/mongoapi.go: the calls by which the network functions *)
(* keep their data in a collection of MongoDB.  The server does one        *)
(* operation at a time, so each FindOne, UpdateOne or InsertOne is a step; *)
(* the calls that need two of them are not atomic.  Every operation may    *)
(* fail, before or after the server did it.                                *)
(*                                                                         *)
(* A filter asks for one key field, compared up to case when the caller    *)
(* passes a collation; when several documents match, the server takes any. *)
(* What is put carries its key, and so does what a patch writes back: $set *)
(* gives the document it updates that key.  A patch names no key.  Reads   *)
(* alone (GetOne, GetMany, Count) leave the collection as it is and are    *)
(* left out; Post is PutOne.                                               *)
(***************************************************************************)
EXTENDS Integers, Sequences, FiniteSets

CONSTANTS
    Clients,
    Keys, folded,    \* the keys, and the form of each a collation compares
    Fields, Values,
    nested,          \* the values that are documents, and their fields
    dataName,        \* the field whose document JSONPatchExtend patches
    pulled,          \* the values that are arrays, and what $pull leaves of them
    Requests,        \* the calls clients make
    MaxCalls         \* bound: calls of all clients

None == "none"       \* the document has no such field, the update leaves it alone
Null == "null"       \* the patch removes the field

Data == [Fields -> Values \cup {None}]
Patches == [Fields -> Values \cup {None, Null}]
Puts == {"PutOne", "PutOneNotUpdate", "PutMany"}
Patching == {"MergePatch", "JSONPatch", "JSONPatchExtend"}

ASSUME RequestAssumption ==
    /\ \A r \in Requests :
         \/ /\ r \in [op : Puts, coll : BOOLEAN, args : Seq([key : Keys, data : Data])]
            /\ r.args # <<>>
         \/ /\ r \in [op : Patching, coll : BOOLEAN, args : Seq([key : Keys, data : Patches])]
            /\ Len(r.args) = 1
    /\ None \notin Keys
    /\ nested \in [DOMAIN nested -> Data] /\ dataName \in Fields
    /\ pulled \in [DOMAIN pulled -> DOMAIN pulled]
    /\ DOMAIN nested \cup DOMAIN pulled \subseteq Values
    /\ MaxCalls \in Nat

NoCall == [op |-> "none", coll |-> FALSE, args |-> <<>>]

VARIABLES
    docs,      \* the collection: documents with an _id of their own
    pc,        \* pc[c]: "idle", or what the call of c does next
    call,      \* call[c]: the call; its args are those still to be put
    modified,  \* modified[c]: what a patch will write, its key and its data
    calls,     \* how many calls were made
    raced,     \* history: keys that two calls worked on at once, or that
               \* PostMany, a removal or PullOne came in between
    doubled,   \* history: keys of which several documents were there to update,
               \* or that PostMany inserted
    ret        \* the last call that returned, and how

vars == <<docs, pc, call, modified, calls, raced, doubled, ret>>

NoRet == [op |-> "none", coll |-> FALSE, put |-> None, ok |-> TRUE]
Nothing == [f \in Fields |-> None]
NoData == [key |-> None, data |-> Nothing]

Init ==
    /\ docs = {}
    /\ pc = [c \in Clients |-> "idle"]
    /\ call = [c \in Clients |-> NoCall]
    /\ modified = [c \in Clients |-> NoData]
    /\ calls = 0
    /\ raced = {} /\ doubled = {}
    /\ ret = NoRet

-----------------------------------------------------------------------------
\* getCollation: without one, keys are compared as they are.
SameKey(k, l, coll) == k = l \/ (coll /\ folded[k] = folded[l])

Matching(k, coll) == {d \in docs : SameKey(d.key, k, coll)}

\* The keys that a collation takes for one of ks.
Alike(ks) == {k \in Keys : \E l \in ks : folded[k] = folded[l]}

\* Setting the fields of what in a document, the key among them: the other
\* fields stay.
Set(d, what) ==
    [d EXCEPT !.key = IF what.key = None THEN @ ELSE what.key,
              !.data = [f \in Fields |-> IF what.data[f] = None THEN @[f] ELSE what.data[f]]]

\* UpdateOne with $set: any one document that matches, or none.
UpdateOne(k, coll, what) ==
    /\ \/ Matching(k, coll) = {} /\ UNCHANGED docs
       \/ \E d \in Matching(k, coll) : docs' = (docs \ {d}) \cup {Set(d, what)}
    /\ doubled' = IF \E d, e \in Matching(k, coll) : d # e
                  THEN doubled \cup Alike({k}) ELSE doubled

\* InsertOne.
FreshId == CHOOSE n \in 1 .. Cardinality(docs) + 1 : \A d \in docs : d.id # n
InsertOne(k, data) == docs' = docs \cup {[id |-> FreshId, key |-> k, data |-> data]}

Arg(c) == Head(call[c].args)

\* The keys a call works on, up to case.
KeysOf(r) == Alike({r.args[i].key : i \in DOMAIN r.args})

\* A client makes a call.
Call(c, r) ==
    /\ pc[c] = "idle" /\ calls < MaxCalls
    /\ calls' = calls + 1
    /\ call' = [call EXCEPT ![c] = r]
    /\ pc' = [pc EXCEPT ![c] = "find"]
    /\ raced' = raced \cup UNION {KeysOf(r) \cap KeysOf(call[d]) : d \in Clients \ {c}}
    /\ UNCHANGED <<docs, modified, doubled, ret>>

\* The call of c is over.
Return(c, ok) ==
    /\ pc' = [pc EXCEPT ![c] = "idle"]
    /\ call' = [call EXCEPT ![c] = NoCall]
    /\ modified' = [modified EXCEPT ![c] = NoData]
    /\ ret' = [op |-> call[c].op, coll |-> call[c].coll, put |-> Arg(c), ok |-> ok]

\* checkDataExisted: FindOne decides between update and insert, and
\* PutOneNotUpdate is done when there is something.
CheckDataExisted(c) ==
    /\ pc[c] = "find" /\ call[c].op \in Puts
    /\ \/ /\ Matching(Arg(c).key, call[c].coll) # {}
          /\ call[c].op = "PutOneNotUpdate"
          /\ Return(c, TRUE)
       \/ /\ Matching(Arg(c).key, call[c].coll) # {}
          /\ call[c].op # "PutOneNotUpdate"
          /\ pc' = [pc EXCEPT ![c] = "update"]
          /\ UNCHANGED <<call, modified, ret>>
       \/ /\ Matching(Arg(c).key, call[c].coll) = {}
          /\ pc' = [pc EXCEPT ![c] = "insert"]
          /\ UNCHANGED <<call, modified, ret>>
    /\ UNCHANGED <<docs, calls, raced, doubled>>

\* One more put is done: RestfulAPIPutMany goes on with the next.
Done(c) ==
    IF Len(call[c].args) > 1
    THEN /\ call' = [call EXCEPT ![c].args = Tail(@)]
         /\ pc' = [pc EXCEPT ![c] = "find"]
         /\ UNCHANGED <<modified, ret>>
    ELSE Return(c, TRUE)

\* Mutant of Collated: RestfulAPIPutOne updates without the collation too.
MutCollated(c) == call[c].op \in Patching /\ call[c].coll

\* RestfulAPIPutMany finds with the collation and updates without it.
Collated(c) == call[c].op # "PutMany" /\ call[c].coll

\* The update of a put.
Update(c) ==
    /\ pc[c] = "update" /\ call[c].op \in Puts
    /\ UpdateOne(Arg(c).key, Collated(c), Arg(c))
    /\ Done(c)
    /\ UNCHANGED <<calls, raced>>

\* Mutant of Insert: the data is put whether the update found it or not.
MutInsert(c) ==
    /\ pc[c] \in {"insert", "update"} /\ call[c].op \in Puts
    /\ InsertOne(Arg(c).key, Arg(c).data)
    /\ Done(c)
    /\ UNCHANGED <<calls, raced, doubled>>

\* The insert of a put.
Insert(c) ==
    /\ pc[c] = "insert"
    /\ InsertOne(Arg(c).key, Arg(c).data)
    /\ Done(c)
    /\ UNCHANGED <<calls, raced, doubled>>

-----------------------------------------------------------------------------
\* A patch applied to a document: Null takes a field away.
Patched(data, patch) ==
    [f \in Fields |-> IF patch[f] = None THEN data[f]
                      ELSE IF patch[f] = Null THEN None ELSE patch[f]]

\* What is patched: the document or, by JSONPatchExtend, the one in dataName.
\* Where there is none, it is JSON's null.
Original(c, data) ==
    IF call[c].op # "JSONPatchExtend" THEN data
    ELSE IF data[dataName] \in DOMAIN nested THEN nested[data[dataName]] ELSE Nothing

\* A JSON Patch cannot remove what is not there, nor be applied to a value that
\* is no document; a merge patch may.
Applies(c, data) ==
    call[c].op # "MergePatch" =>
      /\ \A f \in Fields : Arg(c).data[f] = Null => Original(c, data)[f] # None
      /\ call[c].op = "JSONPatchExtend" => data[dataName] \in DOMAIN nested \cup {None}

\* What a patch makes of a document; inside dataName there is no key.
Modified(c, d) ==
    [key |-> IF call[c].op = "JSONPatchExtend" THEN None ELSE d.key,
     data |-> Patched(Original(c, d.data), Arg(c).data)]

\* Mutant of GetOrigData: the filter is not passed on to FindOne.
MutGetOrigData(c) ==
    /\ pc[c] = "find" /\ call[c].op \in Patching
    /\ \E d \in docs :
         /\ modified' = [modified EXCEPT ![c] = Modified(c, d)]
         /\ pc' = [pc EXCEPT ![c] = "update"]
         /\ UNCHANGED <<call, ret>>
    /\ UNCHANGED <<docs, calls, raced, doubled>>

\* getOrigData and the patch, in memory.  Null the library may refuse to patch.
GetOrigData(c) ==
    LET found == Matching(Arg(c).key, call[c].coll)
    IN  /\ pc[c] = "find" /\ call[c].op \in Patching
        /\ \E d \in IF found = {} THEN {NoData} ELSE found :
             \/ /\ Applies(c, d.data)
                /\ modified' = [modified EXCEPT ![c] = Modified(c, d)]
                /\ pc' = [pc EXCEPT ![c] = "update"]
                /\ UNCHANGED <<call, ret>>
             \/ /\ \/ ~Applies(c, d.data) \/ found = {}
                   \/ call[c].op = "JSONPatchExtend" /\ d.data[dataName] = None
                /\ Return(c, FALSE)
        /\ UNCHANGED <<docs, calls, raced, doubled>>

\* All of what was patched is written with $set: what the patch took away is not
\* in it, so it stays in the collection; what JSONPatchExtend patched inside
\* dataName is set beside it.
UpdatePatched(c) ==
    /\ pc[c] = "update" /\ call[c].op \in Patching
    /\ UpdateOne(Arg(c).key, call[c].coll, modified[c])
    /\ Return(c, TRUE)
    /\ UNCHANGED <<calls, raced>>

\* An operation fails and with it the call: the server did not do it, or it
\* did and the answer was lost.
Fail(c) ==
    /\ pc[c] # "idle"
    /\ Return(c, FALSE)
    /\ \/ UNCHANGED <<docs, doubled>>
       \/ /\ pc[c] = "update"
          /\ IF call[c].op \in Puts
             THEN UpdateOne(Arg(c).key, Collated(c), Arg(c))
             ELSE UpdateOne(Arg(c).key, call[c].coll, modified[c])
       \/ /\ pc[c] = "insert"
          /\ InsertOne(Arg(c).key, Arg(c).data)
          /\ UNCHANGED doubled
    /\ UNCHANGED <<calls, raced>>

-----------------------------------------------------------------------------
(* Calls of one operation; what another client is doing meanwhile is raced. *)
Meanwhile(ks) == raced' = raced \cup (Alike(ks) \cap UNION {KeysOf(call[c]) : c \in Clients})

DeleteOne(k, coll) ==
    /\ \E d \in Matching(k, coll) : docs' = docs \ {d}
    /\ Meanwhile({k})
    /\ UNCHANGED <<pc, call, modified, calls, doubled, ret>>

\* DeleteMany with a filter that matches key k, up to case; Drop is the same
\* for all keys.
DeleteMany(ks) ==
    /\ docs # {} /\ docs' = {d \in docs : d.key \notin ks}
    /\ Meanwhile(ks)
    /\ UNCHANGED <<pc, call, modified, calls, doubled, ret>>

\* PullOne: UpdateOne with $pull, which the server refuses on what is no array.
PullOne(k, coll, f) ==
    /\ \E d \in Matching(k, coll) :
         /\ d.data[f] \in DOMAIN pulled
         /\ docs' = (docs \ {d}) \cup {[d EXCEPT !.data[f] = pulled[@]]}
    /\ Meanwhile({k})
    /\ UNCHANGED <<pc, call, modified, calls, doubled, ret>>

\* PostMany inserts without looking.
PostMany(k, data) ==
    /\ calls < MaxCalls /\ calls' = calls + 1
    /\ InsertOne(k, data)
    /\ Meanwhile({k})
    /\ doubled' = doubled \cup Alike({k})
    /\ UNCHANGED <<pc, call, modified, ret>>

Next ==
    \/ \E c \in Clients :
         \/ \E r \in Requests : Call(c, r)
         \/ CheckDataExisted(c) \/ Update(c) \/ Insert(c)
         \/ GetOrigData(c) \/ UpdatePatched(c)
         \/ Fail(c)
    \/ \E k \in Keys, coll \in BOOLEAN : DeleteOne(k, coll) \/ \E f \in Fields : PullOne(k, coll, f)
    \/ \E k \in Keys : PostMany(k, Nothing)
    \/ \E k \in Keys : DeleteMany(Alike({k}))
    \/ DeleteMany(Keys)

Spec == Init /\ [][Next]_vars

-----------------------------------------------------------------------------
TypeOK ==
    /\ \A d \in docs : d.key \in Keys /\ d.data \in Data
    /\ \A d, e \in docs : d.id = e.id => d = e
    /\ \A c \in Clients : pc[c] = "idle" <=> call[c] = NoCall
    /\ \A c \in Clients : modified[c] \in [key : Keys \cup {None}, data : Data]

\* check and insert are two operations, and an update under a collation gives
\* any document it matches the key of another: a key has two documents only if
\* calls on it overlapped, PostMany was used, or an update had several documents
\* to choose from.  A failed call that is repeated does not do it.
OneDocument ==
    \A d, e \in docs : d.key = e.key /\ d.key \notin raced \cup doubled => d = e

\* A put that answered without error is in the collection, under its own key,
\* unless its key was raced for.  (For PutMany only without a collation: see
\* Collated.)
StoredWhenPut ==
    \A c \in Clients :
      /\ pc[c] # "idle" /\ pc'[c] = "idle"
      /\ ret'.ok /\ ret'.op \in Puts \ {"PutOneNotUpdate"}
      /\ ret'.op = "PutMany" => ~ret'.coll
      /\ ret'.put.key \notin raced
      => \E d \in docs' : /\ d.key = ret'.put.key
                          /\ \A f \in Fields : ret'.put.data[f] # None
                                               => d.data[f] = ret'.put.data[f]

PutIsStored == [][StoredWhenPut]_vars

\* A patch that was not raced for, and whose filter matches one document,
\* changes only the fields it names, and not the key, though it writes all of it
\* back.
\* JSONPatchExtend changes also the fields that go by the name of one in the
\* document it patched, and the one it patched only if it has its own name
\* inside.
ChangedAsNamed ==
    \A c \in Clients :
      /\ call[c].op \in Patching /\ pc[c] = "update" /\ pc'[c] = "idle"
      /\ Arg(c).key \notin raced
      /\ Cardinality(Matching(Arg(c).key, call[c].coll)) = 1
      => \A d \in docs, e \in docs' : d.id = e.id =>
           /\ e.key = d.key
           /\ \A f \in Fields :
                /\ Arg(c).data[f] = None
                /\ call[c].op = "JSONPatchExtend" => Original(c, d.data)[f] = None
                => e.data[f] = d.data[f]

PatchChangesWhatItNames == [][ChangedAsNamed]_vars
=============================================================================
