------------------------- MODULE CachedLocationTree -------------------------
(***************************************************************************)
(* The Redis cache in front of the closure table.  Two sorted sets per     *)
(* location, parents:{acc}:id and children:{acc}:id, hold the location     *)
(* itself with score 0 and its ancestors (descendants) with their depths.  *)
(* They have no expiry: what makes them right is that every write deletes  *)
(* the keys it affects.  Every request chooses its own cache policy        *)
(* (cache/CacheMiddleware.ts).                                             *)
(*                                                                         *)
(* The class extends the table's class, as this module extends its module. *)
(* Source: src/src/core/location/CachedLocationTreeTable.ts.  Reads and    *)
(* writes run in several gateway processes; every database or Redis call   *)
(* is a step of its own.                                                   *)
(***************************************************************************)
EXTENDS LocationTree

CONSTANTS
    NoParent,     \* the null parentId
    Reader,       \* concurrent getAllChildren / getAllParents calls
    Writer,       \* concurrent updateParent / removeSubTree calls
    CachePolicy,  \* what requests ask for with ?cachePolicy=
    MaxWrites     \* bound: write calls in a behaviour

ASSUME CacheAssumption ==
    /\ NoParent \notin Location
    /\ CachePolicy \subseteq {"READ_WRITE", "READ_ONLY", "WRITE_ONLY", "OFF"}
    /\ MaxWrites \in Nat

VARIABLES
    cache,    \* [Key -> [member -> score]]; an empty sorted set is no key
    reader,   \* progress of each read
    writer,   \* progress of each write
    writes,   \* write calls so far
    suspect   \* history: keys that a race or a crash may have left stale

vars == <<tree, cache, reader, writer, writes, suspect>>

Key == {"parents", "children"} \X Location
NoEntry == [x \in {} |-> 0]
Cached(k) == DOMAIN cache[k] # {}
MayRead(policy) == policy \in {"READ_WRITE", "READ_ONLY"}
MayFill(policy) == policy \in {"READ_WRITE", "WRITE_ONLY"}

(* What a fill writes: the location itself and the rows of the table.      *)
Entry(k) ==
    LET id == k[2]
        others == IF k[1] = "children" THEN AllChildren(tree, id)
                                       ELSE AllParents(tree, id)
    IN  [x \in others \cup {id} |->
            IF x = id THEN 0
            ELSE IF k[1] = "children" THEN tree[<<id, x>>] ELSE tree[<<x, id>>]]

(* ZADD adds members and overwrites scores; it never removes a member.     *)
ZAdd(old, new) ==
    [x \in DOMAIN old \cup DOMAIN new |-> IF x \in DOMAIN new THEN new[x] ELSE old[x]]

ZRem(old, x) == [m \in DOMAIN old \ {x} |-> old[m]]

NoRead  == [pc |-> "idle"]
NoWrite == [pc |-> "idle"]

CachedInit ==
    /\ Init
    /\ cache = [k \in Key |-> NoEntry]
    /\ reader = [r \in Reader |-> NoRead]
    /\ writer = [w \in Writer |-> NoWrite]
    /\ writes = 0
    /\ suspect = {}

-----------------------------------------------------------------------------
(* getAllChildren, getAllParents, and getImmediateChildren, which falls    *)
(* back on getAllChildren.  A hit changes nothing; with READ_ONLY a miss   *)
(* answers [] without reading the table or filling the cache.              *)

Miss(r, k, policy) ==
    /\ reader[r].pc = "idle"
    /\ MayFill(policy)
    /\ MayRead(policy) => ~Cached(k)
    /\ reader' = [reader EXCEPT ![r] = [pc |-> "missed", key |-> k]]
    /\ UNCHANGED <<tree, cache, writer, writes, suspect>>

(* super.getAllChildren / super.getAllParents                              *)
ReadTable(r) ==
    /\ reader[r].pc = "missed"
    /\ reader' = [reader EXCEPT ![r] =
            [pc |-> "read", key |-> @.key, data |-> Entry(@.key), overtaken |-> FALSE]]
    /\ UNCHANGED <<tree, cache, writer, writes, suspect>>

Fill(r) ==
    /\ reader[r].pc = "read"
    /\ LET k == reader[r].key
       IN  /\ cache' = [cache EXCEPT ![k] = ZAdd(@, reader[r].data)]
           /\ suspect' = IF reader[r].overtaken THEN suspect \cup {k} ELSE suspect
    /\ reader' = [reader EXCEPT ![r] = NoRead]
    /\ UNCHANGED <<tree, writer, writes>>

-----------------------------------------------------------------------------
(* updateParent: three reads in parallel, then the SQL transaction, then   *)
(* one MULTI that deletes the affected keys.  The reads are one step: a    *)
(* commit of another call between them overtakes this call either way.     *)

(* After overlapping writes a location below id may have further parents,  *)
(* from which a move of id cuts it off as well.                            *)
SharedBelow(id) ==
    \E c \in AllChildren(tree, id) :
        AllParents(tree, c) \ ({id} \cup AllChildren(tree, id)
                                \cup AllParents(tree, id)) # {}

(* The caller's hasPrevParent need not agree with the table.  Moving a     *)
(* location whose subtree is shared deletes rows of ancestors whose        *)
(* entries it does not drop.                                               *)
StartUpdateParent(w, id, parent, hasPrevParent) ==
    /\ writer[w].pc = "idle"
    /\ writes < MaxWrites
    /\ writes' = writes + 1
    /\ writer' = [writer EXCEPT ![w] =
            [pc |-> "read", id |-> id, parent |-> parent, hasPrev |-> hasPrevParent,
             allChildren |-> AllChildren(tree, id),
             allParents |-> AllParents(tree, id),
             allParentsParents |-> IF parent = NoParent THEN {}
                                   ELSE AllParents(tree, parent),
             overtaken |-> hasPrevParent /\ SharedBelow(id)]]
    /\ UNCHANGED <<tree, cache, reader, suspect>>

(* A commit overtakes the reads that other calls took before it, and their *)
(* invalidations: a ZREM that comes late may hit an entry filled since.    *)
Overtake(w) ==
    /\ reader' = [r \in Reader |->
            IF reader[r].pc = "read" THEN [reader[r] EXCEPT !.overtaken = TRUE]
                                     ELSE reader[r]]
    /\ writer' = [v \in Writer |->
            IF v = w THEN [writer[w] EXCEPT !.pc = "committed"]
            ELSE IF writer[v].pc # "idle" THEN [writer[v] EXCEPT !.overtaken = TRUE]
            ELSE writer[v]]
    /\ suspect' = IF writer[w].overtaken THEN {k \in Key : Cached(k)} ELSE suspect

CommitUpdateParent(w) ==
    /\ writer[w].pc = "read"
    /\ writer[w].parent # writer[w].id
    /\ IF writer[w].parent = NoParent
       THEN Detach(writer[w].id, writer[w].hasPrev)
       ELSE Attach(writer[w].id, writer[w].parent, writer[w].hasPrev)
    /\ Overtake(w)
    /\ UNCHANGED <<cache, writes>>

(* The transaction rolls back: the call throws before the MULTI.           *)
RollBackUpdateParent(w) ==
    /\ writer[w].pc = "read"
    /\ writer[w].parent \in Location \ {writer[w].id}
    /\ AttachRolledBack(writer[w].id, writer[w].parent, writer[w].hasPrev)
    /\ writer' = [writer EXCEPT ![w] = NoWrite]
    /\ UNCHANGED <<cache, reader, writes, suspect>>

(* Mutant: the new parent's ancestors are forgotten.                       *)
DroppedWithoutGrandparents(v) ==
    ({"parents"} \X ({v.id} \cup v.allChildren))
        \cup ({"children"} \X (v.allParents \cup ({v.parent} \ {NoParent})))

DroppedByUpdateParent(v) ==
    ({"parents"} \X ({v.id} \cup v.allChildren))
        \cup ({"children"} \X (v.allParents \cup v.allParentsParents
                               \cup ({v.parent} \ {NoParent})))

DropKeys(K) ==
    /\ cache' = [k \in Key |-> IF k \in K THEN NoEntry ELSE cache[k]]
    /\ suspect' = suspect \ K

InvalidateAfterUpdateParent(w) ==
    /\ writer[w].pc = "committed"
    /\ writer[w].parent # writer[w].id
    /\ DropKeys(DroppedByUpdateParent(writer[w]))
    /\ writer' = [writer EXCEPT ![w] = NoWrite]
    /\ UNCHANGED <<tree, reader, writes>>

-----------------------------------------------------------------------------
(* removeSubTree: reads allChildren, then allParents, deletes the rows,    *)
(* then one MULTI.  A removal is written with parent = id, which           *)
(* updateParent never uses.  Its caller's check for children comes first.  *)

NoChildIn(entry) == ~\E c \in DOMAIN entry : entry[c] = 1

(* Removing a location that has children leaves its descendants in the     *)
(* entries of its ancestors: only id itself is taken out of them.          *)
Removing(id) ==
    [pc |-> "read", id |-> id, parent |-> id, hasPrev |-> TRUE,
     allChildren |-> AllChildren(tree, id),
     allParents |-> AllParents(tree, id), allParentsParents |-> {},
     overtaken |-> ImmediateChildren(tree, id) # {}]

(* Without an entry the children are read from the table.                  *)
TableChildren(id, mayFill) ==
    LET children == Entry(<<"children", id>>)
    IN  IF mayFill
        THEN [pc |-> "fill", id |-> id, data |-> children, overtaken |-> FALSE]
        ELSE IF NoChildIn(children) THEN Removing(id) ELSE NoWrite

(* LocationResolver.removeLocation asks for the immediate children first:  *)
(* a hit answers by ZRANGEBYSCORE 1 1; on a miss getAllChildren is called. *)
StartRemoveSubTree(w, id, policy) ==
    LET k == <<"children", id>>
    IN  /\ writer[w].pc = "idle"
        /\ writes < MaxWrites
        /\ writes' = writes + 1
        /\ \/ /\ MayRead(policy) /\ Cached(k) /\ NoChildIn(cache[k])
              /\ writer' = [writer EXCEPT ![w] = Removing(id)]
           \/ /\ MayRead(policy) /\ ~Cached(k)
              /\ writer' = [writer EXCEPT ![w] = [pc |-> "check", id |-> id,
                                mayFill |-> MayFill(policy), overtaken |-> FALSE]]
           \/ /\ ~MayRead(policy)
              /\ writer' = [writer EXCEPT ![w] = TableChildren(id, MayFill(policy))]
        /\ UNCHANGED <<tree, cache, reader, suspect>>

(* getAllChildren looks the key up again.  Redis returns scores as strings *)
(* and the filter depth === 1 drops them all, so a key that was filled in  *)
(* between answers "no children"; and so does READ_ONLY, unread.           *)
CheckChildren(w) ==
    LET v == writer[w]
    IN  /\ v.pc = "check"
        /\ writer' = [writer EXCEPT ![w] =
              IF Cached(<<"children", v.id>>) \/ ~v.mayFill
              THEN Removing(v.id) ELSE TableChildren(v.id, TRUE)]
        /\ UNCHANGED <<tree, cache, reader, writes, suspect>>

FillChildren(w) ==
    LET v == writer[w]
        k == <<"children", v.id>>
    IN  /\ v.pc = "fill"
        /\ cache' = [cache EXCEPT ![k] = ZAdd(@, v.data)]
        /\ suspect' = IF v.overtaken THEN suspect \cup {k} ELSE suspect
        /\ writer' = [writer EXCEPT ![w] =
              IF NoChildIn(v.data) THEN Removing(v.id) ELSE NoWrite]
        /\ UNCHANGED <<tree, reader, writes>>

CommitRemoveSubTree(w) ==
    /\ writer[w].pc = "read"
    /\ writer[w].parent = writer[w].id
    /\ RemoveSubTree(writer[w].id)
    /\ Overtake(w)
    /\ UNCHANGED <<cache, writes>>

DroppedByRemoveSubTree(v) == {"parents", "children"} \X ({v.id} \cup v.allChildren)

InvalidateAfterRemoveSubTree(w) ==
    LET v == writer[w]
        trimmed == {"children"} \X v.allParents
        dropped == DroppedByRemoveSubTree(v)
    IN  /\ v.pc = "committed"
        /\ v.parent = v.id
        /\ cache' = [k \in Key |-> IF k \in dropped THEN NoEntry
                                   ELSE IF k \in trimmed THEN ZRem(cache[k], v.id)
                                   ELSE cache[k]]
        /\ suspect' = (suspect \ dropped) \cup
              IF v.overtaken THEN {k \in trimmed : Cached(k)} ELSE {}
        /\ writer' = [writer EXCEPT ![w] = NoWrite]
        /\ UNCHANGED <<tree, reader, writes>>

(* The process stops, or Redis fails, between the commit and the MULTI:    *)
(* nothing repeats the invalidation.                                       *)
LoseInvalidation(w) ==
    LET v == writer[w]
    IN  /\ v.pc = "committed"
        /\ suspect' = suspect \cup {k \in Key : Cached(k) /\
              k \in IF v.parent = v.id
                    THEN DroppedByRemoveSubTree(v) \cup ({"children"} \X v.allParents)
                    ELSE DroppedByUpdateParent(v)}
        /\ writer' = [writer EXCEPT ![w] = NoWrite]
        /\ UNCHANGED <<tree, cache, reader, writes>>

CachedNext ==
    \/ \E r \in Reader :
        \/ \E k \in Key, policy \in CachePolicy : Miss(r, k, policy)
        \/ ReadTable(r)
        \/ Fill(r)
    \/ \E w \in Writer :
        \/ \E id \in Location :
            \/ \E parent \in {NoParent} \cup (Location \ {id}), hasPrevParent \in BOOLEAN :
                StartUpdateParent(w, id, parent, hasPrevParent)
            \/ \E policy \in CachePolicy : StartRemoveSubTree(w, id, policy)
        \/ CommitUpdateParent(w)
        \/ RollBackUpdateParent(w)
        \/ InvalidateAfterUpdateParent(w)
        \/ CheckChildren(w)
        \/ FillChildren(w)
        \/ CommitRemoveSubTree(w)
        \/ InvalidateAfterRemoveSubTree(w)
        \/ LoseInvalidation(w)

CachedSpec == CachedInit /\ [][CachedNext]_vars

-----------------------------------------------------------------------------
NoInvalidationDue == \A w \in Writer : writer[w].pc # "committed"

(* The keys a write deletes are enough: once every commit has been         *)
(* followed by its MULTI, a cached entry equals the rows of the table,     *)
(* unless its fill was overtaken by a commit, two writes overlapped, a     *)
(* location with children was removed, a location was moved that has one   *)
(* below it which overlapping writes had linked elsewhere too, or an       *)
(* invalidation was lost.  Those are the only ways to a stale entry,       *)
(* which, without expiry, lasts until another write drops the key.         *)
Coherent ==
    NoInvalidationDue =>
        \A k \in Key \ suspect : Cached(k) => cache[k] = Entry(k)

(* With no stale entry in the cache, a removal that goes on to delete rows *)
(* is of a location that has no children ("Cannot delete a location that   *)
(* has children or devices attached.").                                    *)
RemovesOnlyLeaves ==
    suspect = {} =>
        \A w \in Writer :
            writer[w].pc = "read" /\ writer[w].parent = writer[w].id =>
                writer[w].allChildren = {}

=============================================================================
