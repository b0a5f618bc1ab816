------------------------------ MODULE Datastore ------------------------------
(***************************************************************************)
(* The registry of watchables (src/datastore.rs): populate goes once, at   *)
(* startup, through the definitions that the datasource returns, numbers   *)
(* the RPVs with 16-bit identifiers and keys every entry by its path.      *)
(***************************************************************************)
EXTENDS Integers, Sequences, FiniteSets

CONSTANTS
    Paths,         \* the paths that definitions may use
    Definitions,   \* what DataSource::watchables may return: sequences
    MaxU16         \* u16::MAX

WatchableKind == {"Var", "Rpv", "Alias"}
WatchableDefinition == [path : Paths, kind : WatchableKind]
DatastoreEntry == [definition : WatchableDefinition, rpv_id : 0..MaxU16]

ASSUME DatastoreAssumption ==
    /\ Definitions \subseteq Seq(WatchableDefinition)
    /\ MaxU16 \in Nat

VARIABLES
    defs,          \* the definitions
    next,          \* the index of the one that populate looks at
    next_rpv_id,   \* u16
    entries,       \* Datastore::entries, keyed by path
    phase          \* "populate", "ready" or "panicked"

datastoreVars == <<defs, next, next_rpv_id, entries, phase>>

DatastoreInit ==
    /\ defs \in Definitions
    /\ next = 1
    /\ next_rpv_id = 0
    /\ entries = [p \in {} |-> 0]
    /\ phase = "populate"

-----------------------------------------------------------------------------
(* Mutant: a path that is defined again keeps its first entry.             *)
InsertIfAbsent(def, id) ==
    entries' = [p \in DOMAIN entries \cup {def.path} |->
        IF p \in DOMAIN entries THEN entries[p] ELSE [definition |-> def, rpv_id |-> id]]

(* entries.insert(path, ..) replaces what the path had.                    *)
Insert(def, id) ==
    entries' = [p \in DOMAIN entries \cup {def.path} |->
        IF p = def.path THEN [definition |-> def, rpv_id |-> id] ELSE entries[p]]

Populating == phase = "populate" /\ next <= Len(defs)

PopulateOther ==
    /\ Populating
    /\ defs[next].kind # "Rpv"
    /\ Insert(defs[next], 0)
    /\ next' = next + 1
    /\ UNCHANGED <<defs, next_rpv_id, phase>>

(* Mutants: the overflow is seen one too late; the identifier wraps.       *)
OverflowsLate(id) == id > MaxU16
Wraps(id) == (id + 1) % MaxU16

(* checked_add(1), and its None.                                           *)
Overflows(id) == id + 1 > MaxU16
Next16(id) == id + 1

PopulateRpv ==
    /\ Populating
    /\ defs[next].kind = "Rpv"
    /\ ~Overflows(next_rpv_id)
    /\ Insert(defs[next], next_rpv_id)
    /\ next_rpv_id' = Next16(next_rpv_id)
    /\ next' = next + 1
    /\ UNCHANGED <<defs, phase>>

(* The identifier after this one would overflow: populate panics, and with *)
(* it run, before it starts anything.                                      *)
PopulatePanics ==
    /\ Populating
    /\ defs[next].kind = "Rpv"
    /\ Overflows(next_rpv_id)
    /\ phase' = "panicked"
    /\ UNCHANGED <<defs, next, next_rpv_id, entries>>

Populated ==
    /\ phase = "populate"
    /\ next = Len(defs) + 1
    /\ phase' = "ready"
    /\ UNCHANGED <<defs, next, next_rpv_id, entries>>

Populate == PopulateOther \/ PopulateRpv \/ PopulatePanics \/ Populated

-----------------------------------------------------------------------------
DatastoreTypeOK ==
    /\ defs \in Seq(WatchableDefinition)
    /\ next \in 1..(Len(defs) + 1)
    /\ next_rpv_id \in 0..MaxU16
    /\ DOMAIN entries \subseteq Paths
    /\ \A p \in DOMAIN entries : entries[p] \in DatastoreEntry
    /\ phase \in {"populate", "ready", "panicked"}

(* No two RPVs of the registry share an identifier, whatever paths are     *)
(* defined again and with whatever kind, and 65535 is never one.           *)
RpvIdsAreUnique ==
    \A p, r \in DOMAIN entries :
        /\ entries[p].definition.kind = "Rpv"
        /\ entries[r].definition.kind = "Rpv"
        => /\ entries[p].rpv_id < MaxU16
           /\ p # r => entries[p].rpv_id # entries[r].rpv_id

(* The registry is what the definitions say: it has the paths that were    *)
(* defined, each with its last definition.                                 *)
LastDefinitionWins ==
    /\ DOMAIN entries = {defs[i].path : i \in 1..(next - 1)}
    /\ \A i \in 1..(next - 1) :
          (\A j \in (i + 1)..(next - 1) : defs[j].path # defs[i].path)
              => entries[defs[i].path].definition = defs[i]

=============================================================================
