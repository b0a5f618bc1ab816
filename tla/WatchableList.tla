---------------------------- MODULE WatchableList ----------------------------
(***************************************************************************)
(* What clients are told of the registry: the arms of dispatch             *)
(* (src/server.rs) for get_watchable_count, get_watchable_list and         *)
(* get_watchable_info.  The list is filtered by type and by name and cut   *)
(* into chunks, one response per chunk.  The registry is a HashMap: the    *)
(* order of its entries is any.                                            *)
(*                                                                         *)
(* A path and a pattern are sequences of characters.  A filter that is     *)
(* absent, or neither a string nor an array, is "given = FALSE".           *)
(***************************************************************************)
EXTENDS Datastore, SequencesExt

CONSTANTS
    ListRequests,   \* the lists that clients may ask for
    InfoRequests    \* the paths that they may ask details of, in sequences

ASSUME ListAssumption ==
    /\ Paths \subseteq Seq(STRING)
    /\ ListRequests \subseteq [max_per : Nat, by_type : BOOLEAN, types : SUBSET STRING,
                               by_name : BOOLEAN, names : SUBSET Seq(STRING)]

VARIABLES
    request,     \* the latest list request
    responses,   \* the answer to it
    counted,     \* the latest answer to get_watchable_count
    asked,       \* the paths of the latest get_watchable_info
    details      \* the answer to it

listVars == <<request, responses>>
answerVars == <<counted, asked, details>>
vars == <<datastoreVars, listVars, answerVars>>

NoRequest == [max_per |-> 0, by_type |-> FALSE, types |-> {}, by_name |-> FALSE, names |-> {}]
NoCount == [k \in WatchableKind |-> -1]
NoDetails == [error |-> FALSE, info |-> [p \in {} |-> 0]]

Init ==
    /\ DatastoreInit
    /\ request = NoRequest
    /\ responses = <<>>
    /\ counted = NoCount
    /\ asked = <<>>
    /\ details = NoDetails

-----------------------------------------------------------------------------
(* glob_match, on what is left of the pattern from i and of the text from  *)
(* j.  Mutant: a star stands for at least one character.                   *)
GlobStarNotEmpty(p, t) ==
    LET inner[i \in 1..(Len(p) + 1), j \in 1..(Len(t) + 1)] ==
        IF i > Len(p) THEN j > Len(t)
        ELSE IF j > Len(t) THEN FALSE
        ELSE IF p[i] = "*" THEN inner[i + 1, j + 1] \/ inner[i, j + 1]
        ELSE p[i] \in {"?", t[j]} /\ inner[i + 1, j + 1]
    IN  inner[1, 1]

glob_match(p, t) ==
    LET inner[at \in (1..(Len(p) + 1)) \X (1..(Len(t) + 1))] ==
        LET i == at[1]
            j == at[2]
        IN  IF i > Len(p) THEN j > Len(t)
            ELSE IF p[i] = "*" THEN \/ inner[<<i + 1, j>>]
                                    \/ j <= Len(t) /\ inner[<<i, j + 1>>]
            ELSE j <= Len(t) /\ p[i] \in {"?", t[j]} /\ inner[<<i + 1, j + 1>>]
    IN  inner[<<1, 1>>]

as_api_str == [Var |-> "var", Rpv |-> "rpv", Alias |-> "alias"]

(* extract_type_filter: an unknown type name is dropped from the filter.   *)
extract_type_filter(r) ==
    {k \in WatchableKind : \E t \in r.types :
        <<t, k>> \in {<<"var", "Var">>, <<"rpv", "Rpv">>, <<"alias", "Alias">>}}

Selected(r) == {p \in DOMAIN entries :
    /\ r.by_type => entries[p].definition.kind \in extract_type_filter(r)
    /\ r.by_name => \E pat \in r.names : glob_match(pat, p)}

(* The loop over a chunk: what it has pushed to the list of a kind.        *)
OfKind(chunk, k) ==
    LET pushed[i \in 0..Len(chunk)] ==
        IF i = 0 THEN <<>>
        ELSE IF entries[chunk[i]].definition.kind = k THEN Append(pushed[i - 1], chunk[i])
        ELSE pushed[i - 1]
    IN  pushed[Len(chunk)]

(* One response: the paths of the chunk by kind, and whether it is the     *)
(* last one.                                                               *)
ListResponse(chunk, done) ==
    [content |-> [k \in WatchableKind |-> OfKind(chunk, k)], done |-> done]

(* slice::chunks: the i-th one, and how many there are.                    *)
Chunk(all, n, i) == SubSeq(all, (i - 1) * n + 1, Min({i * n, Len(all)}))
Chunks(all, n) == (Len(all) + n - 1) \div n

(* Mutant: an empty selection is not answered.                             *)
ResponsesNoEmpty(all, n) ==
    LET total == Chunks(all, n)
    IN  [i \in 1..total |-> ListResponse(Chunk(all, n, i), i = total)]

(* An empty selection is answered with one empty response.                 *)
Responses(all, n) ==
    LET total == Chunks(all, n)
    IN  IF total = 0 THEN <<ListResponse(<<>>, TRUE)>>
        ELSE [i \in 1..total |-> ListResponse(Chunk(all, n, i), i = total)]

List(r) ==
    /\ phase = "ready"
    /\ r.max_per > 0
    /\ request' = r
    /\ \E all \in SetToSeqs(Selected(r)) : responses' = Responses(all, r.max_per)
    /\ UNCHANGED <<datastoreVars, answerVars>>

(* Mutant: the RPVs are counted by the identifiers that were given out.    *)
QuantitiesByIds == [k \in WatchableKind |->
    IF k = "Rpv" THEN next_rpv_id
    ELSE Cardinality({p \in DOMAIN entries : entries[p].definition.kind = k})]

(* var_count, alias_count and rpv_count.                                   *)
Quantities == [k \in WatchableKind |->
    Cardinality({p \in DOMAIN entries : entries[p].definition.kind = k})]

Count ==
    /\ phase = "ready"
    /\ counted' = Quantities
    /\ UNCHANGED <<datastoreVars, listVars, asked, details>>

(* Mutant: every entry has an rpvid, as every DatastoreEntry has.          *)
DetailedWithId(p) ==
    [type |-> as_api_str[entries[p].definition.kind], rpvid |-> {entries[p].rpv_id}]

(* An object of the answer: only that of an RPV has an rpvid.              *)
make_detailed(p) ==
    [type |-> as_api_str[entries[p].definition.kind],
     rpvid |-> IF entries[p].definition.kind = "Rpv" THEN {entries[p].rpv_id} ELSE {}]

(* One unknown path refuses the whole request.                             *)
Info(names) ==
    /\ phase = "ready"
    /\ asked' = names
    /\ details' = IF Range(names) \subseteq DOMAIN entries
                  THEN [error |-> FALSE, info |-> [p \in Range(names) |-> make_detailed(p)]]
                  ELSE [error |-> TRUE, info |-> NoDetails.info]
    /\ UNCHANGED <<datastoreVars, listVars, counted>>

(* slice::chunks panics on a chunk size of zero.                           *)
ListPanics ==
    /\ phase = "ready"
    /\ \E r \in ListRequests : r.max_per = 0
    /\ phase' = "panicked"
    /\ UNCHANGED <<defs, next, next_rpv_id, entries, listVars, answerVars>>

Panicked == phase = "panicked" /\ UNCHANGED vars

Next ==
    \/ Populate /\ UNCHANGED <<listVars, answerVars>>
    \/ \E r \in ListRequests : List(r)
    \/ Count
    \/ \E names \in InfoRequests : Info(names)
    \/ ListPanics
    \/ Panicked

Spec == Init /\ [][Next]_vars

-----------------------------------------------------------------------------
TypeOK ==
    /\ DatastoreTypeOK
    /\ request \in ListRequests \cup {NoRequest}
    /\ \A i \in 1..Len(responses) :
          /\ responses[i].done \in BOOLEAN
          /\ \A k \in WatchableKind : responses[i].content[k] \in Seq(Paths)
    /\ counted \in [WatchableKind -> Nat] \cup {NoCount}
    /\ asked \in InfoRequests \cup {<<>>}
    /\ DOMAIN details.info \subseteq Paths

Answered == responses # <<>>
Listed(i, k) == Range(responses[i].content[k])
Size(i) == LET n(k) == Len(responses[i].content[k]) IN n("Var") + n("Rpv") + n("Alias")
TotalSize == FoldLeftDomain(LAMBDA n, i : n + Size(i), 0, responses)

(* What pattern means: the pattern can be laid along the text.             *)
Fits(p, t) == \E cut \in [1..(Len(p) + 1) -> 1..(Len(t) + 1)] :
    /\ cut[1] = 1 /\ cut[Len(p) + 1] = Len(t) + 1
    /\ \A i \in 1..Len(p) :
          IF p[i] = "*" THEN cut[i] <= cut[i + 1]
          ELSE cut[i + 1] = cut[i] + 1 /\ p[i] \in {"?", t[cut[i]]}

(* The responses together list every entry that the filters let through,   *)
(* under its own kind and once, in chunks no larger than was asked for.    *)
ListIsComplete ==
    Answered =>
        /\ UNION {Listed(i, k) : i \in 1..Len(responses), k \in WatchableKind}
              = {p \in DOMAIN entries :
                    /\ request.by_type =>
                          as_api_str[entries[p].definition.kind] \in request.types
                    /\ request.by_name => \E pat \in request.names : Fits(pat, p)}
        /\ \A i \in 1..Len(responses), k \in WatchableKind : \A p \in Listed(i, k) :
              entries[p].definition.kind = k
        /\ \A i \in 1..Len(responses) : Size(i) <= request.max_per
        /\ Cardinality(Selected(request)) = TotalSize

(* A client that has a complete list: what it was counted is what it was   *)
(* listed, kind by kind, though the registry counts entries, numbers       *)
(* definitions and lists in chunks.                                        *)
CountsAgreeWithList ==
    Answered /\ ~request.by_type /\ ~request.by_name /\ counted # NoCount =>
        \A k \in WatchableKind :
            counted[k] = FoldLeftDomain(LAMBDA n, i : n + Len(responses[i].content[k]),
                                        0, responses)

(* And it gets details of whatever variable or RPV it was listed, under    *)
(* the same type; it is refused if it asks for a path that was not listed; *)
(* and an rpvid is given for each RPV, no two alike, and for no variable.  *)
(* Nothing is said of aliases: the comment of server.rs:782 has it that    *)
(* callers do not pass them to make_detailed, though both callers do.      *)
DetailsAgreeWithList ==
    Answered /\ ~request.by_type /\ ~request.by_name /\ asked # <<>> =>
        LET info == details.info
            listed(k) == UNION {Listed(i, k) : i \in 1..Len(responses)}
        IN  /\ Range(asked) \subseteq listed("Var") \cup listed("Rpv") => ~details.error
            /\ ~(Range(asked) \subseteq UNION {listed(k) : k \in WatchableKind}) => details.error
            /\ \A k \in {"Var", "Rpv"} : \A p \in DOMAIN info \cap listed(k) :
                  /\ info[p].type = as_api_str[k]
                  /\ Cardinality(info[p].rpvid) = IF k = "Rpv" THEN 1 ELSE 0
            /\ \A p, r \in DOMAIN info \cap listed("Rpv") :
                  p # r => info[p].rpvid # info[r].rpvid

(* The client can tell when the list is complete: there is always a        *)
(* response, the last one is marked, and no other.                         *)
LastResponseIsMarked ==
    request # NoRequest =>
        /\ responses # <<>>
        /\ \A i \in 1..Len(responses) : responses[i].done <=> i = Len(responses)

=============================================================================
