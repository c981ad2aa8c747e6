------------------------------- MODULE Catalog -------------------------------
(***************************************************************************)
(* The catalog of a server as its client sees it in the course of time:    *)
(* the calls PolicyGate lets through, the `search` tool that pages through *)
(* the functions of the catalog (CodeMode::search in                       *)
(* crates/s2-mcp-codemode/src/lib.rs), and restarts of the server under    *)
(* another policy between any two of them.                                 *)
(*                                                                         *)
(* How well a function matches a query is its rank, any number; a match    *)
(* and a cursor have a size.  The tokens behind the ranks are left out.    *)
(***************************************************************************)
EXTENDS PolicyGate, SequencesExt

CONSTANTS
    Searched,     \* the operations the queries of the instance match
    MaxRank,      \* bound on their ranks
    Sizes,        \* the sizes their matches may have; the others have 1
    MaxBytes,     \* MAX_SEARCH_OUTPUT_BYTES
    Limits,       \* the limits the client asks for, up to MAX_SEARCH_RESULTS
    MaxRestarts   \* bound on the restarts

ASSUME CatalogAssumption ==
    /\ Searched \subseteq Operations
    /\ {MaxRank, MaxRestarts} \subseteq Nat
    /\ MaxBytes \in Nat \ {0}
    /\ Sizes \cup Limits \subseteq Nat \ {0}

VARIABLES
    search,   \* the search the client is following
    restarts  \* how many restarts there were

catalogVars == <<vars, search, restarts>>

NoSearch == [state |-> "none"]
NoCursor == "none"

\* CodeMode::new sorts the functions by name: the operations' names in camel
\* case, which are in the order of the operations.
Functions ==
    << "append_records", "check_tail", "connection_info", "delete_basin",
       "delete_stream", "diff_resources", "ensure_basin", "ensure_stream",
       "fence_stream", "get_basin_config", "get_metrics", "get_stream_config",
       "list_basins", "list_streams", "read_records", "reconfigure_basin",
       "reconfigure_stream", "revoke_access_token", "trim_stream",
       "wait_for_records" >>

Position == [f \in Operations |-> CHOOSE i \in DOMAIN Functions : Functions[i] = f]

CatalogInit == Init /\ search = NoSearch /\ restarts = 0

-----------------------------------------------------------------------------
(* CodeMode::search. *)

\* SearchRank::default is 0: no match, unless the query is empty.
Rank(f) == IF f \in Searched THEN search.rank[f] ELSE 0

Matching(f) == search.empty \/ Rank(f) > 0

\* The order of the matches: the best first, then by name.
Before(f, g) ==
    \/ Rank(f) > Rank(g)
    \/ Rank(f) = Rank(g) /\ Position[f] < Position[g]

\* The matches in their order: each after as many as come before it.
Ranked ==
    LET matches == {f \in Advertised : Matching(f)}
        places  == {<<f, Cardinality({g \in matches : Before(g, f)}) + 1>> : f \in matches}
    IN  [i \in 1..Cardinality(matches) |-> (CHOOSE p \in places : p[2] = i)[1]]

\* Mutant: the page starts with the match the cursor names.
CursorStart_Inclusive(ranked) ==
    {i - 1 : i \in {i \in DOMAIN ranked : ranked[i] = search.cursor}}
        \cup (IF search.cursor = NoCursor THEN {0} ELSE {})

\* How many matches come before the page; none if the cursor is refused.
CursorStart(ranked) ==
    {i \in DOMAIN ranked : ranked[i] = search.cursor}
        \cup (IF search.cursor = NoCursor THEN {0} ELSE {})

\* What matches contribute to the output, if their sizes are these.
SizeOf(matches, size) ==
    FoldSeq(LAMBDA f, n : n + (IF f \in Searched THEN size[f] ELSE 1), 0, matches)

\* Mutant: the next cursor is added after the size was looked at.
ProspectiveSize_NoCursor(matches, more) == SizeOf(matches, search.size)

\* The size of the output with its next cursor, if there is more.
ProspectiveSize(matches, more) ==
    SizeOf(matches, search.size) + (IF more THEN 1 ELSE 0)

\* The loop adds matches while the output fits.
Fitting(ranked, start, limit) ==
    LET room == {n \in 0..limit : start + n <= Len(ranked)}
        fits(n) == ProspectiveSize(SubSeq(ranked, start + 1, start + n),
                                   start + n < Len(ranked)) <= MaxBytes
    IN  CHOOSE n \in room :
            /\ \A k \in 1..n : fits(k)
            /\ n + 1 \in room => ~fits(n + 1)

-----------------------------------------------------------------------------
(* The client. *)

StartSearch ==
    /\ search = NoSearch /\ request = NoCall
    /\ \E empty \in BOOLEAN :
       \E rank \in [Searched -> IF empty THEN {0} ELSE 0..MaxRank] :
       \E size \in [Searched -> Sizes] :
           search' = [state |-> "open", empty |-> empty, cursor |-> NoCursor,
                      rank |-> rank, size |-> size,
                      page |-> <<>>, found |-> <<>>, steady |-> Advertised,
                      moved |-> FALSE]
    /\ UNCHANGED <<vars, restarts>>

\* The next page, with the cursor of the last one.
NextPage ==
    /\ search.state = "open"
    /\ LET ranked == Ranked
       IN  \/ /\ CursorStart(ranked) = {}
              /\ search' = [search EXCEPT !.state = "refused", !.page = <<>>]
           \/ \E start \in CursorStart(ranked), limit \in Limits :
                LET n    == Fitting(ranked, start, limit)
                    page == SubSeq(ranked, start + 1, start + n)
                    more == start + n < Len(ranked)
                IN  search' = [search EXCEPT
                        !.page   = page,
                        !.found  = @ \o page,
                        !.state  = IF n = 0 /\ more THEN "too large"
                                   ELSE IF more THEN "open" ELSE "done",
                        !.cursor = IF n > 0 /\ more THEN Last(page) ELSE NoCursor]
    /\ UNCHANGED <<vars, restarts>>

EndSearch ==
    /\ search.state \in {"done", "refused", "too large"}
    /\ search' = NoSearch
    /\ UNCHANGED <<vars, restarts>>

\* A scope takes the basin out of the input schemas, and the account out of
\* get_metrics'; their properties count for the rank of a function.
Reranked ==
    IF (policy.basin = NoBasin) = (policy'.basin = NoBasin) THEN {search.rank}
    ELSE {rank \in [Searched -> 0..MaxRank] :
            \A f \in Searched :
                \/ rank[f] = search.rank[f]
                \/ /\ AcceptsBasinInjection(Scope(f)) \/ f = "get_metrics"
                   /\ ~search.empty}

\* The server is started again under another policy, and the client goes on.
Restart ==
    /\ request = NoCall
    /\ restarts < MaxRestarts
    /\ restarts' = restarts + 1
    /\ policy' \in [readonly : BOOLEAN, basin : Basins \cup {NoBasin},
                    allow_destructive : BOOLEAN]
    /\ IF search = NoSearch THEN UNCHANGED search
       ELSE \E rank \in Reranked :
                search' = [search EXCEPT !.rank = rank,
                                         !.steady = @ \cap Advertised',
                                         !.moved = @ \/ rank # search.rank]
    /\ UNCHANGED <<request, effects, answer>>

CatalogNext ==
    \/ search = NoSearch /\ Next /\ UNCHANGED <<search, restarts>>
    \/ StartSearch \/ NextPage \/ EndSearch \/ Restart

CatalogSpec == CatalogInit /\ [][CatalogNext]_catalogVars

-----------------------------------------------------------------------------
(* Properties. *)

\* A client that follows the cursors of a query sees its matches best first and
\* none of them twice, and at the end has seen all that were in the catalog
\* throughout, though the server was restarted under another policy between
\* two pages; only a restart that moves a match in the ranking is excepted.  A
\* cursor is refused only if the match it names is gone.
SearchIsComplete ==
    search # NoSearch /\ ~search.moved =>
        /\ \A i, j \in DOMAIN search.found :
               i < j => Before(search.found[i], search.found[j])
        /\ search.state = "done" =>
               {f \in search.steady : Matching(f)} \subseteq Range(search.found)
        /\ search.state = "refused" => search.cursor \notin search.steady

\* A page fits the output limit with its cursor, also when the last match was
\* taken out of it again.
PageFits ==
    search # NoSearch =>
        SizeOf(search.page, search.size)
            + (IF search.cursor # NoCursor THEN 1 ELSE 0) <= MaxBytes
=============================================================================
