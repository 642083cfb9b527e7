--------------------------- MODULE CataloguePages ---------------------------
(***************************************************************************)
(* The pages of the marketplaces (mcp/marketplace/catalog.py,              *)
(* skills/marketplace/catalog.py, cli_marketplace/catalog.py): what a page *)
(* shows of what the upstream holds, and where the next one begins.  A     *)
(* reader follows the offsets from the first page on, while the upstream   *)
(* stays as it is and the snapshot of a search is still kept, or is not.   *)
(***************************************************************************)
EXTENDS Integers, Sequences, FiniteSets, SequencesExt

CONSTANTS
    Default, Most,   \* sizes of a page
    Floor,           \* the least that a search fetches
    None

Normal(limit) == IF limit = None THEN Default ELSE Max({1, Min({limit, Most})})

Slice(items, from, count) == SubSeq(items, from + 1, Min({from + count, Len(items)}))

\* A page, and the offset of the next: None if there is none.
Page(items, offset, size, more) ==
    LET shown == Slice(items, offset, size) IN
    [items |-> shown,
     next |-> IF (Len(items) > offset + size \/ more) /\ shown # <<>> THEN offset + Len(shown) ELSE None]

Snapshot(items, limit, more) == [items |-> items, limit |-> limit, more |-> more]

\* How much a search has to fetch for a page.
FetchLimit(offset, size) == Max({offset + size + 1, Floor})

-----------------------------------------------------------------------------
(* The registry of MCP servers: pages of entries, linked by cursors.          *)

Filter(query, remote, verified) == [query |-> query, remote |-> remote, verified |-> verified]

\* Every server is taken for a verified one.
Accepted(filter, entry) ==
    /\ filter.remote \in {None, entry.remote}
    /\ filter.verified \in {None, TRUE}
    /\ filter.query => entry.matches

\* supported_registry_entry: the latest version, active, with a way to install it.
Candidates(filter, entries) == SelectSeq(entries, LAMBDA e : e.supported /\ Accepted(filter, e))

FirstPages(raw, filter, count) ==
    FoldLeft(LAMBDA all, entries : all \o Candidates(filter, entries), <<>>, SubSeq(raw, 1, count))

\* Pages are fetched until there are enough items; one is fetched always.
Collected(raw, filter, limit) ==
    LET enough == {k \in 1 .. Len(raw) : Len(FirstPages(raw, filter, k)) >= limit}
        read == IF enough = {} THEN Len(raw) ELSE Min(enough)
    IN [items |-> Slice(FirstPages(raw, filter, read), 0, limit), more |-> read < Len(raw)]

PopularPage(raw, offset, limit) ==
    LET size == Normal(limit)
        collected == Collected(raw, Filter(FALSE, None, None), offset + size + 1)
    IN Page(collected.items, offset, size, collected.more)

RegistrySnapshot(raw, filter, limit) ==
    LET collected == Collected(raw, filter, limit + 1) IN
    Snapshot(Slice(collected.items, 0, limit), limit, collected.more \/ Len(collected.items) > limit)

\* _latest_supported_detail: the first version that is the latest and active,
\* as its own document describes it.
Detail(versions, documents) ==
    LET latest == {i \in DOMAIN versions : versions[i].latestActive}
        version == versions[Min(latest)].version
    IN IF latest = {} THEN None
       ELSE IF version = None THEN None
       ELSE IF documents[version] = None THEN None
       ELSE IF documents[version].supported THEN documents[version] ELSE None

-----------------------------------------------------------------------------
(* skills.sh: a search is given a number of results in the order of the       *)
(* upstream, and sorts those of a valid repository by their installs.         *)

Before(a, b) == a.installs > b.installs \/ (a.installs = b.installs /\ a.name < b.name)

Sorted(results) == SortSeq(SelectSeq(results, LAMBDA r : r.valid), Before)

SkillSnapshot(results, limit) ==
    LET fetched == Sorted(Slice(results, 0, limit)) IN Snapshot(fetched, limit, Len(fetched) >= limit)

\* The tools of clis.dev: the first record with a slug is kept.
Distinct(records) ==
    FoldLeft(LAMBDA kept, r : IF \E i \in DOMAIN kept : kept[i].slug = r.slug THEN kept ELSE Append(kept, r), <<>>, records)

-----------------------------------------------------------------------------
(* A page of each kind, and the snapshot that is kept for the next.           *)

Fetched(kind, upstream, filter, limit) ==
    IF kind = "registrySearch" THEN RegistrySnapshot(upstream, filter, limit) ELSE SkillSnapshot(upstream, limit)

Usable(cached, limit) == cached # None /\ cached.limit >= limit

Searched(kind, upstream, filter, cached, offset, limit) ==
    LET size == Normal(limit)
        wanted == FetchLimit(offset, size)
        snapshot == IF Usable(cached, wanted) THEN cached ELSE Fetched(kind, upstream, filter, wanted)
    IN [page |-> Page(snapshot.items, offset, size, snapshot.more), kept |-> snapshot]

Turned(kind, upstream, filter, cached, offset, limit) ==
    CASE kind \in {"registrySearch", "skillSearch"} -> Searched(kind, upstream, filter, cached, offset, limit)
      [] kind = "popular" -> [page |-> PopularPage(upstream, offset, limit), kept |-> None]
      [] kind = "leaderboard" -> [page |-> Page(Sorted(upstream), offset, Normal(limit), FALSE), kept |-> None]
      [] kind = "clis" -> [page |-> Page(Distinct(upstream), offset, Normal(limit), FALSE), kept |-> None]

\* What a reader sees who follows the offsets for a number of pages.
Walked(kind, upstream, filter, limit, keeps, pages) ==
    FoldLeft(LAMBDA seen, i :
               IF seen.next = None THEN seen
               ELSE LET turned == Turned(kind, upstream, filter, IF keeps THEN seen.kept ELSE None, seen.next, limit)
                    IN [items |-> seen.items \o turned.page.items, next |-> turned.page.next, kept |-> turned.kept],
             [items |-> <<>>, next |-> 0, kept |-> None], [i \in 1 .. pages |-> i])

All(kind, upstream, filter) ==
    CASE kind = "registrySearch" -> FirstPages(upstream, filter, Len(upstream))
      [] kind = "popular" -> FirstPages(upstream, Filter(FALSE, None, None), Len(upstream))
      [] kind \in {"leaderboard", "skillSearch"} -> Sorted(upstream)
      [] kind = "clis" -> Distinct(upstream)

-----------------------------------------------------------------------------
(* Properties.                                                                *)

\* Nothing is shown twice and nothing is left out by the pages, which end.  A
\* search for skills shows all if one snapshot holds them, or if the upstream
\* gives valid results by their installs: a larger snapshot of others is sorted
\* anew, and one that is invalid is taken for the end.
PagesComplete(kind, upstream, filter, limit, keeps) ==
    LET seen == Walked(kind, upstream, filter, limit, keeps, 1 + Len(All(kind, upstream, filter))) IN
    (kind = "skillSearch" => Len(upstream) <= Floor \/ upstream = Sorted(upstream)) =>
      seen.next = None /\ seen.items = All(kind, upstream, filter)

\* The detail of a server, which is what is installed, is the version that the
\* lists show: the latest one, active and installable.
DetailIsShown(versions, documents) ==
    LET shown == {i \in DOMAIN versions : versions[i].latestActive}
        installable(i) == versions[i].version # None /\ documents[versions[i].version] \in [supported : {TRUE}]
    IN Cardinality(shown) = 1 => \A i \in shown :
         Detail(versions, documents) = IF installable(i) THEN documents[versions[i].version] ELSE None
=============================================================================
