---------------------------- MODULE TfEnrichers ----------------------------
(***************************************************************************)
(* The two stages that turn the /tf messages of a bag into transforms      *)
(* between named frames: TfBufferEnricher (rebake/src/enrich/              *)
(* tf_buffer_enricher.rs) builds one snapshot of all frames per time, and  *)
(* TfChainEnricher (tf_chain_enricher.rs, tf_chain.rs) composes, in every  *)
(* snapshot, the transforms along the path between the frames of a pair.   *)
(*                                                                         *)
(* A measurement stands for one transform of one message: the child, its   *)
(* parent and the time; a composition is the sequence of the measurements  *)
(* multiplied, so that two compositions are equal only when they multiply  *)
(* the same measurements in the same order.                                *)
(*                                                                         *)
(* The stage object outlives a run: Pipeline.run may be called again with  *)
(* the same stages, and the chain keeps the builder it made on the first   *)
(* row it ever saw.  The snapshots come in any order (they are grouped     *)
(* without keeping one).                                                   *)
(***************************************************************************)
EXTENDS Integers, Sequences, FiniteSets

CONSTANTS
    Frames,      \* the names of the coordinate frames
    Bags,        \* the bags: sets of measurements, /tf and /tf_static together
    Configs,     \* the sets of frame pairs the chain may be configured with
    MaxRuns      \* bound: how often the pipeline is run with one stage object

None == "none"

ASSUME FramesAssumption == IsFiniteSet(Frames) /\ None \notin Frames
ASSUME BagsAssumption ==
    \A b \in Bags : IsFiniteSet(b) /\ b \subseteq [ts : Int, child : Frames, parent : Frames]
ASSUME ConfigsAssumption == \A c \in Configs : c \subseteq Frames \X Frames
ASSUME RunsAssumption == MaxRuns \in Nat

VARIABLES
    pairs,       \* the configured frame pairs, the same in every run
    runs,        \* how many runs have begun
    table,       \* the exploded measurements of the run's bag
    buffer,      \* the snapshots /tf_buffer has and the chain has not read
    chain,       \* the rows of /tf_chain computed so far
    builder,     \* what the builder keeps between rows, or NoBuilder
    status       \* "idle", "buffered", "ok" or "failed"

NoBuilder == [names |-> {}, required |-> {}, links |-> {}]

vars == <<pairs, runs, table, buffer, chain, builder, status>>

Init ==
    /\ pairs \in Configs
    /\ runs = 0
    /\ table = {} /\ buffer = {} /\ chain = {}
    /\ builder = NoBuilder
    /\ status = "idle"

(***************************************************************************)
(* The buffer.                                                             *)
(***************************************************************************)

Times(b) == {m.ts : m \in b}
Children(b) == {m.child : m \in b}

(* The measurements of a child that the backward as-of join can return at t: *)
(* those at the latest time not after t.  Two of them at one time are       *)
(* ordered by an unstable sort.                                            *)
Joined(b, t, c) ==
    LET known == {m \in b : m.child = c /\ m.ts <= t}
    IN  {m \in known : \A n \in known : n.ts <= m.ts}

(* The grid has a row for every time and child; the rows the join leaves    *)
(* without a transform are dropped, and each of the others is fresh when    *)
(* its measurement is of that very time.                                   *)
Entry(m, t) == [child |-> m.child, parent |-> m.parent, m |-> m, fresh |-> m.ts = t]

Snapshots(b, t) ==
    LET filled == {c \in Children(b) : Joined(b, t, c) # {}}
    IN  {[ts |-> t, entries |-> {Entry(pick[c], t) : c \in filled}] :
            pick \in {f \in [filled -> b] : \A c \in filled : f[c] \in Joined(b, t, c)}}

(* A snapshot is kept when it has as many children as the bag. *)
Kept(b, snapshot) ==
    Cardinality({e.child : e \in snapshot.entries}) = Cardinality(Children(b))

Buffers(b) ==
    {{s \in {pick[t] : t \in Times(b)} : Kept(b, s)} :
        pick \in {f \in [Times(b) -> UNION {Snapshots(b, t) : t \in Times(b)}] :
                    \A t \in Times(b) : f[t] \in Snapshots(b, t)}}

(* A run of the pipeline with the stages of the run before. *)
Buffer ==
    /\ status \in {"idle", "ok", "failed"}
    /\ runs < MaxRuns
    /\ \E b \in Bags : table' = b /\ buffer' \in Buffers(b)
    /\ runs' = runs + 1
    /\ chain' = {}
    /\ status' = "buffered"
    /\ UNCHANGED <<pairs, builder>>

(***************************************************************************)
(* The chain.                                                              *)
(***************************************************************************)

Edge(e) == <<e.parent, e.child>>
Named(row) == {e.parent : e \in row.entries} \cup {e.child : e \in row.entries}

(* Every edge on a way up from a frame, whatever branches it takes. *)
Upstream(row, start) ==
    LET above[n \in Nat] ==
            IF n = 0 THEN {start}
            ELSE above[n - 1] \cup
                    {e.parent : e \in {d \in row.entries : d.child \in above[n - 1]}}
    IN  {Edge(e) : e \in {d \in row.entries : d.child \in above[Cardinality(Frames)]}}

RequiredEdges(row) ==
    UNION {Upstream(row, pair[1]) \cup Upstream(row, pair[2]) : pair \in pairs}

PairsPresent(row) == \A pair \in pairs : {pair[1], pair[2]} \subseteq Named(row)

(* Faulty: the chain is not reset, so that an edge the row lacks stays. *)
PopulateUnreset(b, row) ==
    LET here == {e \in row.entries : Edge(e) \in b.required}
    IN  here \cup {e \in b.links : \A d \in here : Edge(d) # Edge(e)}

(* What a row leaves in the chain: the entries on required edges only, and  *)
(* nothing of the row before it.                                          *)
Populate(b, row) == {e \in row.entries : Edge(e) \in b.required}

KnowsFrames(b, row) == Named(row) \subseteq b.names

OneParent(links) == \A d, e \in links : d.child = e.child => d.parent = e.parent

(* The entry that links a frame to its parent; a root has none. *)
IsRoot(links, f) == \A e \in links : e.child # f
LinkOf(links, f) == CHOOSE e \in links : e.child = f

(* The frames from start up to the root, and past it None. *)
Ancestor(links, start) ==
    LET up[n \in 0..Cardinality(Frames)] ==
            IF n = 0 THEN start
            ELSE IF up[n - 1] = None \/ IsRoot(links, up[n - 1]) THEN None
            ELSE LinkOf(links, up[n - 1]).parent
    IN  up

HasCycle(links, start) == Ancestor(links, start)[Cardinality(Frames)] # None

(* The lowest common ancestor: the first ancestor of the target that is an  *)
(* ancestor of the source, as the two distances to it.                     *)
Common(links, source, target) ==
    LET s == Ancestor(links, source)
        t == Ancestor(links, target)
    IN  {ij \in (DOMAIN s) \X (DOMAIN t) :
            /\ t[ij[2]] # None /\ s[ij[1]] = t[ij[2]]
            /\ \A k \in 0..(ij[2] - 1), l \in DOMAIN s : s[l] # t[k]}

(* The measurements multiplied from the ancestor down to the start. *)
Downward(links, start, distance) ==
    [k \in 1..distance |-> LinkOf(links, Ancestor(links, start)[distance - k])]

Measured(path) == [k \in DOMAIN path |-> path[k].m]
AnyFresh(path) == \E k \in DOMAIN path : path[k].fresh

(* Two cycles, or no common ancestor, and there is no result. *)
Resolvable(links, pair) ==
    \/ pair[1] = pair[2]
    \/ /\ ~ HasCycle(links, pair[1]) /\ ~ HasCycle(links, pair[2])
       /\ Common(links, pair[1], pair[2]) # {}

ForwardKinematics(links, pair) ==
    IF pair[1] = pair[2]
    THEN [up |-> <<>>, down |-> <<>>, fresh |-> FALSE]
    ELSE LET lca == CHOOSE ij \in Common(links, pair[1], pair[2]) : TRUE
             src == Downward(links, pair[1], lca[1])
             tgt == Downward(links, pair[2], lca[2])
         IN  [up |-> Measured(src), down |-> Measured(tgt),
              fresh |-> AnyFresh(src) \/ AnyFresh(tgt)]

(* The builder of the stage: made on the first row the stage ever sees. *)
Builder(row) ==
    IF builder = NoBuilder
    THEN [names |-> Named(row), required |-> RequiredEdges(row), links |-> {}]
    ELSE builder

RowWorks(row) ==
    LET b == Builder(row)
        links == Populate(b, row)
    IN  /\ builder = NoBuilder => PairsPresent(row)
        /\ KnowsFrames(b, row)
        /\ OneParent(links)
        /\ \A pair \in pairs : Resolvable(links, pair)

ChainRow(row) ==
    LET b == Builder(row)
        links == Populate(b, row)
    IN  /\ RowWorks(row)
        /\ builder' = [b EXCEPT !.links = links]
        /\ chain' = chain \cup
             {[ts |-> row.ts, results |-> [pair \in pairs |-> ForwardKinematics(links, pair)]]}
        /\ buffer' = buffer \ {row}
        /\ UNCHANGED <<pairs, runs, table, status>>

(* The run fails.  A builder that failed on its first row is not kept; one  *)
(* of an earlier row stays, with what it had read of this one.             *)
ChainError(row) ==
    /\ ~ RowWorks(row)
    /\ status' = "failed"
    /\ buffer' = {} /\ chain' = {}
    /\ IF builder = NoBuilder THEN builder' = NoBuilder
       ELSE \E read \in SUBSET Populate(builder, row) :
                /\ KnowsFrames(builder, row) => read = Populate(builder, row)
                /\ builder' = [builder EXCEPT !.links = read]
    /\ UNCHANGED <<pairs, runs, table>>

Row ==
    /\ status = "buffered"
    /\ \E row \in buffer : ChainRow(row) \/ ChainError(row)

ChainEnd ==
    /\ status = "buffered" /\ buffer = {}
    /\ status' = "ok"
    /\ UNCHANGED <<pairs, runs, table, buffer, chain, builder>>

Next == Buffer \/ Row \/ ChainEnd

Spec == Init /\ [][Next]_vars

-----------------------------------------------------------------------------

(* What a row should say, from the measurements alone: with each child      *)
(* linked by one of its latest measurements, the products come down from   *)
(* one frame to the two of the pair, over links they do not share.         *)
ComesDown(path, top, f) ==
    /\ IF path = <<>> THEN f = top ELSE path[1].parent = top /\ path[Len(path)].child = f
    /\ \A k \in 1..(Len(path) - 1) : path[k].child = path[k + 1].parent

Elements(s) == {s[k] : k \in DOMAIN s}

Shows(row, links) ==
    \A pair \in pairs :
        LET r == row.results[pair]
            used == Elements(r.up) \cup Elements(r.down)
        IN  /\ used \subseteq links
            /\ Elements(r.up) \cap Elements(r.down) = {}
            /\ \E top \in Frames :
                    ComesDown(r.up, top, pair[1]) /\ ComesDown(r.down, top, pair[2])
            /\ r.fresh = (\E m \in used : m.ts = row.ts)

LatestLinks(t) ==
    {{pick[c] : c \in Children(table)} :
        pick \in {f \in [Children(table) -> table] :
                    \A c \in Children(table) : f[c] \in Joined(table, t, c)}}

(* Every transform of /tf_chain multiplies, for its own time, the latest     *)
(* measurements on the way between its two frames in this bag's tree, and is *)
(* fresh exactly when one of them was taken at that time; a run that ends    *)
(* well has a row for every time from which on all frames are known.  A tree *)
(* that changes within a bag or between two bags of one stage object makes   *)
(* the run fail and never leaves an old link in a product.                   *)
ChainIsCurrent ==
    /\ \A row \in chain : \E links \in LatestLinks(row.ts) : Shows(row, links)
    /\ status = "ok" =>
         {row.ts : row \in chain} =
            {t \in Times(table) : \A c \in Children(table) : \E m \in table : m.child = c /\ m.ts <= t}
=============================================================================
