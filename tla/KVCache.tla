------------------------------ MODULE KVCache ------------------------------
(***************************************************************************)
(* The KV cache of a context (src/llama-kv-cache.cpp, llama-kv-cells.h)    *)
(* and the way llama_context::decode uses it: operations on sequences,     *)
(* and batches that are split, given cells, and computed one micro-batch   *)
(* after the other.                                                        *)
(*                                                                         *)
(* A cell holds a token of one or several sequences at a position; what it *)
(* holds and the K vector in the buffer (kbuf) are apart: positions change *)
(* at once, the buffer follows in the next decode.  The vector of a token  *)
(* is its value and the position it is rotated for.  The counts of         *)
(* positions per sequence (seq_pos) and the set of used cells are not      *)
(* kept: they are what the cells say.                                      *)
(***************************************************************************)
EXTENDS Integers, Sequences, FiniteSets, FiniteSetsExt, SequencesExt

CONSTANTS
    Seqs,           \* sequences, numbered from 0
    Ubatch,         \* n_ubatch
    Contexts,       \* the contexts to look at, and what is done to them
    Ranges,         \* ranges [p0, p1) that operations are given
    Divided,        \* ranges that are divided
    Deltas, Divisors,
    MaxCopies       \* bound on copies between two decodes

(* A context: whether it has one stream for all sequences (kv_unified) or  *)
(* one for each, the cells of a stream, n_swa (0: no sliding window) and   *)
(* whether the window is one of chunks (llama4), a bound on positions, the *)
(* numbers of tokens of a sequence in a batch, and the calls it gets       *)
(* (share: batches whose tokens several sequences share; fail:             *)
(* micro-batches may fail; noshift: so may the graph of a shift).          *)
Calls == {"rm", "cp", "keep", "add", "div", "clear", "share", "fail", "noshift"}
Context == [unified : BOOLEAN, size : Nat \ {0}, window : Nat, chunked : BOOLEAN, last : Nat,
            lengths : SUBSET (Nat \ {0}), calls : SUBSET Calls]

ASSUME KVAssumption ==
    /\ IsFiniteSet(Seqs) /\ 0 \in Seqs /\ Seqs = 0 .. Cardinality(Seqs) - 1
    /\ Ubatch \in Nat \ {0} /\ MaxCopies \in Nat
    /\ Contexts \subseteq Context
    /\ Ranges \union Divided \subseteq Nat \X Nat /\ Deltas \subseteq Int /\ Divisors \subseteq Nat \ {0, 1}

VARIABLES
    ctx,                \* the context's parameters
    cells, heads,       \* v_cells, v_heads, per stream
    hasShift,
    copies,             \* sc_info: streams whose buffers are still to be copied
    kbuf,               \* the K vectors
    todo,               \* the micro-batches of a decode that are still to be computed, with their cells
    text                \* positions of each sequence, as its user knows them (history)

Cells == 0 .. ctx.size - 1
Pos == 0 .. ctx.last
vars == <<ctx, cells, heads, hasShift, copies, kbuf, todo, text>>

NoCell == [pos |-> -1, shift |-> 0, seqs |-> {}, value |-> -1]
NoData == [rot |-> -1, value |-> -1]

Init ==
    /\ ctx \in Contexts
    /\ cells = [st \in Seqs |-> [i \in Cells |-> NoCell]]
    /\ heads = [st \in Seqs |-> 0]
    /\ hasShift = [st \in Seqs |-> FALSE]
    /\ copies = <<>>
    /\ kbuf = [st \in Seqs |-> [i \in Cells |-> NoData]]
    /\ todo = <<>>
    /\ text = [s \in Seqs |-> {}]

StreamOf(s) == IF ctx.unified THEN 0 ELSE s
Streams == {StreamOf(s) : s \in Seqs}

-----------------------------------------------------------------------------
(* The numbers of a finite set in their order. *)
InOrder(S) == [k \in 1 .. Cardinality(S) |-> CHOOSE x \in S : Cardinality({y \in S : y < x}) = k - 1]

(* What the cells of a stream say. *)

In(c, r) == r[1] <= c.pos /\ c.pos < r[2]
Used(cs) == {i \in Cells : cs[i] # NoCell}
Positions(cs, s) == {cs[i].pos : i \in {j \in Cells : s \in cs[j].seqs}}
PosMax(cs, s) == LET P == Positions(cs, s) IN IF P = {} THEN -1 ELSE Max(P)
PosMin(cs, s) == LET P == Positions(cs, s) IN IF P = {} THEN -1 ELSE Min(P)

(* The positions are those that are in the cells now. *)
TextOf(all) == [s \in Seqs |-> Positions(all[StreamOf(s)], s)]

(* Searches start at a cell that was freed, if that is before the head. *)
Freed(old, new) == Used(old) \ Used(new)
FreedHead(old, new, head) ==
    IF Freed(old, new) = {} THEN head ELSE Min({head, Min(Freed(old, new))})

-----------------------------------------------------------------------------
(* Operations on sequences, between two decodes. *)

(* A cell is given up by some sequences, and is empty when it has no more. *)
Without(c, gone) ==
    IF c.seqs \subseteq gone THEN NoCell ELSE [c EXCEPT !.seqs = @ \ gone]

Removed(cs, s, r) ==
    [i \in Cells |-> IF In(cs[i], r) THEN Without(cs[i], {s}) ELSE cs[i]]

(* The cells of stream st become cs. *)
Become(st, cs, head) ==
    /\ cells' = [cells EXCEPT ![st] = cs]
    /\ heads' = [heads EXCEPT ![st] = head]
    /\ text' = TextOf(cells')

SeqRm(s, r) ==
    LET st == StreamOf(s)
        cs == Removed(cells[st], s, r)
    IN  /\ todo = <<>>
        /\ Become(st, cs, FreedHead(cells[st], cs, heads[st]))
        /\ UNCHANGED <<ctx, hasShift, copies, kbuf, todo>>

(* seq_rm(-1): in all streams, whatever sequence. *)
RmAll(r) ==
    LET cs(st) == [i \in Cells |-> IF In(cells[st][i], r) THEN NoCell ELSE cells[st][i]]
    IN  /\ todo = <<>>
        /\ cells' = [st \in Seqs |-> cs(st)]
        /\ heads' = [st \in Seqs |-> FreedHead(cells[st], cs(st), heads[st])]
        /\ text' = TextOf(cells')
        /\ UNCHANGED <<ctx, hasShift, copies, kbuf, todo>>

(* The cells of s in r. *)
Hit(s, r) == {i \in Cells : s \in cells[StreamOf(s)][i].seqs /\ In(cells[StreamOf(s)][i], r)}

(* In one stream a copy shares the cells; none of them may belong to the   *)
(* destination already (seq_add asserts it) ...                            *)
SeqCp(s, d, r) ==
    LET st == StreamOf(s)
    IN  /\ todo = <<>>
        /\ s # d /\ StreamOf(d) = st
        /\ \A i \in Hit(s, r) : d \notin cells[st][i].seqs
        /\ Become(st, [i \in Cells |->
                IF i \in Hit(s, r) THEN [cells[st][i] EXCEPT !.seqs = @ \union {d}] ELSE cells[st][i]],
                heads[st])
        /\ UNCHANGED <<ctx, hasShift, copies, kbuf, todo>>

\* Mutant of CopyStream: shifts that are still to be applied are forgotten.
CopyStream_NoShift(s, d) ==
    LET st == StreamOf(s)
        cs == [i \in Cells |-> IF s \in cells[st][i].seqs
                               THEN [cells[st][i] EXCEPT !.seqs = {d}, !.shift = 0] ELSE NoCell]
    IN  /\ todo = <<>>
        /\ StreamOf(d) # st /\ Len(copies) < MaxCopies
        /\ Become(StreamOf(d), cs, heads[st])
        /\ hasShift' = [hasShift EXCEPT ![StreamOf(d)] = FALSE]
        /\ copies' = Append(copies, <<st, StreamOf(d)>>)
        /\ UNCHANGED <<ctx, kbuf, todo>>

\* Mutant of CopyStream: the stream does not learn of the shifts.
CopyStream_NotMarked(s, d) ==
    LET st == StreamOf(s)
        cs == [i \in Cells |-> IF s \in cells[st][i].seqs
                               THEN [cells[st][i] EXCEPT !.seqs = {d}] ELSE NoCell]
    IN  /\ todo = <<>>
        /\ StreamOf(d) # st /\ Len(copies) < MaxCopies
        /\ Become(StreamOf(d), cs, heads[st])
        /\ copies' = Append(copies, <<st, StreamOf(d)>>)
        /\ UNCHANGED <<ctx, hasShift, kbuf, todo>>

(* ... into another one it takes over all of them, at the same places, and *)
(* the buffer follows later.                                               *)
CopyStream(s, d) ==
    LET st == StreamOf(s)
        cs == [i \in Cells |-> IF s \in cells[st][i].seqs
                               THEN [cells[st][i] EXCEPT !.seqs = {d}] ELSE NoCell]
    IN  /\ todo = <<>>
        /\ StreamOf(d) # st /\ Len(copies) < MaxCopies
        /\ Become(StreamOf(d), cs, heads[st])
        /\ hasShift' = [hasShift EXCEPT ![StreamOf(d)] = \E i \in Cells : cs[i].shift # 0]
        /\ copies' = Append(copies, <<st, StreamOf(d)>>)
        /\ UNCHANGED <<ctx, kbuf, todo>>

SeqKeep(s) ==
    LET st == StreamOf(s)
        cs == [i \in Cells |-> IF s \in cells[st][i].seqs THEN [cells[st][i] EXCEPT !.seqs = {s}] ELSE NoCell]
    IN  /\ todo = <<>>
        /\ Become(st, cs, FreedHead(cells[st], cs, heads[st]))
        /\ UNCHANGED <<ctx, hasShift, copies, kbuf, todo>>

\* Mutant of Moved: a cell may get a negative position.
Moved_Below(c, p, d) == [c EXCEPT !.pos = p, !.shift = @ + d]

(* A cell moves to position p, and d is added to its shift; one that would *)
(* get a negative position is given up.                                    *)
Moved(c, p, d) ==
    IF p < 0 THEN NoCell ELSE [c EXCEPT !.pos = p, !.shift = @ + d]

MovedCells(s, r, to, by) ==
    LET cs == cells[StreamOf(s)]
    IN  [i \in Cells |-> IF i \in Hit(s, r) THEN Moved(cs[i], to[cs[i].pos], by[cs[i].pos]) ELSE cs[i]]

(* The cells of s in r move: from a position p to to[p], with by[p] added  *)
(* to the shift.                                                           *)
Move(s, r, to, by, head) ==
    /\ todo = <<>>
    /\ \A i \in Hit(s, r) : to[cells[StreamOf(s)][i].pos] <= ctx.last
    /\ Become(StreamOf(s), MovedCells(s, r, to, by), head)
    /\ hasShift' = [hasShift EXCEPT ![StreamOf(s)] = @ \/ Hit(s, r) # {}]
    /\ UNCHANGED <<ctx, copies, kbuf, todo>>

SeqAdd(s, r, d) ==
    LET to == [p \in Pos |-> p + d]
        by == [p \in Pos |-> d]
        freed == Freed(cells[StreamOf(s)], MovedCells(s, r, to, by))
    IN  Move(s, r, to, by, IF freed = {} THEN 0 ELSE Min(freed))

(* pos_div adds the old position less the new one. *)
SeqDiv(s, r, d) ==
    Move(s, r, [p \in Pos |-> p \div d], [p \in Pos |-> p - p \div d], heads[StreamOf(s)])

Clear ==
    /\ "clear" \in ctx.calls /\ todo = <<>>
    /\ cells' = [st \in Seqs |-> [i \in Cells |-> NoCell]]
    /\ heads' = [st \in Seqs |-> 0]
    /\ hasShift' = [st \in Seqs |-> FALSE]
    /\ text' = TextOf(cells')
    /\ kbuf' \in {kbuf, [st \in Seqs |-> [i \in Cells |-> NoData]]}
    /\ UNCHANGED <<ctx, copies, todo>>

-----------------------------------------------------------------------------
(* A batch: tokens of some sequences, or tokens that all of them share.    *)
(* A token is [seqs, pos, value]; its value is told by the sequence it was *)
(* first decoded for.                                                      *)

First(seqs) == Min(seqs)
New(seqs, n) ==
    LET p == PosMax(cells[StreamOf(First(seqs))], First(seqs))
    IN  [k \in 1 .. n |-> [seqs |-> seqs, pos |-> p + k, value |-> First(seqs)]]

\* Mutant of Chunks: one token more in the first micro-batch.
Chunks_More(tokens) ==
    <<<<SubSeq(tokens, 1, Min({Ubatch + 1, Len(tokens)}))>>>> \o
    (IF Len(tokens) > Ubatch + 1 THEN <<<<SubSeq(tokens, Ubatch + 2, Len(tokens))>>>> ELSE <<>>)

(* split_simple: as many tokens as fit, in their order. *)
Chunks(tokens) ==
    [k \in 1 .. (Len(tokens) + Ubatch - 1) \div Ubatch |->
        <<SubSeq(tokens, (k - 1) * Ubatch + 1, Min({k * Ubatch, Len(tokens)}))>>]

(* A batch gives each sequence's tokens in their order, but sequences in   *)
(* any turn: turns[k] is the sequence of its k-th token.                   *)
Turns(len) ==
    LET all == UNION {{s} \X (1 .. len[s]) : s \in DOMAIN len}
    IN  {turns \in [1 .. Cardinality(all) -> DOMAIN len] :
            \A s \in DOMAIN len : Cardinality({k \in DOMAIN turns : turns[k] = s}) = len[s]}

Nth(turns, k) == Cardinality({j \in 1 .. k : turns[j] = turns[k]})
InTurns(tokens, turns) == [k \in DOMAIN turns |-> tokens[turns[k]][Nth(turns, k)]]

(* The places of the tokens that are not taken yet. *)
Left(turns, taken) == {k \in DOMAIN turns : Nth(turns, k) > taken[turns[k]]}

(* split_equal takes tokens of the sequences in the order in which the     *)
(* batch has their first ones; with several streams, of one and those with *)
(* the numbers that follow it, each one's token after the other's; and not *)
(* of more than n_ubatch + 1, ...                                          *)
Together(turns, left) ==
    LET start == turns[Min(left)]
        follows(s) == \E at \in [start .. s -> left] : \A r \in start .. s :
                        turns[at[r]] = r /\ (r > start => at[r - 1] < at[r])
        firsts == InOrder({k \in left : \A j \in left : turns[j] = turns[k] => k <= j})
        order == IF ctx.unified THEN [j \in DOMAIN firsts |-> turns[firsts[j]]]
                 ELSE InOrder({s \in Seqs : s >= start /\ follows(s)})
    IN  SubSeq(order, 1, Min({Ubatch + 1, Len(order)}))

(* ... and as many tokens of each as all have and fit, but at least one:   *)
(* step after step, from what is taken.                                    *)
Share(tokens, sel, taken) ==
    Min({Max({1, Ubatch \div Cardinality(sel)})} \union {Len(tokens[s]) - taken[s] : s \in sel})

TakeEqual(tokens, turns, t) ==
    LET order == Together(turns, Left(turns, t.taken))
        n == Share(tokens, Range(order), t.taken)
    IN  [taken |-> [s \in DOMAIN tokens |-> t.taken[s] + (IF s \in Range(order) THEN n ELSE 0)],
         ubs |-> Append(t.ubs, [j \in DOMAIN order |->
                    SubSeq(tokens[order[j]], t.taken[order[j]] + 1, t.taken[order[j]] + n)])]

EqualSteps(tokens, turns, n) ==
    LET split[k \in 0 .. n] ==
            IF k = 0 THEN [taken |-> [s \in DOMAIN tokens |-> 0], ubs |-> <<>>]
            ELSE IF Left(turns, split[k - 1].taken) = {} THEN split[k - 1]
            ELSE TakeEqual(tokens, turns, split[k - 1])
    IN  split

EqualSplit(tokens, turns) ==
    LET n == Cardinality(DOMAIN tokens) * Max({Len(tokens[s]) : s \in DOMAIN tokens})
    IN  EqualSteps(tokens, turns, n)[n].ubs

(* The ways to split a batch, in the order they are tried.  A cache with a *)
(* window belongs to a pair of caches (llama_kv_cache_iswa), the other one *)
(* is taken to be large enough.                                            *)
Splits(tokens, turns) ==
    LET simple == Chunks(InTurns(tokens, turns))
        equal == EqualSplit(tokens, turns)
        one == [k \in DOMAIN equal |-> <<FlattenSeq(equal[k])>>]
    IN  IF ~ctx.unified THEN <<equal>> ELSE IF ctx.window = 0 THEN <<simple>> ELSE <<simple, one>>

-----------------------------------------------------------------------------
(* Cells for a micro-batch: a sequence of groups of tokens, one for a      *)
(* stream.  slots are the sequences of cells, one for a group.             *)

StreamOfGroup(g) == StreamOf(First(g[1].seqs))

(* Is position p out of the window of position q, or in a chunk before     *)
(* its own?  Models whose window is symmetric have no KV cache.            *)
Masked(p, q) ==
    /\ ctx.window > 0
    /\ IF ctx.chunked THEN p < (q \div ctx.window) * ctx.window ELSE q - p >= ctx.window

(* A cell is free, or its only sequence will not look at it again. *)
CanUse(cs, i) ==
    \/ cs[i] = NoCell
    \/ \E s \in Seqs : cs[i].seqs = {s} /\ Masked(cs[i].pos, PosMax(cs, s) + 1)

(* find_slot: the first cells that can be used, from the head on; <<>> if  *)
(* there are not enough.                                                   *)
FindSlot(cs, head, n) ==
    LET start == IF head > Cardinality(Used(cs)) + 2 * n THEN 0 ELSE head
        cell(k) == (start + k) % ctx.size
        usable == InOrder({k \in Cells : CanUse(cs, cell(k))})
    IN  IF Len(usable) < n THEN <<>> ELSE [j \in 1 .. n |-> cell(usable[j])]

(* No position stays of a sequence that is less than one overwritten: all  *)
(* between its first and its last are to be there.                         *)
Purge(placed, over) ==
    [i \in Cells |-> Without(placed[i], {s \in Seqs : \E p \in over[s] : placed[i].pos <= p})]

(* apply_ubatch, for a group. *)
Place(cs, g, idxs) ==
    LET at(i) == CHOOSE k \in DOMAIN idxs : idxs[k] = i
        placed == [i \in Cells |-> IF \E k \in DOMAIN idxs : idxs[k] = i
                     THEN [pos |-> g[at(i)].pos, shift |-> 0, seqs |-> g[at(i)].seqs, value |-> g[at(i)].value]
                     ELSE cs[i]]
        over == [s \in Seqs |-> {cs[idxs[k]].pos : k \in {j \in DOMAIN idxs : cs[idxs[j]].seqs = {s}}}]
    IN  Purge(placed, over)

Groups(ub, st) == {j \in DOMAIN ub : StreamOfGroup(ub[j]) = st}
PlaceAll(all, ub, slots) ==
    [st \in Seqs |-> IF Groups(ub, st) = {} THEN all[st]
                     ELSE LET j == CHOOSE k \in Groups(ub, st) : TRUE IN Place(all[st], ub[j], slots[j])]
HeadsAfter(hs, ub, slots) ==
    [st \in Seqs |-> IF Groups(ub, st) = {} THEN hs[st]
                     ELSE LET j == CHOOSE k \in Groups(ub, st) : TRUE IN slots[j][Len(slots[j])] + 1]

\* Mutant of Emplaced: the next micro-batch is not shown what this one takes.
Emplaced_Unseen(t, ub, slots) ==
    [t EXCEPT !.slots = Append(@, slots), !.olds = Append(@, [all |-> t.all, hs |-> t.hs])]

Emplaced(t, ub, slots) ==
    [ok |-> TRUE, all |-> PlaceAll(t.all, ub, slots), hs |-> HeadsAfter(t.hs, ub, slots),
     slots |-> Append(t.slots, slots), olds |-> Append(t.olds, [all |-> t.all, hs |-> t.hs])]

(* prepare: all micro-batches are placed, one after the other, to see      *)
(* whether all fit, and the cells and heads before each are remembered.    *)
Try(t, ub) ==
    LET slots == [j \in DOMAIN ub |->
            FindSlot(t.all[StreamOfGroup(ub[j])], t.hs[StreamOfGroup(ub[j])], Len(ub[j]))]
    IN  IF ~t.ok \/ \E j \in DOMAIN slots : slots[j] = <<>> THEN [t EXCEPT !.ok = FALSE]
        ELSE Emplaced(t, ub, slots)

Tries(all, hs, ubs) ==
    LET tried[k \in 0 .. Len(ubs)] ==
            IF k = 0 THEN [ok |-> TRUE, all |-> all, hs |-> hs, slots |-> <<>>, olds |-> <<>>]
            ELSE Try(tried[k - 1], ubs[k])
    IN  tried

\* Mutant of PutBack: the cells are freed, whatever they held.
PutBack_Frees(cs, old, idxs) == [i \in Cells |-> IF \E k \in DOMAIN idxs : idxs[k] = i THEN NoCell ELSE cs[i]]

PutBack(cs, old, idxs) == [i \in Cells |-> IF \E k \in DOMAIN idxs : idxs[k] = i THEN old[i] ELSE cs[i]]

(* Then everything is put back, the last one first: only the cells of the  *)
(* slots are, and a head is put back to that of the stream with the number *)
(* of the group.                                                           *)
Undo(b, ub, slots, old) ==
    LET group(st) == CHOOSE j \in Groups(ub, st) : TRUE
    IN  [all |-> [st \in Seqs |-> IF Groups(ub, st) = {} THEN b.all[st]
                                  ELSE PutBack(b.all[st], old.all[st], slots[group(st)])],
         hs |-> [st \in Seqs |-> IF Groups(ub, st) = {} THEN b.hs[st] ELSE old.hs[group(st) - 1]]]

Undone(placed, ubs) ==
    LET n == Len(placed.slots)
        back[k \in 0 .. n] ==       \* after k micro-batches are put back
            IF k = 0 THEN [all |-> placed.all, hs |-> placed.hs]
            ELSE Undo(back[k - 1], ubs[n + 1 - k], placed.slots[n + 1 - k], placed.olds[n + 1 - k])
    IN  back[n]

Prepared(all, hs, ubs) ==
    LET placed == Tries(all, hs, ubs)[Len(ubs)]
        undone == Undone(placed, ubs)
    IN  [all |-> undone.all, hs |-> undone.hs,
         todo |-> IF placed.ok THEN [k \in DOMAIN ubs |-> [ub |-> ubs[k], slots |-> placed.slots[k]]] ELSE <<>>]

-----------------------------------------------------------------------------
(* Decoding. *)

(* The buffers after the copies, in their order, ... *)
CopySteps(buf, cp) ==
    LET after[k \in 0 .. Len(cp)] ==
            IF k = 0 THEN buf ELSE [after[k - 1] EXCEPT ![cp[k][2]] = after[k - 1][cp[k][1]]]
    IN  after

Copied == CopySteps(kbuf, copies)[Len(copies)]

(* ... and, if shifts are applied, the K vectors of the used cells rotated *)
(* by theirs.  What the buffer then holds for empty cells is never read.   *)
Shifted(shifts) ==
    [st \in Seqs |-> [i \in Cells |->
        LET c == cells[st][i]
        IN  IF c = NoCell THEN NoData
            ELSE IF shifts THEN [Copied[st][i] EXCEPT !.rot = @ + c.shift]
            ELSE Copied[st][i]]]

Updated(shifts) ==
    IF shifts THEN [st \in Seqs |-> [i \in Cells |-> [cells[st][i] EXCEPT !.shift = 0]]] ELSE cells

(* Shifts that wait are applied, unless the graph for it gets no memory:   *)
(* then they wait on, and the decode goes on.                              *)
Marked == \E st \in Streams : hasShift[st]
Shifting == {Marked} \union (IF "noshift" \in ctx.calls THEN {FALSE} ELSE {})

(* llama_context::decode up to the first micro-batch: what waits is done,  *)
(* then the splits are tried.  If none fits nothing is computed.           *)
DecodeSplits(splits) ==
    /\ copies' = <<>>
    /\ \E shifts \in Shifting :
        /\ kbuf' = Shifted(shifts)
        /\ hasShift' = IF shifts THEN [st \in Seqs |-> FALSE] ELSE hasShift
        /\ \E first \in {Prepared(Updated(shifts), heads, splits[1])} :
           \E done \in {IF first.todo = <<>> /\ Len(splits) = 2
                        THEN Prepared(first.all, first.hs, splits[2]) ELSE first} :
                /\ cells' = done.all
                /\ heads' = done.hs
                /\ todo' = done.todo
    /\ UNCHANGED <<ctx, text>>

InBounds(tokens) == \A k \in DOMAIN tokens : tokens[k].pos <= ctx.last

(* A batch of tokens of the sequences in ss. *)
Decode(ss, len) ==
    LET tokens == [s \in ss |-> New({s}, len[s])]
    IN  /\ todo = <<>>
        /\ \A s \in ss : InBounds(tokens[s])
        /\ \E splits \in {Splits(tokens, turns) : turns \in Turns(len)} : DecodeSplits(splits)

(* A batch of tokens that the sequences in ss, which have the same first   *)
(* and last positions, share.                                              *)
DecodeShared(ss, n) ==
    /\ "share" \in ctx.calls /\ ctx.unified /\ todo = <<>>
    /\ \A s, t \in ss : /\ PosMin(cells[0], s) = PosMin(cells[0], t)
                        /\ PosMax(cells[0], s) = PosMax(cells[0], t)
    /\ InBounds(New(ss, n))
    /\ LET c == Chunks(New(ss, n)) IN DecodeSplits(IF ctx.window = 0 THEN <<c>> ELSE <<c, c>>)

TokensOf(ub) == UNION {{ub[j][k] : k \in DOMAIN ub[j]} : j \in DOMAIN ub}
Decoded(ub, s) == {t.pos : t \in {u \in TokensOf(ub) : s \in u.seqs}}

(* The vectors of a micro-batch in the buffer. *)
Stored(ub, slots) ==
    [st \in Seqs |-> [i \in Cells |->
        IF \E j \in Groups(ub, st) : \E k \in DOMAIN ub[j] : slots[j][k] = i
        THEN LET j == CHOOSE j \in Groups(ub, st) : TRUE
                 k == CHOOSE k \in DOMAIN ub[j] : slots[j][k] = i
             IN  [rot |-> ub[j][k].pos, value |-> ub[j][k].value]
        ELSE kbuf[st][i]]]

Compute ==
    /\ todo # <<>>
    /\ LET ub == Head(todo).ub
           slots == Head(todo).slots
       IN  /\ cells' = PlaceAll(cells, ub, slots)
           /\ heads' = HeadsAfter(heads, ub, slots)
           /\ kbuf' = Stored(ub, slots)
           /\ text' = [s \in Seqs |-> text[s] \union Decoded(ub, s)]
    /\ todo' = Tail(todo)
    /\ UNCHANGED <<ctx, hasShift, copies>>

\* Mutant of DroppedFrom: one position too many.
DroppedFrom_OneMore(ub, s) == Min(Decoded(ub, s)) - 1

(* The first position of s that a failed micro-batch takes back. *)
DroppedFrom(ub, s) == Min(Decoded(ub, s))

(* What it leaves of a cell: of the first sequence of each of its tokens,  *)
(* nothing from there on.                                                  *)
Dropped(c, ub) ==
    Without(c, {s \in {First(t.seqs) : t \in TokensOf(ub)} : c.pos >= DroppedFrom(ub, s)})

(* The computation fails, and the decode is over.                          *)
Fail ==
    /\ "fail" \in ctx.calls /\ todo # <<>>
    /\ LET ub == Head(todo).ub
           placed == PlaceAll(cells, ub, Head(todo).slots)
           after == [st \in Seqs |-> [i \in Cells |-> Dropped(placed[st][i], ub)]]
           hs == HeadsAfter(heads, ub, Head(todo).slots)
       IN  /\ cells' = after
           /\ heads' = [st \in Seqs |-> FreedHead(placed[st], after[st], hs[st])]
    /\ todo' = <<>>
    /\ UNCHANGED <<ctx, hasShift, copies, kbuf, text>>

-----------------------------------------------------------------------------
Operate ==
    \E s \in Seqs :
        \/ "rm" \in ctx.calls /\ \E r \in Ranges : SeqRm(s, r)
        \/ "keep" \in ctx.calls /\ SeqKeep(s)
        \/ "cp" \in ctx.calls /\ \E d \in Seqs : CopyStream(s, d) \/ \E r \in Ranges : SeqCp(s, d, r)
        \/ "add" \in ctx.calls /\ \E r \in Ranges, d \in Deltas : SeqAdd(s, r, d)
        \/ "div" \in ctx.calls /\ \E r \in Divided, d \in Divisors : SeqDiv(s, r, d)

Batch ==
    \E ss \in (SUBSET Seqs) \ {{}} :
        \/ \E len \in [ss -> ctx.lengths] : Decode(ss, len)
        \/ Cardinality(ss) > 1 /\ \E n \in ctx.lengths : DecodeShared(ss, n)

Next ==
    \/ Operate
    \/ "rm" \in ctx.calls /\ \E r \in Ranges : RmAll(r)
    \/ Clear
    \/ Batch
    \/ Compute \/ Fail

Spec == Init /\ [][Next]_vars

-----------------------------------------------------------------------------
Cell == [pos : 0 .. ctx.last, shift : Int, seqs : (SUBSET Seqs) \ {{}}, value : Seqs] \union {NoCell}

(* Types.  A cell is empty or has a sequence: positions and sequences of a *)
(* cell come and go together; and the cells of a stream hold only its      *)
(* sequences.  llama-kv-cells.h:238 (seq_rm), :413 (pos_add)               *)
KVTypeOK ==
    /\ ctx \in Contexts
    /\ cells \in [Seqs -> [Cells -> Cell]]
    /\ heads \in [Seqs -> 0 .. ctx.size]
    /\ hasShift \in [Seqs -> BOOLEAN]
    /\ \A st \in Seqs, i \in Cells : \A s \in cells[st][i].seqs : StreamOf(s) = st
    /\ \A k \in DOMAIN copies : copies[k] \in Streams \X Streams

(* The buffer holds the K vector of the very token that a cell is said to  *)
(* hold, rotated for the cell's position, but for the copies and shifts    *)
(* that the next decode applies first.                                     *)
(* llama-kv-cells.h:469 (shift), llama-kv-cache.cpp:813 (update)           *)
KFollowsCells ==
    \A st \in Streams, i \in Cells :
        LET c == cells[st][i]
        IN  c # NoCell => Copied[st][i] = [rot |-> c.pos - c.shift, value |-> c.value]

(* A shift waits to be applied only in a stream that says so, and, unless  *)
(* it could not be applied, never while micro-batches are computed.        *)
(* llama-context.cpp:1748                                                  *)
ShiftsKnown ==
    \A st \in Streams, i \in Cells :
        cells[st][i].shift # 0 => hasShift[st] /\ (todo = <<>> \/ "noshift" \in ctx.calls)

(* The cells that prepare found are still usable when a micro-batch comes  *)
(* to be placed, whatever the ones before it overwrote and purged.         *)
(* llama-kv-cache.cpp:747 (prepare), :1093 (apply_ubatch)                  *)
SlotsStillUsable ==
    todo # <<>> =>
        \A j \in DOMAIN Head(todo).ub :
            LET slot == Head(todo).slots[j]
                cs == cells[StreamOfGroup(Head(todo).ub[j])]
            IN  /\ IsInjective(slot)
                /\ \A k \in DOMAIN slot : CanUse(cs, slot[k])

(* No position that the next token of a sequence can look at was lost:     *)
(* cells are overwritten, and positions purged, only out of its window,    *)
(* and a failed micro-batch takes back only its own.                       *)
(* llama-kv-cache.cpp:1139 (apply_ubatch), llama-context.cpp:1844          *)
WindowKept ==
    \A s \in Seqs : \A p \in text[s] :
        ~Masked(p, Max(text[s]) + 1) => p \in Positions(cells[StreamOf(s)], s)

(* What was placed to see whether all of a batch fits is put back, in each *)
(* cell: where a place is found for all, and, without a window, where none *)
(* is.  llama-kv-cache.cpp:793 (prepare), include/llama.h:968              *)
PrepareRestores ==
    [][\/ cells' = Updated(hasShift' # hasShift)
       \/ todo' = <<>> /\ ctx.window > 0
       \/ text' # text \/ ~Batch]_vars

(* A micro-batch is no larger than n_ubatch.                               *)
UbatchFits == todo # <<>> => Cardinality(TokensOf(Head(todo).ub)) <= Ubatch
=============================================================================
