------------------------------ MODULE BufferList ------------------------------
(***************************************************************************)
(* The linked list behind a Readable (internal/streams/buffer_list.js):    *)
(* entries and the references between them.  An entry is known by its      *)
(* place in nodes, 0 is null; what is no longer reached is garbage.        *)
(* Readable has the sequence of chunks that the list stands for.           *)
(***************************************************************************)
EXTENDS Integers, SequencesExt

New == [nodes |-> << >>, head |-> 0, tail |-> 0, length |-> 0]

\* The entries from p on, as a loop along next meets them.
From(list, p) ==
  LET after[q \in 0..Len(list.nodes)] == IF q = 0 THEN << >> ELSE <<q>> \o after[list.nodes[q].next]
  IN after[p]
Data(list, ps) == [i \in DOMAIN ps |-> list.nodes[ps[i]].data]

push(list, v) ==
  LET at == Len(list.nodes) + 1
      linked == IF list.length > 0 THEN [list.nodes EXCEPT ![list.tail].next = at] ELSE list.nodes
  IN [nodes |-> Append(linked, [data |-> v, next |-> 0]), tail |-> at, length |-> list.length + 1,
      head |-> IF list.length > 0 THEN list.head ELSE at]

unshift(list, v) ==
  LET at == Len(list.nodes) + 1
  IN [nodes |-> Append(list.nodes, [data |-> v, next |-> list.head]), head |-> at,
      tail |-> IF list.length = 0 THEN at ELSE list.tail, length |-> list.length + 1]

first(list) == list.nodes[list.head].data

shift(list) ==
  IF list.length = 0 THEN list
  ELSE [list EXCEPT !.head = IF list.length = 1 THEN 0 ELSE list.nodes[@].next,
                    !.tail = IF list.length = 1 THEN 0 ELSE @, !.length = @ - 1]

clear(list) == [list EXCEPT !.head = 0, !.tail = 0, !.length = 0]

\* join('') of texts, concat(length) of buffers.
concat(list) == IF list.length = 0 THEN << >> ELSE FlattenSeq(Data(list, From(list, list.head)))

\* _getString, _getBuffer: n goes beyond the first chunk. The loop stops at the entry that
\* completes n; if none does, it has counted them all and leaves the ends as they are.
Spanning(list, n) ==
  LET ps == From(list, list.head)
      upto(k) == Len(FlattenSeq(Data(list, SubSeq(ps, 1, k))))
      done == SelectInSeq([k \in DOMAIN ps |-> upto(k)], LAMBDA m : m >= n)
      p == ps[done]
      nb == n - upto(done - 1)
      whole == nb = Len(list.nodes[p].data)
      ret == SubSeq(FlattenSeq(Data(list, ps)), 1, n)
      next == list.nodes[p].next
  IN IF done = 0 THEN [ret |-> ret, list |-> [list EXCEPT !.length = @ - Len(ps)]]
     ELSE [ret |-> ret,
           list |-> IF whole
                    THEN [list EXCEPT !.head = next, !.tail = IF next = 0 THEN 0 ELSE @, !.length = @ - done]
                    ELSE [list EXCEPT !.head = p, !.length = @ - (done - 1),
                            !.nodes[p].data = SubSeq(@, nb + 1, Len(@))]]

consume(list, n) ==
  LET data == first(list)
  IN CASE n < Len(data) -> [ret |-> SubSeq(data, 1, n),
                            list |-> [list EXCEPT !.nodes[list.head].data = SubSeq(@, n + 1, Len(@))]]
       [] n = Len(data) -> [ret |-> data, list |-> shift(list)]
       [] n > Len(data) -> Spanning(list, n)

-----------------------------------------------------------------------------
\* The list and the chunks it stands for, after some calls; a chunk is told from any
\* other by what is in it. fromList() consumes less than there is, never 0.
Chunk(i, k) == [j \in 1..k |-> 10 * i + j]
Cut(chunks, n) ==
  LET upto(k) == Len(FlattenSeq(SubSeq(chunks, 1, k)))
      ends == {k \in DOMAIN chunks : upto(k) > n}
      k == CHOOSE k \in ends : \A j \in ends : k <= j
  IN <<SubSeq(chunks[k], n - upto(k - 1) + 1, Len(chunks[k]))>> \o SubSeq(chunks, k + 1, Len(chunks))

After(calls) ==
  LET do[i \in 0..Len(calls)] ==
        IF i = 0 THEN [list |-> New, chunks |-> << >>, right |-> TRUE]
        ELSE LET d == do[i - 1]
                 op == calls[i][1]
                 n == calls[i][2]
                 bytes == FlattenSeq(d.chunks)
             IN CASE op = "push"    -> [d EXCEPT !.list = push(@, Chunk(i, n)), !.chunks = Append(@, Chunk(i, n))]
                  [] op = "unshift" -> [d EXCEPT !.list = unshift(@, Chunk(i, n)), !.chunks = <<Chunk(i, n)>> \o @]
                  [] op = "shift"   -> [d EXCEPT !.list = shift(@), !.chunks = IF @ = << >> THEN @ ELSE Tail(@)]
                  [] op = "clear"   -> [d EXCEPT !.list = clear(@), !.chunks = << >>]
                  [] op = "consume" /\ n < Len(bytes) ->
                       LET got == consume(d.list, n)
                       IN [list |-> got.list, chunks |-> Cut(d.chunks, n),
                           right |-> d.right /\ got.ret = SubSeq(bytes, 1, n)]
                  [] OTHER          -> d
  IN do[Len(calls)]

\* Whatever was called before, the list reaches its chunks in order, its length and its
\* ends agree with them, and consume() gave the first n of what there was.
ListLaws(calls) ==
  LET d == After(calls)
      ps == From(d.list, d.list.head)
  IN /\ d.right
     /\ Data(d.list, ps) = d.chunks /\ d.list.length = Len(d.chunks)
     /\ d.list.tail = IF ps = << >> THEN 0 ELSE Last(ps)
     /\ concat(d.list) = FlattenSeq(d.chunks)
=============================================================================
