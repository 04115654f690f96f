-------------------------------- MODULE NumCpp --------------------------------
(***************************************************************************)
(* cpp20/concepts/NumCpp: arrays of numbers, a shape over a block of       *)
(* storage that reshaped arrays share.  Beside each array stands what it   *)
(* should hold, as a function of the indexes (ref), with whom it should     *)
(* share that (of), and where a clone is cut off (cut).  The elements are   *)
(* integers of DTypeSize bytes.                                            *)
(***************************************************************************)
EXTENDS Integers, Sequences, SequencesExt, FiniteSets

CONSTANTS MaxArrays,   \* arrays made
          DTypeSize,   \* bytes of an element
          ByteBits     \* bits of a byte

VARIABLES heap,   \* heap[b]: the elements of storage b
          arrs    \* the arrays: their shape, their storage, and of, ref and cut

vars == <<heap, arrs>>

Init == heap = <<>> /\ arrs = <<>>

calcShapeSize(shape) == IF shape = <<>> THEN 0 ELSE FoldSeq(LAMBDA d, n : d * n, 1, shape)

\* The index tuples of a shape of one or two dimensions, and the place of one in
\* their lexical order: what the layout should be.
Indexes(shape) ==
    IF Len(shape) = 1 THEN {<<i>> : i \in 0..(shape[1] - 1)}
    ELSE {<<i, j>> : i \in 0..(shape[1] - 1), j \in 0..(shape[2] - 1)}
Before(ix, jx) == ix[1] < jx[1] \/ (Len(ix) = 2 /\ ix[1] = jx[1] /\ ix[2] < jx[2])
Rank(shape, ix) == Cardinality({jx \in Indexes(shape) : Before(jx, ix)})

\* Mutant: the indexes are taken from the first to the last.
FlattenForward(shape, ix) ==
    LET at[d \in 0..Len(ix)] ==
          IF d = 0 THEN [sum |-> 0, row |-> 1]
          ELSE [sum |-> at[d - 1].sum + ix[d] * at[d - 1].row, row |-> at[d - 1].row * shape[d]]
    IN at[Len(ix)].sum
\* operator[]: from the last index to the first.
flattenIndex(shape, ix) ==
    LET n == Len(ix)
        at[d \in 0..n] ==
          IF d = 0 THEN [sum |-> 0, row |-> 1]
          ELSE [sum |-> at[d - 1].sum + ix[n - d + 1] * at[d - 1].row,
                row |-> at[d - 1].row * shape[n - d + 1]]
    IN at[n].sum
Element(a, ix) == heap[a.data][flattenIndex(a.shape, ix) + 1]

-----------------------------------------------------------------------------
(* Making arrays.                                                          *)

Made(shape, block, ref, cut) ==
    /\ Len(arrs) < MaxArrays
    /\ heap' = Append(heap, block)
    /\ arrs' = Append(arrs, [shape |-> shape, data |-> Len(heap) + 1,
                             of |-> Len(arrs) + 1, ref |-> ref, cut |-> cut])

\* Containers of rows, whose shape is taken from the first row, and of numbers.
Containers == {<<<<1, 2, 3>>, <<4, 0, 6>>>>, <<<<7>>>>}
makeContainerShape(c) == <<Len(c), Len(c[1])>>
fillContainerBuffer(c) == FlattenSeq(c)
array(c) ==
    LET shape == makeContainerShape(c)
    IN Made(shape, fillContainerBuffer(c), [ix \in Indexes(shape) |-> c[ix[1] + 1][ix[2] + 1]], {})

Lists == {<<3, 1, 2, 0, 5, 4>>}
array_of_numbers(c) == Made(<<Len(c)>>, c, [ix \in Indexes(<<Len(c)>>) |-> c[ix[1] + 1]], {})

\* zeros and ones.
Shapes == {<<6>>, <<2, 3>>, <<3, 2>>}
Filled(shape, v) ==
    Made(shape, [k \in 1..calcShapeSize(shape) |-> v], [ix \in Indexes(shape) |-> v], {})

\* What an array of the elements of a, in the same order, should hold.
Reshaped(a, shape) ==
    LET from(ix) == CHOOSE jx \in Indexes(a.shape) : Rank(a.shape, jx) = Rank(shape, ix)
    IN [a EXCEPT !.shape = shape,
                 !.ref = [ix \in Indexes(shape) |-> a.ref[from(ix)]],
                 !.cut = {ix \in Indexes(shape) : from(ix) \in a.cut}]

\* Mutant: the storage is copied.
ReshapeCopied(a, shape) ==
    /\ Len(arrs) < MaxArrays
    /\ calcShapeSize(shape) = calcShapeSize(a.shape)
    /\ heap' = Append(heap, heap[a.data])
    /\ arrs' = Append(arrs, [Reshaped(a, shape) EXCEPT !.data = Len(heap) + 1])
\* The storage is shared.
reshape(a, shape) ==
    /\ Len(arrs) < MaxArrays
    /\ calcShapeSize(shape) = calcShapeSize(a.shape)
    /\ arrs' = Append(arrs, Reshaped(a, shape))
    /\ UNCHANGED heap

\* What a copy over zeros has of element v when it takes that many bytes, the low
\* ones first: less than all leave the low bytes alone, of a negative number too.
Power[n \in Nat] == IF n = 0 THEN 1 ELSE 2 * Power[n - 1]
Copied(v, bytes) ==
    IF bytes >= DTypeSize THEN v ELSE IF bytes <= 0 THEN 0 ELSE v % Power[ByteBits * bytes]

\* Mutant: a copy shares the storage.
CloneShared(a) ==
    /\ Len(arrs) < MaxArrays
    /\ arrs' = Append(arrs, [a EXCEPT !.of = Len(arrs) + 1])
    /\ UNCHANGED heap
\* As many bytes are copied as there are elements.  A copy should hold what the
\* array holds; it is cut off where those bytes end.
clone(a) ==
    LET n == calcShapeSize(a.shape)
    IN Made(a.shape, [k \in 1..n |-> Copied(heap[a.data][k], n - (k - 1) * DTypeSize)],
            a.ref, a.cut \cup {ix \in Indexes(a.shape) : (Rank(a.shape, ix) + 1) * DTypeSize > n})

\* Assignment to an element changes every array over the storage.  A value is
\* stored once, while no storage holds it.
Store(a, ix, v) ==
    LET same(b) == {jx \in Indexes(b.shape) : b.of = a.of /\ Rank(b.shape, jx) = Rank(a.shape, ix)}
    IN /\ \A k \in DOMAIN heap : v \notin Range(heap[k])
       /\ heap' = [heap EXCEPT ![a.data][flattenIndex(a.shape, ix) + 1] = v]
       /\ arrs' = [k \in DOMAIN arrs |-> [arrs[k] EXCEPT
                     !.ref = [jx \in DOMAIN @ |-> IF jx \in same(arrs[k]) THEN v ELSE @[jx]],
                     !.cut = @ \ same(arrs[k])]]

-----------------------------------------------------------------------------
(* Algorithms.                                                             *)

\* What is passed to binaryMap and reduce.
Apply(op, x, y) ==
    CASE op = "+" -> x + y
      [] op = "-" -> x - y
      [] op = "*" -> x * y
      [] op = "min" -> (IF x < y THEN x ELSE y)
      [] op = "max" -> (IF x > y THEN x ELSE y)

\* A result that does not fit its bytes is undefined and is left out.
Fits(v) == 2 * v \in -Power[ByteBits * DTypeSize]..(Power[ByteBits * DTypeSize] - 1)

\* Different shapes are refused.
binaryMap(op, a, b) ==
    LET result(k) == Apply(op, heap[a.data][k], heap[b.data][k])
        n == calcShapeSize(a.shape)
    IN /\ a.shape = b.shape
       /\ \A k \in 1..n : Fits(result(k))
       /\ Made(a.shape, [k \in 1..n |-> result(k)],
               [ix \in Indexes(a.shape) |-> Apply(op, a.ref[ix], b.ref[ix])], a.cut \cup b.cut)
Plus(a, b) == binaryMap("+", a, b)
Minus(a, b) == binaryMap("-", a, b)
dot(a, b) == binaryMap("*", a, b)

reduce(a, op, init) == FoldSeq(LAMBDA x, y : Apply(op, x, y), init, heap[a.data])
sum(a) == reduce(a, "+", 0)
\* Mutant: the reduction begins with zero, not with the first element.
MinFromZero(a) == reduce(a, "min", 0)
min(a) == reduce(a, "min", heap[a.data][1])
max(a) == reduce(a, "max", heap[a.data][1])

-----------------------------------------------------------------------------
(* Views.  An end of a slice is open, or a number from the front or,       *)
(* negative, from the back.                                                *)

SliceItem(open, value) == [open |-> open, value |-> value]
Valid(value, ok) == [value |-> value, ok |-> ok]
getValidValue(item, dim, isStart) ==
    CASE item.open -> Valid(IF isStart THEN 0 ELSE dim, TRUE)
      [] ~item.open /\ item.value > dim -> Valid(dim, TRUE)
      [] ~item.open /\ item.value < 0 -> Valid(dim + item.value, dim + item.value >= 0)
      [] OTHER -> Valid(item.value, TRUE)

\* Mutant: a start before the first element is kept.
UnclampedDim(dim, start, end) ==
    LET s == getValidValue(start, dim, TRUE)
        e == getValidValue(end, dim, FALSE)
    IN [valid |-> (s.ok \/ e.ok) /\ s.value <= e.value,
        start |-> s.value, size |-> e.value - s.value]
\* One dimension of generateShape: only when both ends are out of range, or in
\* the wrong order, is the view invalid.
viewDim(dim, start, end) ==
    LET s == getValidValue(start, dim, TRUE)
        e == getValidValue(end, dim, FALSE)
        first == IF s.value < 0 THEN 0 ELSE s.value
    IN [valid |-> (s.ok \/ e.ok) /\ s.value <= e.value,
        start |-> first, size |-> e.value - first]
SliceItems == {SliceItem(TRUE, 0)} \cup {SliceItem(FALSE, v) : v \in -4..4}

Next ==
    \/ \E c \in Containers : array(c)
    \/ \E c \in Lists : array_of_numbers(c)
    \/ \E shape \in Shapes : Filled(shape, 1)
    \/ \E a \in Range(arrs) :
          \/ \E shape \in Shapes : reshape(a, shape)
          \/ clone(a)
          \/ \E ix \in Indexes(a.shape) : Store(a, ix, 9)
          \/ \E b \in Range(arrs) : Plus(a, b) \/ Minus(a, b) \/ dot(a, b)

Spec == Init /\ [][Next]_vars

-----------------------------------------------------------------------------
(* What a sum over the indexes is. *)
SumOf(a) ==
    LET at(k) == CHOOSE ix \in Indexes(a.shape) : Rank(a.shape, ix) = k - 1
    IN FoldSeq(LAMBDA x, y : x + y, 0, [k \in 1..calcShapeSize(a.shape) |-> Element(a, at(k))])

\* Every array holds, at every index, what was put there: by the container it
\* was made from, the array it is a copy of, through an array that shares its
\* storage and no other, or by the operation on the same index of its operands.
\* The exception is a clone, which is cut off: clone() counts bytes as elements
\* (array.cpp:164), and only those that lie wholly in the first n bytes of n
\* elements, or were stored since, are what they should be.  Sum, least and
\* greatest element are those of the indexed elements.
ElementsRight ==
    \A a \in Range(arrs) :
      /\ \A ix \in Indexes(a.shape) \ a.cut : Element(a, ix) = a.ref[ix]
      /\ sum(a) = SumOf(a)
      /\ \A ix \in Indexes(a.shape) : min(a) <= Element(a, ix) /\ Element(a, ix) <= max(a)
      /\ \E ix, jx \in Indexes(a.shape) : min(a) = Element(a, ix) /\ max(a) = Element(a, jx)

\* A view that is valid lies inside the array in every dimension, whatever its
\* slices.
ViewInside ==
    \A dim \in UNION {Range(a.shape) : a \in Range(arrs)}, start, end \in SliceItems :
      LET v == viewDim(dim, start, end)
      IN v.valid => v.start >= 0 /\ v.size >= 0 /\ v.start + v.size <= dim

ArraysCorrect == ElementsRight /\ ViewInside
=============================================================================
