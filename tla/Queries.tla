------------------------------ MODULE Queries ------------------------------
(***************************************************************************)
(* discovery.Query: a value that is passed by copy, with a slice and a map *)
(* inside.  Queries are derived from each other by any goroutine; the      *)
(* slices live in arrays with spare capacity, as append makes them.        *)
(***************************************************************************)
EXTENDS Naturals, Sequences

CONSTANTS
  Names,    \* the variables that hold a query
  Tags,     \* tags, values of the one metadata key, and filters
  MaxCalls  \* bound on the methods called

VARIABLES
  queries, \* the queries
  arrays,  \* the arrays of the tag slices: capacity and content
  maps,    \* the metadata maps
  asked,   \* what the calls that led to each query asked for
  calls

queryVars == <<queries, arrays, maps, asked, calls>>

Nil == 0      \* the nil slice or map
NoMeta == "any"  \* nothing is required of the metadata

\* Client.Service: only passing instances, whatever their tags.
Service ==
  [tags |-> [array |-> Nil, len |-> 0], meta |-> Nil, filter |-> {},
   expr |-> [meta |-> NoMeta, filter |-> {}], passing |-> TRUE]

\* What a caller asks for with it.
Everything == [tags |-> <<>>, meta |-> NoMeta, filter |-> {}, passing |-> TRUE]

QueriesInit ==
  /\ queries = [n \in Names |-> Service]
  /\ arrays = <<>>
  /\ maps = <<>>
  /\ asked = [n \in Names |-> Everything]
  /\ calls = 0

-----------------------------------------------------------------------------
(***************************************************************************)
(* Slices: an array and a length, <<slice, arrays>> for the effect.        *)
(***************************************************************************)

Elements(slice) ==
  IF slice.array = Nil THEN <<>> ELSE SubSeq(arrays[slice.array].elems, 1, slice.len)

\* append: in place if the array has room, or in a new array of twice the size.
Appended(slice, as, t) ==
  LET i == slice.len + 1
      elems == IF slice.array = Nil THEN <<>> ELSE as[slice.array].elems
  IN  IF slice.array # Nil /\ i <= as[slice.array].cap
      THEN <<[slice EXCEPT !.len = i],
             [as EXCEPT ![slice.array].elems =
                IF i <= Len(@) THEN [@ EXCEPT ![i] = t] ELSE Append(@, t)]>>
      ELSE <<[array |-> Len(as) + 1, len |-> i],
             Append(as, [cap |-> IF slice.len = 0 THEN 1 ELSE 2 * slice.len,
                         elems |-> Append(SubSeq(elems, 1, slice.len), t)])>>

\* slices.Clone: an array without room.
Clone(slice) ==
  IF slice.array = Nil THEN <<slice, arrays>>
  ELSE <<[slice EXCEPT !.array = Len(arrays) + 1],
         Append(arrays, [cap |-> slice.len, elems |-> Elements(slice)])>>

\* Variant of Tagged without the clone.
TaggedInPlace(slice, t) == Appended(slice, arrays, t)

Tagged(slice, t) == Appended(Clone(slice)[1], Clone(slice)[2], t)

-----------------------------------------------------------------------------

Called == calls < MaxCalls /\ calls' = calls + 1

\* The variable n gets what a method of the query in b returns.
Derives(n, b, value, wish) ==
  /\ Called
  /\ queries' = [queries EXCEPT ![n] = value]
  /\ asked' = [asked EXCEPT ![n] = wish]

Tag(n, b, t) ==
  LET result == Tagged(queries[b].tags, t)
  IN  /\ Derives(n, b, [queries[b] EXCEPT !.tags = result[1]],
                 [asked[b] EXCEPT !.tags = Append(@, t)])
      /\ arrays' = result[2]
      /\ UNCHANGED maps

\* filterExpr: the combined expression is built anew by Meta and Filter.
FilterExpr(meta, filter) == [meta |-> meta, filter |-> filter]

\* The map is cloned before it gets the value.
Meta(n, b, v) ==
  /\ Derives(n, b, [queries[b] EXCEPT !.meta = Len(maps) + 1,
                                     !.expr = FilterExpr(v, queries[b].filter)],
             [asked[b] EXCEPT !.meta = v])
  /\ maps' = Append(maps, v)
  /\ UNCHANGED arrays

\* Another filter, in conjunction with those before.
Filter(n, b, f) ==
  LET filter == queries[b].filter \union {f}
      meta   == IF queries[b].meta = Nil THEN NoMeta ELSE maps[queries[b].meta]
  IN  /\ Derives(n, b, [queries[b] EXCEPT !.filter = filter, !.expr = FilterExpr(meta, filter)],
                 [asked[b] EXCEPT !.filter = filter])
      /\ UNCHANGED <<arrays, maps>>

\* Passing and AnyStatus, like every method that sets one field.
Status(n, b, passing) ==
  /\ Derives(n, b, [queries[b] EXCEPT !.passing = passing],
             [asked[b] EXCEPT !.passing = passing])
  /\ UNCHANGED <<arrays, maps>>

QueriesNext ==
  \E n, b \in Names :
    \/ \E t \in Tags : Tag(n, b, t) \/ Meta(n, b, t) \/ Filter(n, b, t)
    \/ \E passing \in BOOLEAN : Status(n, b, passing)

\* Query.options and fetch: what is sent to Consul.
Sent(n) ==
  [tags |-> Elements(queries[n].tags), meta |-> queries[n].expr.meta,
   filter |-> queries[n].expr.filter, passing |-> queries[n].passing]

-----------------------------------------------------------------------------

\* Type correctness of every variable.
QueriesTypeOK ==
  \A n \in Names :
    /\ queries[n].tags.array \in 0..Len(arrays)
    /\ queries[n].tags.len <= calls
    /\ queries[n].meta \in 0..Len(maps)

\* A query asks for what the calls that led to it asked for, whatever else was
\* derived from the queries it comes from, before or after.
AskedAsBuilt == \A n \in Names : Sent(n) = asked[n]

=============================================================================
