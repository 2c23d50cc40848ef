----------------------------- MODULE MCAppCodec -----------------------------
(* Messages with one object of every group and variation under every        *)
(* qualifier, some with two, with values and indexes at the limits of their *)
(* fields; the responses of the session over points that are and are not a  *)
(* contiguous range.                                                        *)
EXTENDS AppCodec

CONSTANT None

\* 1.001 * 1000 is 1000.9999999999999.
MCTruncated == {1001}

Reply(objects) ==
  [fc |-> 129, seq |-> 3, con |-> FALSE, uns |-> FALSE, iin |-> <<128, 4>>, objects |-> objects]
Request(fc, seq, objects) ==
  [fc |-> fc, seq |-> seq, con |-> FALSE, uns |-> FALSE, iin |-> <<>>, objects |-> objects]

\* Two points of a group, from index i on.  Values differ in sign and size.
Points(g, i, values, flags, time) ==
  [k \in 1 .. 2 |->
     CASE g \in {1, 2, 10} ->
            [index |-> i + k - 1, value |-> k - 1, flags |-> flags, time |-> time]
       [] g \in {20, 21, 30, 32, 40} ->
            [index |-> i + k - 1, value |-> values[k], flags |-> flags, time |-> time]
       [] g = 12 ->
            [index |-> i + k - 1, control |-> 65, count |-> k, on_time_ms |-> 300,
             off_time_ms |-> 70000, status |-> 0]
       [] g = 41 -> [index |-> i + k - 1, value |-> values[k], status |-> 127]
       [] g = 80 -> [index |-> i + k - 1, value |-> k - 1]
       [] g = 50 -> [ms_since_epoch |-> 70000 * k]]

Object(g, v, q, i, points) ==
  LET n == Len(points)
      ranged == q \in {RANGE_8, RANGE_16, RANGE_32}
  IN [header |-> [group |-> g, var |-> v, qual |-> q, start |-> IF ranged THEN i ELSE 0,
                  stop |-> IF ranged THEN i + n - 1 ELSE 0,
                  count |-> IF q = ALL_POINTS THEN 0 ELSE n],
      points |-> IF q = ALL_POINTS THEN <<>> ELSE points]

Variations(g) ==
  CASE g \in {1, 10} -> 1 .. 3       [] g = 2 -> 1 .. 3
    [] g = 12 -> {1}                 [] g \in {20, 21} -> {1, 2, 3, 5, 6, 9, 10}
    [] g = 30 -> 1 .. 7              [] g = 32 -> 1 .. 9
    [] g \in {40, 41} -> 1 .. 5      [] g \in {50, 80} -> {1}

GroupVariations == UNION {{g} \X Variations(g) : g \in Handled \ {60}}

Timed == {<<2, 2>>, <<2, 3>>, <<21, 5>>, <<21, 6>>, <<32, 3>>, <<32, 4>>, <<32, 7>>, <<32, 8>>}

\* Every group, variation and qualifier, with a time where one is written.
Shapes ==
  {Reply(<<Object(gv[1], gv[2], q, 0,
     Points(gv[1], 0, <<IF gv[1] \in {20, 21} THEN 2 ELSE -2, 300>>, 1, IF gv \in Timed THEN 70000 ELSE None))>>) :
   gv \in GroupVariations, q \in {RANGE_8, RANGE_16, ALL_POINTS, COUNT_8, INDEX_8, INDEX_16}}

\* Indexes, values, flags and times at and beyond their limits; qualifiers that
\* are not written.
Limits ==
  {Reply(<<Object(2, 1, q, i, Points(2, i, <<>>, f, None))>>) :
     q \in {RANGE_8, INDEX_8, INDEX_16, INDEX_32}, i \in {254, 255}, f \in {127, 129}}
  \cup {Reply(<<Object(32, 2, INDEX_8, 0, Points(32, 0, <<-32768, x>>, 1, None))>>) :
     x \in {32767, 32768}}
  \cup {Reply(<<Object(20, 6, RANGE_16, 0, Points(20, 0, <<0, x>>, 1, None))>>) :
     x \in {65535, 65536}}
  \cup {Reply(<<Object(32, 4, INDEX_8, 0, Points(32, 0, <<0, 1>>, 1, None))>>),
        Reply(<<Object(1, 1, RANGE_8, 0, Points(1, 0, <<>>, 3, None))>>),
        Reply(<<Object(10, 1, RANGE_8, 0, Points(10, 0, <<>>, 3, None))>>)}
  \cup {Reply(<<Object(21, 6, INDEX_8, 0, Points(21, 0, <<1, 2>>, 1, t))>>) : t \in {1001, 1002}}
  \cup {Reply(<<Object(80, 1, q, i, Points(80, i, <<>>, 1, None))>>) :
     q \in {RANGE_8, INDEX_8}, i \in {0, 4}}

Headed(g, v, q, start, stop, count) ==
  [group |-> g, var |-> v, qual |-> q, start |-> start, stop |-> stop, count |-> count]

\* Headers that announce other points than there are: reversed ranges, counts of
\* what is passed over, a qualifier without numbers.
Odd ==
  {Reply(<<[header |-> Headed(g, v, RANGE_8, 5, 3, n), points |-> <<>>]>>) :
     g \in {1, 30}, v \in {1, 7}, n \in {-1, 0}}
  \cup {Reply(<<[header |-> Headed(g, 7, q, 0, 0, 2), points |-> <<>>]>>) :
     g \in {30, 41}, q \in {COUNT_8, INDEX_8}}
  \cup {Reply(<<[header |-> Headed(60, 2, COUNT_8, 0, 0, 1), points |-> <<[variation |-> v]>>]>>) :
     v \in {2, 3}}
  \cup {Reply(<<[header |-> Headed(20, 5, 3, 0, 0, n), points |-> <<>>]>>) : n \in {0, 1}}

\* More points than a count octet can tell, and packed points in two octets.
Many ==
  {Reply(<<Object(1, 1, q, 0,
     [k \in 1 .. n |-> [index |-> k - 1, value |-> k % 2, flags |-> 1, time |-> None]])>>) :
   q \in {COUNT_8, COUNT_16}, n \in {9, 256}}
  \cup {Request(2, 4, <<Object(80, 1, RANGE_8, 0,
          [k \in 1 .. 9 |-> [index |-> k - 1, value |-> k \div 8]])>>)}

Poll(v) == Object(60, v, ALL_POINTS, 0, <<>>)

\* What the master sends, and responses with two objects or flags in the control.
Others ==
  {Request(1, 15, <<Poll(2), Poll(3), Poll(4)>>), Request(1, 16, <<Poll(1)>>),
   Request(0, 7, <<>>), Request(20, 2, <<Poll(2), Poll(3), Poll(4)>>),
   Request(1, 0, <<Object(60, 1, COUNT_8, 0, <<>>)>>),
   Reply(<<Object(52, 2, COUNT_8, 0, <<>>)>>),
   Request(5, 1, <<Object(41, 3, INDEX_8, 0, Points(41, 0, <<5, 6>>, 0, 0)),
                   Object(12, 1, INDEX_16, 0, Points(12, 0, <<>>, 0, 0))>>),
   [Reply(<<Object(30, 4, RANGE_8, 3, Points(30, 3, <<-1, 1>>, 1, None)), Poll(2)>>)
      EXCEPT !.fc = 130, !.con = TRUE, !.uns = TRUE]}

Static(g, i) ==
  [index |-> i, value |-> IF g \in {1, 10} THEN i % 2 ELSE 7 * i, flags |-> 1, time |-> None]

\* Points with the indexes 0, 1 and 2 of a subset, in two orders.
Orders == {<<>>, <<0>>, <<1>>, <<0, 1, 2>>, <<1, 0>>, <<0, 2>>, <<2, 0, 1>>}

StaticPoints(g, order) == [k \in 1 .. Len(order) |-> Static(g, order[k])]

\* Class 0 of a database with binary inputs, binary outputs and counters.
Class0Reply(inputs, counters) ==
  Reply(Class0([g \in {1, 10, 20, 21, 30, 40} |-> StaticPoints(g,
    CASE g = 1 -> inputs [] g = 20 -> counters [] g = 10 -> <<0, 1>> [] OTHER -> <<>>)]))

\* Responses of OutstationSession: one group, class 0, or events.
SessionResponses ==
  {Reply(<<StaticObject(g, StaticPoints(g, s))>>) : g \in {1, 20}, s \in Orders}
  \cup {Class0Reply(s, t) : s \in Orders, t \in {<<>>, <<0, 1>>, <<2>>}}
  \cup {Reply(EventObjects(StaticPoints(32, <<2, 0>>), StaticPoints(1, s))) : s \in Orders}

\* Inputs 0 and 1, or 0 and 2.
SparseResponses == {Class0Reply(s, <<0, 1>>) : s \in {<<0, 1>>, <<0, 2>>}}

MCMessage == Shapes \cup Limits \cup Odd \cup Many \cup Others \cup SessionResponses

\* An unknown function code, an unknown qualifier, a reversed range, a count of
\* 32 bits and an index of 32 bits, and a time in the year 10889.
MCForeign ==
  {<<192, 112>>, <<192, 1, 1, 0, 10>>, <<192, 1, 1, 2, 0, 5, 3, 60, 2, 6>>,
   <<192, 1, 60, 2, 9, 1, 0, 0, 0>>, <<192, 129, 0, 0, 2, 1, 57, 1, 0, 0, 0, 7, 0, 0, 0, 129>>,
   <<192, 129, 0, 0, 2, 2, 7, 1, 129, 255, 255, 255, 255, 255, 255>>}
=============================================================================
