---------------------------- MODULE PagingProofs ----------------------------
(***************************************************************************)
(* For every number of rows, page and size, the arithmetic of a listing    *)
(* stays inside the rows, and consecutive pages give each row once.        *)
(***************************************************************************)
EXTENDS Paging, TLAPS

\* A quotient and a remainder below the divisor are unique.
LEMMA ModOfSmall ==
    ASSUME NEW a \in Nat, NEW b \in Nat, a < b
    PROVE  a % b = a
  OBVIOUS

LEMMA WrapInt == \A n \in Int : Wrap(n) \in Int
  BY PagingAssumption DEF Wrap

\* int64 arithmetic that does not overflow is arithmetic.
LEMMA WrapSmall ==
    ASSUME NEW n \in 0 .. MaxInt64
    PROVE  Wrap(n) = n
  <1>1. MaxInt64 \in Nat
    BY PagingAssumption
  <1>2. /\ n + MaxInt64 + 1 \in Nat
        /\ 2 * (MaxInt64 + 1) \in Nat
        /\ n + MaxInt64 + 1 < 2 * (MaxInt64 + 1)
    BY <1>1
  <1>3. (n + MaxInt64 + 1) % (2 * (MaxInt64 + 1)) = n + MaxInt64 + 1
    BY <1>2, ModOfSmall
  <1> QED
    BY <1>1, <1>3 DEF Wrap

LEMMA SizeOfType ==
    ASSUME NEW size \in Int
    PROVE  SizeOf(size) \in 1 .. MaxSize
  BY PagingAssumption DEF SizeOf

LEMMA OffsetOfInt ==
    ASSUME NEW page \in Int, NEW size \in Int
    PROVE  OffsetOf(page, size) \in Int
  <1>1. PageIndex(page) \in Int /\ SizeOf(size) \in Int
    BY SizeOfType, PagingAssumption DEF PageIndex
  <1>2. PageIndex(page) * SizeOf(size) \in Int
    BY <1>1
  <1> QED
    BY <1>2, WrapInt DEF OffsetOf

\* The offset of a listing, once it is fitted to the rows.
FirstRow(count, page, size) ==
    ValidOffset(count, OffsetOf(page, size), SizeOf(size))

LEMMA ListingShape ==
    ASSUME NEW count \in Nat \ {0}, count + MaxSize <= MaxInt64,
           NEW page \in Int, NEW size \in Int
    PROVE  /\ FirstRow(count, page, size) \in 0 .. count - 1
           /\ RowsOf(count, page, size) =
                 {row \in 0 .. count - 1 :
                      /\ FirstRow(count, page, size) <= row
                      /\ row < FirstRow(count, page, size) + SizeOf(size)}
  <1> DEFINE offset == FirstRow(count, page, size)
  <1>1. MaxInt64 \in Nat /\ MaxSize \in Nat /\ SizeOf(size) \in 1 .. MaxSize
    BY PagingAssumption, SizeOfType
  <1>2. offset \in 0 .. count - 1
    <2> DEFINE inside == IF OffsetOf(page, size) >= count
                         THEN count - SizeOf(size) ELSE OffsetOf(page, size)
    <2>1. offset = IF inside < 0 THEN 0 ELSE inside
      BY DEF ValidOffset, FirstRow
    <2>2. OffsetOf(page, size) \in Int
      BY OffsetOfInt
    <2>3. inside \in Int /\ inside <= count - 1
      BY <1>1, <2>2
    <2> HIDE DEF inside
    <2> QED
      BY <2>1, <2>3
  <1> HIDE DEF offset
  <1>3. Wrap(offset + SizeOf(size)) = offset + SizeOf(size)
    <2>1. offset + SizeOf(size) \in 0 .. MaxInt64
      BY <1>1, <1>2
    <2> QED
      BY <2>1, WrapSmall
  <1>4. ValidLimit(count, offset, SizeOf(size)) =
            IF offset + SizeOf(size) > count THEN count - offset ELSE SizeOf(size)
    BY <1>3 DEF ValidLimit
  <1> DEFINE limit == ValidLimit(count, offset, SizeOf(size))
  <1>5. RowsOf(count, page, size) = offset .. offset + limit - 1
    BY DEF RowsOf, ListingOf, offset, FirstRow
  <1>6. limit = IF offset + SizeOf(size) > count
                THEN count - offset ELSE SizeOf(size)
    BY <1>4
  <1> HIDE DEF limit
  <1>7. limit \in Int /\ offset \in Int /\ SizeOf(size) \in Int /\ count \in Int
    BY <1>1, <1>2, <1>6
  <1>8. \A row \in Int : offset <= row /\ row <= offset + limit - 1 <=>
                         /\ row \in 0 .. count - 1
                         /\ offset <= row
                         /\ row < offset + SizeOf(size)
    BY <1>2, <1>6, <1>7
  <1>9. offset .. offset + limit - 1 =
            {row \in 0 .. count - 1 :
                 offset <= row /\ row < offset + SizeOf(size)}
    BY <1>7, <1>8
  <1> QED
    BY <1>2, <1>5, <1>9 DEF offset

\* A listing of an inbox that is not empty asks the database for rows that
\* were counted, and at least one, whatever page and size the query names:
\* neither a page past the end nor an overflow of page * size makes it fail
\* (optionalOffsetAndSize, validateOffsetAndLimit).
THEOREM ListingAlwaysFits ==
    ASSUME NEW count \in Nat \ {0}, count + MaxSize <= MaxInt64,
           NEW page \in Int, NEW size \in Int
    PROVE  ListingFits(count, page, size)
  <1> DEFINE offset == FirstRow(count, page, size)
  <1>1. /\ offset \in 0 .. count - 1
        /\ RowsOf(count, page, size) =
              {row \in 0 .. count - 1 :
                   offset <= row /\ row < offset + SizeOf(size)}
    BY ListingShape
  <1>2. SizeOf(size) \in Nat /\ SizeOf(size) >= 1
    BY SizeOfType, PagingAssumption
  <1> HIDE DEF offset
  <1>3. offset \in RowsOf(count, page, size)
    BY <1>1, <1>2
  <1>4. RowsOf(count, page, size) \subseteq 0 .. count - 1
    BY <1>1
  <1> QED
    BY <1>3, <1>4 DEF ListingFits

-----------------------------------------------------------------------------
LEMMA Cancel ==
    ASSUME NEW a \in Int, NEW b \in Int, NEW c \in Int, c >= 1, a * c < b * c
    PROVE  a < b
  <1> SUFFICES ASSUME a >= b PROVE FALSE
    OBVIOUS
  <1>1. (a - b) * c >= 0
    OBVIOUS
  <1>2. (a - b) * c = a * c - b * c
    OBVIOUS
  <1> QED
    BY <1>1, <1>2

LEMMA Division ==
    ASSUME NEW a \in Nat, NEW b \in Nat, b >= 1
    PROVE  /\ a \div b \in Nat
           /\ (a \div b) * b <= a
           /\ a < (a \div b + 1) * b
  OBVIOUS

\* The pages a client reads do not overflow, and are the rows from one
\* multiple of the page size to the next.
LEMMA PageShape ==
    ASSUME NEW count \in Nat \ {0}, count + MaxSize <= MaxInt64,
           NEW size \in Int, NEW page \in PagesOf(count, size),
           NEW row \in 0 .. count - 1
    PROVE  row \in RowsOf(count, page, size) <=>
               /\ (page - 1) * SizeOf(size) <= row
               /\ row < page * SizeOf(size)
  <1> DEFINE size1 == SizeOf(size)
             pages == (count + size1 - 1) \div size1
  <1>1. /\ MaxInt64 \in Nat /\ MaxSize \in Nat
        /\ size1 \in Nat /\ size1 >= 1 /\ size1 <= MaxSize
    BY PagingAssumption, SizeOfType
  <1>2. page \in 1 .. pages
    BY DEF PagesOf
  <1> HIDE DEF size1
  <1>3. pages \in Nat /\ pages * size1 <= count + size1 - 1
    BY <1>1, Division
  <1> HIDE DEF pages
  <1>4. page \in Nat /\ page - 1 \in Nat
    BY <1>2, <1>3
  <1>5. page * size1 <= count + size1 - 1
    <2>1. page * size1 \in Int /\ pages * size1 \in Int
      BY <1>1, <1>3, <1>4
    <2>2. (pages - page) * size1 >= 0
      BY <1>1, <1>2, <1>3, <1>4
    <2>3. (pages - page) * size1 = pages * size1 - page * size1
      BY <1>1, <1>3, <1>4
    <2> QED
      BY <1>1, <1>3, <2>1, <2>2, <2>3
  <1>6. (page - 1) * size1 = page * size1 - size1
    BY <1>1, <1>4
  <1>7. (page - 1) * size1 \in Nat
    BY <1>1, <1>4
  <1>8. (page - 1) * size1 < count
    BY <1>1, <1>4, <1>5, <1>6, <1>7
  <1>9. OffsetOf(page, size) = (page - 1) * size1
    <2>1. PageIndex(page) = page - 1
      BY <1>2, <1>3 DEF PageIndex
    <2>2. (page - 1) * size1 \in 0 .. MaxInt64
      BY <1>1, <1>7, <1>8
    <2> QED
      BY <2>1, <2>2, WrapSmall DEF OffsetOf, size1
  <1>10. FirstRow(count, page, size) = (page - 1) * size1
    BY <1>7, <1>8, <1>9 DEF ValidOffset, FirstRow
  <1>11. RowsOf(count, page, size) =
             {i \in 0 .. count - 1 :
                  (page - 1) * size1 <= i /\ i < (page - 1) * size1 + size1}
    <2>1. RowsOf(count, page, size) =
              {i \in 0 .. count - 1 :
                   /\ FirstRow(count, page, size) <= i
                   /\ i < FirstRow(count, page, size) + SizeOf(size)}
      <3>1. count \in Nat \ {0} /\ page \in Int
        BY <1>1, <1>4
      <3> HIDE DEF size1
      <3> QED
        BY <3>1, ListingShape, Zenon
    <2> QED
      BY <1>10, <2>1 DEF size1
  <1>12. (page - 1) * size1 + size1 = page * size1
    BY <1>1, <1>4, <1>6
  <1> QED
    BY <1>11, <1>12 DEF size1

\* However many messages there are, and whatever size is asked for, the pages
\* of a listing give each of them once.
THEOREM EachRowAlwaysOnce ==
    ASSUME NEW count \in Nat, count + MaxSize <= MaxInt64, NEW size \in Int
    PROVE  EachRowOnce(count, size)
  <1> SUFFICES ASSUME NEW row \in 0 .. count - 1
               PROVE  \E page \in PagesOf(count, size) :
                          \A other \in PagesOf(count, size) :
                              row \in RowsOf(count, other, size) <=> other = page
    BY DEF EachRowOnce
  <1> DEFINE size1 == SizeOf(size)
             page  == row \div size1 + 1
             pages == (count + size1 - 1) \div size1
  <1>1. size1 \in Nat /\ size1 >= 1 /\ count \in Nat \ {0} /\ row \in Nat
    BY PagingAssumption, SizeOfType
  <1> HIDE DEF size1
  <1>2. /\ page - 1 \in Nat /\ page \in Nat
        /\ (page - 1) * size1 <= row
        /\ row < page * size1
    BY <1>1, Division
  <1>3. pages \in Nat /\ count + size1 - 1 < (pages + 1) * size1
    BY <1>1, Division
  <1> HIDE DEF page, pages
  <1>4. page \in PagesOf(count, size)
    <2>1. (page - 1) * size1 < pages * size1
      <3>1. (pages + 1) * size1 = pages * size1 + size1
        BY <1>1, <1>3
      <3>2. pages * size1 \in Int /\ (page - 1) * size1 \in Int
        BY <1>1, <1>2, <1>3
      <3> QED
        BY <1>1, <1>2, <1>3, <3>1, <3>2
    <2>2. page - 1 < pages
      BY <1>1, <1>2, <1>3, <2>1, Cancel
    <2>3. page \in 1 .. pages
      BY <1>2, <1>3, <2>2
    <2> QED
      BY <2>3 DEF PagesOf, pages, size1
  <1>5. ASSUME NEW other \in PagesOf(count, size)
        PROVE  row \in RowsOf(count, other, size) <=> other = page
    <2>1. row \in RowsOf(count, other, size) <=>
              (other - 1) * size1 <= row /\ row < other * size1
      BY <1>1, PageShape DEF size1
    <2>2. other \in Int
      BY <1>3 DEF PagesOf, pages, size1
    <2>3. ASSUME (other - 1) * size1 <= row, row < other * size1
          PROVE  other = page
      <3>1. /\ other * size1 \in Int /\ (other - 1) * size1 \in Int
            /\ page * size1 \in Int /\ (page - 1) * size1 \in Int
        BY <1>1, <1>2, <2>2
      <3>2. (other - 1) * size1 < page * size1
        BY <1>1, <1>2, <2>3, <3>1
      <3>3. (page - 1) * size1 < other * size1
        BY <1>1, <1>2, <2>3, <3>1
      <3>4. other - 1 < page
        BY <1>1, <1>2, <2>2, <3>2, Cancel
      <3>5. page - 1 < other
        BY <1>1, <1>2, <2>2, <3>3, Cancel
      <3> QED
        BY <1>2, <2>2, <3>4, <3>5
    <2> QED
      BY <1>2, <2>1, <2>3
  <1> QED
    BY <1>4, <1>5
=============================================================================
