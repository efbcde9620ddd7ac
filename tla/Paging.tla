------------------------------- MODULE Paging -------------------------------
(***************************************************************************)
(* The arithmetic of paging in the messages API: optionalOffsetAndSize     *)
(* (messages/params.go) turns the query's page and size into an offset,    *)
(* validateOffsetAndLimit (notification.go) fits offset and limit to the   *)
(* number of rows counted.  Rows are numbered from 0, newest first.        *)
(***************************************************************************)
EXTENDS Integers

CONSTANTS
    MaxInt64,     \* the largest value of an int64
    MaxSize       \* the largest page, 100 in the code

ASSUME PagingAssumption ==
    /\ MaxInt64 \in Nat
    /\ MaxSize \in Nat \ {0}

Int64 == -MaxInt64 - 1 .. MaxInt64

\* int64 arithmetic wraps around
Wrap(n) == ((n + MaxInt64 + 1) % (2 * (MaxInt64 + 1))) - (MaxInt64 + 1)

SizeOf(size) == IF size < 1 THEN 1 ELSE IF size > MaxSize THEN MaxSize ELSE size

\* A plausible slip: the query's page taken as an index
PageIndexFromOne(page) == IF page < 1 THEN 1 ELSE page

PageIndex(page) == IF page < 1 THEN 0 ELSE page - 1

OffsetOf(page, size) == Wrap(PageIndex(page) * SizeOf(size))

\* An offset past the end becomes that of the last `limit' rows.
ValidOffset(count, offset, limit) ==
    LET inside == IF offset >= count THEN count - limit ELSE offset
    IN  IF inside < 0 THEN 0 ELSE inside

ValidLimit(count, offset, limit) ==
    IF Wrap(offset + limit) > count THEN count - offset ELSE limit

\* The rows a listing of `count' rows asks the database for.
ListingOf(count, page, size) ==
    LET limit  == SizeOf(size)
        offset == ValidOffset(count, OffsetOf(page, size), limit)
    IN  [offset |-> offset, limit |-> ValidLimit(count, offset, limit)]

RowsOf(count, page, size) ==
    LET listing == ListingOf(count, page, size)
    IN  listing.offset .. listing.offset + listing.limit - 1

-----------------------------------------------------------------------------
PagesOf(count, size) == 1 .. (count + SizeOf(size) - 1) \div SizeOf(size)

\* A client that reads page after page until it has `count' rows is given
\* each row once.
EachRowOnce(count, size) ==
    \A row \in 0 .. count - 1 :
        \E page \in PagesOf(count, size) :
            \A other \in PagesOf(count, size) :
                row \in RowsOf(count, other, size) <=> other = page

\* Whatever page is asked for, the listing lies inside the rows and has one.
ListingFits(count, page, size) ==
    /\ RowsOf(count, page, size) # {}
    /\ RowsOf(count, page, size) \subseteq 0 .. count - 1
=============================================================================
