-------------------------- MODULE ChunkPlanProofs --------------------------
(***************************************************************************)
(* Proofs about module ChunkPlan, for any width of the machine's integers, *)
(* any chunk size up to half of the largest one, any file size, any source *)
(* of ids and any limits of the storage nodes.                             *)
(*                                                                         *)
(* The count of the chunks is right or negative although its sum may wrap  *)
(* (CountChunksSound); sorting the ids, whatever they are, gives every     *)
(* chunk a place of its own (PlacesDistinct, PlacesComplete); so the       *)
(* client cuts the file into exactly the pieces that were planned.         *)
(***************************************************************************)
EXTENDS ChunkPlan, FiniteSetTheorems, TLAPS

PlanPC == {"idle", "panicked", "loop", "planned", "refused", "read"}

\* The chunks of a plan, and the ids they are sorted by.
PlanTypeOK ==
  /\ pc \in PlanPC
  /\ fileSize \in 0..MaxInt
  /\ chunkCount \in Int
  /\ now \in Nat
  /\ chunks \in Seq([id : Nat \X Nat, size : Int])
  /\ maxRecv \in Nat

\* No two chunks of a plan have the same id.
IdsDistinct == \A i, j \in DOMAIN chunks : chunks[i].id = chunks[j].id => i = j

\* The client stores a piece of the file under the chunk of its place.
StoredInPlace ==
  /\ DOMAIN stored \subseteq DOMAIN chunks
  /\ \A i \in DOMAIN stored : stored[i] = Place(i)

\* A storage node has accepted what is stored, and refused something else.
PiecesAccepted ==
  /\ \A i \in DOMAIN stored : Accepts(PieceSize(stored[i]))
  /\ pc = "refused" => \E k \in 1..chunkCount : ~Accepts(PieceSize(k))

\* The inductive invariant.
PlanInv ==
  /\ PlanTypeOK
  /\ PlanCoversFile
  /\ IdsDistinct
  /\ pc \in {"idle", "panicked"} => chunks = <<>>
  /\ pc \in {"idle", "panicked", "loop"} => stored = <<>>
  /\ pc \in {"planned", "refused", "read"} => Len(chunks) = chunkCount
  /\ StoredInPlace
  /\ pc = "read" => DOMAIN stored = DOMAIN chunks /\ contents = [k \in DOMAIN chunks |-> stored[k]]
  /\ PiecesAccepted

-----------------------------------------------------------------------------
(* Integers of the machine *)

\* The remainder of a number within two moduli of zero.
LEMMA Remainder ==
  ASSUME NEW k \in Nat \ {0}, NEW x \in Int
  PROVE  /\ 0 <= x /\ x < k => x % k = x
         /\ k <= x /\ x < 2 * k => x % k = x - k
         /\ -k <= x /\ x < 0 => x % k = x + k
<1>1. 0 <= x /\ x < k => x % k = x
  OBVIOUS
<1>2. k <= x /\ x < 2 * k => x % k = x - k
  OBVIOUS
<1>3. -k <= x /\ x < 0 => x % k = x + k
  OBVIOUS
<1> QED
  BY <1>1, <1>2, <1>3

\* A number that fits is kept, one that is too large or too small by less
\* than the range of the machine comes back at the other end.
LEMMA WrapValue ==
  ASSUME NEW x \in Int
  PROVE  /\ -MaxInt - 1 <= x /\ x <= MaxInt => Wrap(x) = x
         /\ MaxInt < x /\ x <= 3 * MaxInt + 2 => Wrap(x) = x - 2 * (MaxInt + 1)
         /\ -3 * (MaxInt + 1) <= x /\ x < -MaxInt - 1 => Wrap(x) = x + 2 * (MaxInt + 1)
<1> DEFINE k == 2 * (MaxInt + 1)
           y == x + MaxInt + 1
<1>1. MaxInt \in Nat
  BY ChunkPlanAssumption
<1>2. k \in Nat \ {0} /\ y \in Int /\ k = 2 * MaxInt + 2
  BY <1>1
<1>3. Wrap(x) = (y % k) - (MaxInt + 1)
  BY DEF Wrap
<1>4. /\ -MaxInt - 1 <= x /\ x <= MaxInt => 0 <= y /\ y < k
      /\ MaxInt < x /\ x <= 3 * MaxInt + 2 => k <= y /\ y < 2 * k
      /\ -3 * (MaxInt + 1) <= x /\ x < -MaxInt - 1 => -k <= y /\ y < 0
  BY <1>1
<1>5. /\ 0 <= y /\ y < k => y % k = y
      /\ k <= y /\ y < 2 * k => y % k = y - k
      /\ -k <= y /\ y < 0 => y % k = y + k
  <2> HIDE DEF k, y
  <2> QED
    BY <1>2, Remainder
<1>6. y - (MaxInt + 1) = x
  BY <1>1
<1> HIDE DEF y, k
<1> QED
  BY <1>1, <1>2, <1>3, <1>4, <1>5, <1>6

\* Division of naturals.
LEMMA DivisionValue ==
  ASSUME NEW x \in Nat, NEW y \in Nat \ {0}
  PROVE  /\ x \div y \in Nat
         /\ (x \div y) * y <= x
         /\ x < (x \div y) * y + y
         /\ x >= y => x \div y > 0
<1>1. x \div y \in Nat
  OBVIOUS
<1>2. x = y * (x \div y) + (x % y) /\ x % y \in 0..(y - 1)
  OBVIOUS
<1>3. (x \div y) * y <= x /\ x < (x \div y) * y + y
  BY <1>1, <1>2
<1>4. ASSUME x >= y
      PROVE  x \div y > 0
  <2>1. CASE x \div y = 0
    BY <1>3, <1>4, <2>1
  <2> QED
    BY <1>1, <2>1
<1> QED
  BY <1>1, <1>3, <1>4

\* The count of PrepareUpload is the number of pieces, or negative when the
\* sum wraps around: the chunk size is at most half of the largest integer.
LEMMA CountChunksSound ==
  ASSUME NEW size \in 1..MaxInt
  PROVE  LET n == CountChunks(size)
         IN /\ n \in Int
            /\ n < 0 \/ (n > 0 /\ (n - 1) * ChunkSize < size /\ size <= n * ChunkSize)
<1> DEFINE sum == size + ChunkSize
           n == CountChunks(size)
<1>1. /\ MaxInt \in Nat /\ ChunkSize \in Nat \ {0} /\ 2 * ChunkSize <= MaxInt + 3
      /\ sum \in Int /\ sum >= 2
  BY ChunkPlanAssumption
<1>2. ASSUME Wrap(Wrap(sum) - 1) = sum - 1
      PROVE  n \in Int /\ n > 0 /\ (n - 1) * ChunkSize < size /\ size <= n * ChunkSize
  <2>1. n = (sum - 1) \div ChunkSize
    BY <1>1, <1>2 DEF CountChunks, Quotient
  <2>2. sum - 1 \in Nat /\ sum - 1 >= ChunkSize
    BY <1>1
  <2>3. n \in Nat /\ n * ChunkSize <= sum - 1 /\ sum - 1 < n * ChunkSize + ChunkSize /\ n > 0
    <3> HIDE DEF sum, n
    <3> QED
      BY <1>1, <2>1, <2>2, DivisionValue
  <2>4. (n - 1) * ChunkSize = n * ChunkSize - ChunkSize
    <3> HIDE DEF n
    <3> QED
      BY <1>1, <2>3
  <2> QED
    BY <1>1, <2>3, <2>4
<1>3. CASE sum <= MaxInt
  <2>1. Wrap(sum) = sum
    BY <1>1, <1>3, WrapValue
  <2>2. Wrap(sum - 1) = sum - 1
    BY <1>1, <1>3, WrapValue
  <2> QED
    BY <1>2, <2>1, <2>2
<1>4. CASE sum = MaxInt + 1
  <2>1. Wrap(sum) = -MaxInt - 1
    BY <1>1, <1>4, WrapValue
  <2>2. Wrap(-MaxInt - 1 - 1) = MaxInt
    BY <1>1, WrapValue
  <2> QED
    BY <1>1, <1>2, <1>4, <2>1, <2>2
<1>5. CASE sum > MaxInt + 1
  <2> DEFINE low == sum - 2 * (MaxInt + 1) - 1
  <2>1. Wrap(sum) = sum - 2 * (MaxInt + 1)
    BY <1>1, <1>5, WrapValue
  <2>2. low \in Int /\ -MaxInt - 1 <= low /\ low < 0 /\ -low >= ChunkSize
    BY <1>1, <1>5
  <2>3. Wrap(low) = low
    BY <1>1, <2>2, WrapValue
  <2>4. n = -((-low) \div ChunkSize)
    BY <2>1, <2>2, <2>3 DEF CountChunks, Quotient
  <2>5. (-low) \div ChunkSize \in Nat /\ (-low) \div ChunkSize > 0
    <3> HIDE DEF low
    <3> QED
      BY <1>1, <2>2, DivisionValue
  <2>6. n \in Int /\ n < 0
    <3> HIDE DEF n, low
    <3> QED
      BY <2>4, <2>5
  <2> QED
    BY <2>6
<1> QED
  BY <1>1, <1>3, <1>4, <1>5

\* Multiplying keeps the order.
LEMMA ProductMonotone ==
  ASSUME NEW a \in Nat, NEW b \in Nat, NEW k \in Nat, a <= b
  PROVE  a * k \in Nat /\ a * k <= b * k
<1>1. (b - a) \in Nat /\ (b - a) * k >= 0
  OBVIOUS
<1>2. b * k = a * k + (b - a) * k
  OBVIOUS
<1> QED
  BY <1>1, <1>2

\* Neither the product nor the difference of the loop wraps: chunk i of the
\* plan has the size of piece i + 1 of the file.
LEMMA SizeOfChunkSound ==
  ASSUME PlanTypeOK, PlanCoversFile, pc = "loop", NEW i \in Nat, i < chunkCount
  PROVE  SizeOfChunk(i) = IF i + 1 < chunkCount THEN ChunkSize
                          ELSE fileSize - (chunkCount - 1) * ChunkSize
<1>1. /\ MaxInt \in Nat /\ ChunkSize \in Nat \ {0} /\ fileSize \in 0..MaxInt /\ chunkCount \in Nat
      /\ chunkCount - 1 \in Nat /\ (chunkCount - 1) * ChunkSize < fileSize
  BY ChunkPlanAssumption DEF PlanTypeOK, PlanCoversFile
<1>2. i * ChunkSize \in Nat /\ i * ChunkSize < fileSize
  <2>1. i <= chunkCount - 1
    BY <1>1 DEF PlanTypeOK
  <2>2. i * ChunkSize \in Nat /\ i * ChunkSize <= (chunkCount - 1) * ChunkSize
    BY <1>1, <2>1, ProductMonotone
  <2>3. (chunkCount - 1) * ChunkSize \in Nat
    BY <1>1
  <2> QED
    BY <1>1, <2>2, <2>3
<1>3. Wrap(i * ChunkSize) = i * ChunkSize
  BY <1>1, <1>2, WrapValue
<1>4. Wrap(fileSize - i * ChunkSize) = fileSize - i * ChunkSize
  BY <1>1, <1>2, WrapValue
<1>5. fileSize - i * ChunkSize > 0
  BY <1>1, <1>2
<1> QED
  BY <1>1, <1>3, <1>4, <1>5 DEF SizeOfChunk

\* No piece of the file is empty or longer than a chunk.
LEMMA PieceSizeBounds ==
  ASSUME PlanTypeOK, PlanCoversFile, pc \notin {"idle", "panicked"}, NEW k \in 1..chunkCount
  PROVE  PieceSize(k) \in 1..ChunkSize
<1>1. /\ ChunkSize \in Nat \ {0} /\ fileSize \in Nat /\ chunkCount \in Nat \ {0}
      /\ (chunkCount - 1) * ChunkSize < fileSize /\ fileSize <= chunkCount * ChunkSize
  BY ChunkPlanAssumption DEF PlanTypeOK, PlanCoversFile
<1>2. chunkCount * ChunkSize = (chunkCount - 1) * ChunkSize + ChunkSize
  BY <1>1
<1>3. (chunkCount - 1) * ChunkSize \in Int
  BY <1>1
<1> QED
  BY <1>1, <1>2, <1>3 DEF PieceSize

\* The first piece is the longest one, and the node takes it only if it takes
\* all the others.
LEMMA LongestDecides ==
  ASSUME PlanTypeOK, PlanCoversFile, pc \notin {"idle", "panicked"}
  PROVE  LET fits == LongestPiece <= MaxChunk /\ LongestPiece + Overhead <= maxRecv
         IN /\ fits <=> Accepts(PieceSize(1))
            /\ fits => \A k \in 1..chunkCount : Accepts(PieceSize(k))
<1>1. /\ ChunkSize \in Nat \ {0} /\ fileSize \in Nat \ {0} /\ chunkCount \in Nat \ {0}
      /\ (chunkCount - 1) * ChunkSize < fileSize /\ fileSize <= chunkCount * ChunkSize
      /\ MaxChunk \in Nat /\ Overhead \in Nat /\ maxRecv \in Nat
  BY ChunkPlanAssumption DEF PlanTypeOK, PlanCoversFile
<1>2. PieceSize(1) = LongestPiece
  <2>1. CASE chunkCount = 1
    BY <1>1, <2>1 DEF PieceSize, LongestPiece
  <2>2. CASE chunkCount > 1
    <3>1. 1 * ChunkSize <= (chunkCount - 1) * ChunkSize
      BY <1>1, <2>2, ProductMonotone
    <3>2. (chunkCount - 1) * ChunkSize \in Int
      BY <1>1
    <3> QED
      BY <1>1, <2>2, <3>1, <3>2 DEF PieceSize, LongestPiece
  <2> QED
    BY <1>1, <2>1, <2>2
<1>3. ASSUME NEW k \in 1..chunkCount
      PROVE  PieceSize(k) \in Nat \ {0} /\ PieceSize(k) <= LongestPiece
  <2>1. PieceSize(k) \in 1..ChunkSize
    BY PieceSizeBounds
  <2>2. CASE fileSize < ChunkSize
    <3>1. chunkCount = 1
      <4>1. CASE chunkCount > 1
        <5>1. 1 * ChunkSize <= (chunkCount - 1) * ChunkSize /\ (chunkCount - 1) * ChunkSize \in Int
          BY <1>1, <4>1, ProductMonotone
        <5> QED
          BY <1>1, <2>2, <5>1
      <4> QED
        BY <1>1, <4>1
    <3> QED
      BY <1>1, <1>2, <2>1, <3>1
  <2>3. CASE ~(fileSize < ChunkSize)
    BY <1>1, <2>1, <2>3 DEF LongestPiece
  <2> QED
    BY <2>2, <2>3
<1>4. LongestPiece \in Nat \ {0}
  BY <1>1 DEF LongestPiece
<1> QED
  BY <1>1, <1>2, <1>3, <1>4 DEF Accepts

-----------------------------------------------------------------------------
(* The places of the chunks in the sorted plan *)

\* The ids, a time and a random number, are totally ordered.
LEMMA IdsOrdered ==
  /\ \A a \in Nat \X Nat : ~Before(a, a)
  /\ \A a, b \in Nat \X Nat : a # b => Before(a, b) \/ Before(b, a)
  /\ \A a, b, c \in Nat \X Nat : Before(a, b) /\ Before(b, c) => Before(a, c)
<1>1. ASSUME NEW a \in Nat \X Nat
      PROVE  a = <<a[1], a[2]>> /\ a[1] \in Nat /\ a[2] \in Nat
  OBVIOUS
<1>2. \A a \in Nat \X Nat : ~Before(a, a)
  BY <1>1 DEF Before
<1>3. \A a, b \in Nat \X Nat : a # b => Before(a, b) \/ Before(b, a)
  <2> TAKE a, b \in Nat \X Nat
  <2>1. a[1] = b[1] /\ a[2] = b[2] => a = b
    BY <1>1
  <2> QED
    BY <1>1, <2>1 DEF Before
<1>4. \A a, b, c \in Nat \X Nat : Before(a, b) /\ Before(b, c) => Before(a, c)
  BY <1>1 DEF Before
<1> QED
  BY <1>2, <1>3, <1>4

\* The chunks of a plan are numbered and have ids.
LEMMA ChunksNumbered ==
  ASSUME PlanTypeOK
  PROVE  /\ DOMAIN chunks = 1..Len(chunks) /\ Len(chunks) \in Nat
         /\ \A j \in DOMAIN chunks : chunks[j].id \in Nat \X Nat
         /\ IsFiniteSet(1..Len(chunks)) /\ Cardinality(1..Len(chunks)) = Len(chunks)
<1> DEFINE S == [id : Nat \X Nat, size : Int]
<1>1. chunks \in Seq(S)
  BY DEF PlanTypeOK
<1>2. \A r \in S : r.id \in Nat \X Nat
  OBVIOUS
<1> HIDE DEF S
<1>3. DOMAIN chunks = 1..Len(chunks) /\ Len(chunks) \in Nat /\ \A j \in DOMAIN chunks : chunks[j] \in S
  BY <1>1
<1>4. \A j \in DOMAIN chunks : chunks[j].id \in Nat \X Nat
  BY <1>2, <1>3
<1>5. IsFiniteSet(1..Len(chunks)) /\ Cardinality(1..Len(chunks)) = Len(chunks)
  <2>1. 1 \in Int /\ Len(chunks) \in Int
    BY <1>3
  <2>2. /\ IsFiniteSet(1..Len(chunks))
        /\ Cardinality(1..Len(chunks)) = IF 1 > Len(chunks) THEN 0 ELSE Len(chunks) - 1 + 1
    BY <2>1, FS_Interval
  <2> QED
    BY <1>3, <2>2
<1> QED
  BY <1>3, <1>4, <1>5

\* The chunks with a smaller id.
Below(i) == {j \in DOMAIN chunks : Before(chunks[j].id, chunks[i].id)}

\* They can be counted, and are fewer than the chunks.
LEMMA BelowFinite ==
  ASSUME PlanTypeOK, NEW i \in DOMAIN chunks
  PROVE  /\ IsFiniteSet(Below(i)) /\ Cardinality(Below(i)) \in Nat
         /\ Place(i) = 1 + Cardinality(Below(i)) /\ Place(i) \in 1..Len(chunks)
<1>1. /\ DOMAIN chunks = 1..Len(chunks) /\ Len(chunks) \in Nat
      /\ \A j \in DOMAIN chunks : chunks[j].id \in Nat \X Nat
  BY ChunksNumbered
<1>2. IsFiniteSet(1..Len(chunks)) /\ Cardinality(1..Len(chunks)) = Len(chunks)
  BY ChunksNumbered
<1>3. Below(i) \in SUBSET (DOMAIN chunks) /\ i \notin Below(i)
  BY <1>1, IdsOrdered DEF Below
<1>4. /\ IsFiniteSet(Below(i)) /\ Cardinality(Below(i)) <= Len(chunks)
      /\ Cardinality(Below(i)) = Len(chunks) => Below(i) = DOMAIN chunks
  BY <1>1, <1>2, <1>3, FS_Subset
<1>5. Cardinality(Below(i)) \in Nat
  BY <1>4, FS_CardinalityType
<1>6. Place(i) = 1 + Cardinality(Below(i))
  BY DEF Place, Below
<1> QED
  BY <1>1, <1>3, <1>4, <1>5, <1>6

\* The places are in the order of the ids.
LEMMA PlacesFollowIds ==
  ASSUME PlanTypeOK, NEW p \in DOMAIN chunks, NEW q \in DOMAIN chunks, Before(chunks[p].id, chunks[q].id)
  PROVE  Place(p) < Place(q)
<1>1. \A k \in DOMAIN chunks : chunks[k].id \in Nat \X Nat
  BY ChunksNumbered
<1>2. Below(p) \in SUBSET Below(q) /\ p \in Below(q) /\ p \notin Below(p)
  BY <1>1, IdsOrdered DEF Below
<1>3. Below(p) # Below(q)
  BY <1>2
<1>4. Cardinality(Below(p)) <= Cardinality(Below(q)) /\ Cardinality(Below(q)) # Cardinality(Below(p))
  BY <1>2, <1>3, BelowFinite, FS_Subset
<1> QED
  BY <1>4, BelowFinite

\* Two chunks have two places.
LEMMA PlacesDistinct ==
  ASSUME PlanTypeOK, IdsDistinct, NEW i \in DOMAIN chunks, NEW j \in DOMAIN chunks, i # j
  PROVE  Place(i) # Place(j)
<1>1. \A k \in DOMAIN chunks : chunks[k].id \in Nat \X Nat
  BY ChunksNumbered
<1>2. ASSUME NEW p \in DOMAIN chunks, NEW q \in DOMAIN chunks, Before(chunks[p].id, chunks[q].id)
      PROVE  Place(p) # Place(q)
  BY <1>2, PlacesFollowIds, BelowFinite
<1>3. Before(chunks[i].id, chunks[j].id) \/ Before(chunks[j].id, chunks[i].id)
  BY <1>1, IdsOrdered DEF IdsDistinct
<1> QED
  BY <1>2, <1>3

\* Every place is taken.
LEMMA PlacesComplete ==
  ASSUME PlanTypeOK, IdsDistinct
  PROVE  {Place(i) : i \in DOMAIN chunks} = 1..Len(chunks)
<1> DEFINE D == 1..Len(chunks)
           place == [i \in D |-> Place(i)]
<1>1. DOMAIN chunks = D /\ Len(chunks) \in Nat
  BY ChunksNumbered
<1>2. IsFiniteSet(D)
  BY ChunksNumbered
<1>3. place \in [D -> D]
  BY <1>1, BelowFinite
<1>4. \A i, j \in D : place[i] = place[j] => i = j
  BY <1>1, PlacesDistinct
<1>5. place \in Injection(D, D)
  BY <1>3, <1>4 DEF Injection, IsInjective
<1>6. place \in Surjection(D, D)
  <2> HIDE DEF place, D
  <2> QED
    BY <1>2, <1>5, FS_Injection
<1>7. \A k \in D : \E i \in D : place[i] = k
  BY <1>6 DEF Surjection
<1> QED
  BY <1>1, <1>3, <1>7

-----------------------------------------------------------------------------
(* The steps *)

\* The request: the count, or the end of metad.
LEMMA PrepareUploadPlan ==
  ASSUME PlanInv, NEW size \in FileSizes, PrepareUpload(size)
  PROVE  PlanInv'
<1>1. /\ pc = "idle" /\ chunks = <<>> /\ stored = <<>>
      /\ fileSize' = size /\ chunkCount' = CountChunks(size)
      /\ pc' = IF CountChunks(size) < 0 THEN "panicked" ELSE "loop"
      /\ UNCHANGED <<chunks, now, stored, contents, maxRecv>>
  BY DEF PlanInv, PrepareUpload
<1>2. size \in 1..MaxInt
  BY ChunkPlanAssumption DEF PrepareUpload
<1> DEFINE n == CountChunks(size)
<1>3. n \in Int /\ (n < 0 \/ (n > 0 /\ (n - 1) * ChunkSize < size /\ size <= n * ChunkSize))
  BY <1>2, CountChunksSound
<1> HIDE DEF n
<1>4. DOMAIN chunks' = {} /\ Len(chunks') = 0
  BY <1>1
<1>5. PlanTypeOK'
  <2>1. chunks' \in Seq([id : Nat \X Nat, size : Int])
    BY <1>1 DEF PlanInv, PlanTypeOK
  <2>2. now' \in Nat /\ fileSize' \in 0..MaxInt /\ chunkCount' \in Int /\ maxRecv' \in Nat
    BY <1>1, <1>2, <1>3 DEF n, PlanInv, PlanTypeOK
  <2>3. pc' \in PlanPC
    BY <1>1 DEF PlanPC
  <2> QED
    BY <2>1, <2>2, <2>3 DEF PlanTypeOK
<1>6. PlanCoversFile'
  <2>1. chunkCount' = n /\ fileSize' = size /\ (pc' \notin {"idle", "panicked"} => ~(n < 0))
    BY <1>1 DEF n
  <2> QED
    BY <1>2, <1>3, <1>4, <2>1 DEF PlanCoversFile
<1>7. IdsDistinct' /\ StoredInPlace'
  BY <1>1, <1>4 DEF IdsDistinct, StoredInPlace
<1>8. pc' \in {"panicked", "loop"} /\ DOMAIN stored' = {}
  BY <1>1
<1>9. PiecesAccepted'
  BY <1>8 DEF PiecesAccepted
<1> QED
  BY <1>1, <1>5, <1>6, <1>7, <1>8, <1>9 DEF PlanInv

\* The loop: a new id and the size of the next piece.
LEMMA AppendChunkPlan ==
  ASSUME PlanInv, NEW id \in {now} \X Entropy, AppendChunk(id)
  PROVE  PlanInv'
<1> DEFINE S == [id : Nat \X Nat, size : Int]
           n == Len(chunks)
           new == [id |-> id, size |-> SizeOfChunk(n)]
<1>1. /\ pc = "loop" /\ stored = <<>> /\ n < chunkCount /\ chunks' = Append(chunks, new)
      /\ \A i \in DOMAIN chunks : chunks[i].id # id
      /\ UNCHANGED <<pc, fileSize, chunkCount, now, stored, contents, maxRecv>>
  BY DEF PlanInv, AppendChunk, NewRequestID
<1>2. PlanTypeOK /\ PlanCoversFile /\ IdsDistinct
  BY DEF PlanInv
<1>3. n \in Nat /\ DOMAIN chunks = 1..n /\ chunkCount \in Int /\ chunks \in Seq(S)
  BY <1>2, ChunksNumbered DEF PlanTypeOK
<1>4. SizeOfChunk(n) = IF n + 1 < chunkCount THEN ChunkSize ELSE fileSize - (chunkCount - 1) * ChunkSize
  BY <1>1, <1>2, <1>3, SizeOfChunkSound
<1>5. new \in S
  <2>1. id \in Nat \X Nat
    BY <1>2, ChunkPlanAssumption DEF PlanTypeOK
  <2>2. SizeOfChunk(n) \in Int
    BY <1>2, <1>4, ChunkPlanAssumption DEF PlanTypeOK
  <2> QED
    BY <2>1, <2>2
<1>6. new.id = id /\ new.size = SizeOfChunk(n)
  OBVIOUS
<1> HIDE DEF new, S
<1>7. /\ chunks' \in Seq(S) /\ Len(chunks') = n + 1 /\ DOMAIN chunks' = 1..(n + 1)
      /\ chunks'[n + 1] = new /\ \A i \in 1..n : chunks'[i] = chunks[i]
  BY <1>1, <1>3, <1>5
<1>8. PlanTypeOK'
  BY <1>1, <1>2, <1>7 DEF PlanTypeOK, S
<1>9. PlanCoversFile'
  <2>1. \A i \in 1..n : chunks[i].size = IF i < chunkCount THEN ChunkSize
                                         ELSE fileSize - (chunkCount - 1) * ChunkSize
    BY <1>1, <1>2, <1>3 DEF PlanCoversFile
  <2>2. \A i \in 1..(n + 1) : chunks'[i].size = IF i < chunkCount THEN ChunkSize
                                                ELSE fileSize - (chunkCount - 1) * ChunkSize
    <3> TAKE i \in 1..(n + 1)
    <3>1. CASE i = n + 1
      BY <1>4, <1>6, <1>7, <3>1
    <3>2. CASE i # n + 1
      <4>1. i \in 1..n
        BY <1>3, <3>2
      <4> QED
        BY <1>7, <2>1, <4>1
    <3> QED
      BY <3>1, <3>2
  <2>3. Len(chunks') <= chunkCount
    BY <1>1, <1>3, <1>7
  <2> QED
    BY <1>1, <1>2, <1>7, <2>2, <2>3 DEF PlanCoversFile
<1>10. IdsDistinct'
  <2> SUFFICES ASSUME NEW i \in 1..(n + 1), NEW j \in 1..(n + 1), chunks'[i].id = chunks'[j].id
               PROVE  i = j
    BY <1>7 DEF IdsDistinct
  <2>1. (i = n + 1 \/ i \in 1..n) /\ (j = n + 1 \/ j \in 1..n)
    BY <1>3
  <2> QED
    BY <1>1, <1>2, <1>3, <1>6, <1>7, <2>1 DEF IdsDistinct
<1>11. StoredInPlace' /\ PiecesAccepted'
  BY <1>1 DEF StoredInPlace, PiecesAccepted
<1> QED
  BY <1>1, <1>8, <1>9, <1>10, <1>11 DEF PlanInv

\* The clock, the answer and the reader leave the plan alone.
LEMMA PlanKept ==
  ASSUME PlanInv, UNCHANGED <<fileSize, chunkCount, chunks, stored, maxRecv>>, now' \in Nat,
         \/ pc' = pc /\ contents' = contents
         \/ pc = "loop" /\ pc' = "planned" /\ Len(chunks) = chunkCount
         \/ pc = "planned" /\ pc' = "read" /\ DOMAIN stored = DOMAIN chunks
            /\ contents' = [k \in DOMAIN chunks |-> stored[k]]
  PROVE  PlanInv'
<1>1. PlanTypeOK' /\ IdsDistinct' /\ PlanCoversFile'
  BY DEF PlanInv, PlanTypeOK, PlanPC, IdsDistinct, PlanCoversFile
<1>2. StoredInPlace'
  BY DEF PlanInv, StoredInPlace, Place
<1>3. PiecesAccepted'
  BY DEF PlanInv, PiecesAccepted, Accepts, PieceSize
<1> QED
  BY <1>1, <1>2, <1>3 DEF PlanInv

\* The client uploads the piece of a chunk's place.
LEMMA PutChunkPlan ==
  ASSUME PlanInv, NEW i \in DOMAIN chunks, PutChunk(i)
  PROVE  PlanInv'
<1>1. /\ pc = "planned" /\ Len(chunks) = chunkCount
      /\ UNCHANGED <<fileSize, chunkCount, chunks, now, contents, maxRecv>>
  BY DEF PutChunk, PlanInv
<1>2. PlanTypeOK /\ PlanCoversFile /\ StoredInPlace
  BY DEF PlanInv
<1>3. Place(i) \in 1..chunkCount
  BY <1>1, <1>2, BelowFinite
<1>4. pc' \in {"planned", "refused"}
  BY <1>1 DEF PutChunk
<1>5. \A k : (Accepts(PieceSize(k)))' <=> Accepts(PieceSize(k))
  BY <1>1 DEF Accepts, PieceSize
<1>6. PiecesAccepted'
  <2>1. \A j \in DOMAIN stored : Accepts(PieceSize(stored[j]))
    BY DEF PlanInv, PiecesAccepted
  <2>2. CASE Accepts(PieceSize(Place(i)))
    <3>1. /\ stored' = [j \in DOMAIN stored \cup {i} |-> IF j = i THEN Place(i) ELSE stored[j]]
          /\ pc' = "planned"
      BY <1>1, <2>2 DEF PutChunk
    <3>2. \A j \in DOMAIN stored' : Accepts(PieceSize(stored'[j]))
      BY <2>1, <2>2, <3>1
    <3>3. \A j \in DOMAIN stored' : (Accepts(PieceSize(stored[j])))'
      BY <1>1, <3>2 DEF Accepts, PieceSize
    <3> QED
      BY <3>1, <3>3 DEF PiecesAccepted
  <2>3. CASE ~Accepts(PieceSize(Place(i)))
    <3>1. stored' = stored /\ chunkCount' = chunkCount
      BY <1>1, <2>3 DEF PutChunk
    <3>2. \A j \in DOMAIN stored' : (Accepts(PieceSize(stored[j])))'
      BY <1>1, <2>1, <3>1 DEF Accepts, PieceSize
    <3>3. \E k \in 1..chunkCount' : (~Accepts(PieceSize(k)))'
      BY <1>3, <1>5, <2>3, <3>1
    <3> QED
      BY <3>2, <3>3 DEF PiecesAccepted
  <2> QED
    BY <2>2, <2>3
<1>7. StoredInPlace'
  <2>1. \A j \in DOMAIN chunks : Place(j)' = Place(j)
    BY <1>1 DEF Place
  <2>2. CASE stored' = stored
    BY <1>1, <1>2, <2>1, <2>2 DEF StoredInPlace
  <2>3. CASE stored' = [j \in DOMAIN stored \cup {i} |-> IF j = i THEN Place(i) ELSE stored[j]]
    BY <1>1, <1>2, <2>1, <2>3 DEF StoredInPlace
  <2> QED
    BY <2>2, <2>3 DEF PutChunk
<1>8. PlanTypeOK' /\ IdsDistinct' /\ PlanCoversFile'
  BY <1>1, <1>4 DEF PlanInv, PlanTypeOK, PlanPC, IdsDistinct, PlanCoversFile
<1> QED
  BY <1>1, <1>4, <1>6, <1>7, <1>8 DEF PlanInv

\* Every step keeps the invariant.
LEMMA PlanStep ==
  PlanInv /\ [PlanNext]_planVars => PlanInv'
<1> SUFFICES ASSUME PlanInv, [PlanNext]_planVars
             PROVE  PlanInv'
  OBVIOUS
<1>1. now \in Nat
  BY DEF PlanInv, PlanTypeOK
<1>2. CASE Tick \/ Reply \/ ReadFile
  BY <1>1, <1>2, PlanKept, ChunkPlanAssumption DEF Tick, Reply, ReadFile
<1>3. CASE UNCHANGED planVars
  BY <1>1, <1>3, PlanKept DEF planVars
<1> QED
  BY <1>2, <1>3, PrepareUploadPlan, AppendChunkPlan, PutChunkPlan DEF PlanNext

-----------------------------------------------------------------------------
(* Theorems *)

\* The inductive invariant holds.
THEOREM PlanInvariant == PlanSpec => []PlanInv
<1>1. PlanInit => PlanInv
  <2> SUFFICES ASSUME PlanInit
               PROVE  PlanInv
    OBVIOUS
  <2>1. chunks = <<>> /\ DOMAIN chunks = {} /\ Len(chunks) = 0 /\ DOMAIN stored = {}
    BY DEF PlanInit
  <2>2. PlanTypeOK
    BY <2>1, ChunkPlanAssumption DEF PlanInit, PlanTypeOK, PlanPC
  <2> QED
    BY <2>1, <2>2 DEF PlanInit, PlanInv, PlanCoversFile, IdsDistinct, StoredInPlace, PiecesAccepted
<1> QED
  BY <1>1, PlanStep, PTL DEF PlanSpec

\* PrepareUpload cuts a file of any size without gap or rest, or panics,
\* although the sum of the size and the chunk size may wrap.
THEOREM PlansCoverFiles == PlanSpec => []PlanCoversFile
<1>1. PlanInv => PlanCoversFile
  BY DEF PlanInv
<1> QED
  BY <1>1, PlanInvariant, PTL

\* Whatever ids the chunks got and whatever the clock did, no piece of the
\* file is lost or stored twice, and two pieces are the wrong way round only
\* if the clock did not go on between their ids.
THEOREM FileReadBack == PlanSpec => []ReadBackByTime
<1>1. PlanInv => ReadBackByTime
  <2> SUFFICES ASSUME PlanInv, pc = "read"
               PROVE  /\ {contents[k] : k \in DOMAIN contents} = 1..chunkCount
                      /\ \A i, j \in DOMAIN chunks :
                           i < j /\ chunks[i].id[1] < chunks[j].id[1] => contents[i] < contents[j]
    BY DEF ReadBackByTime
  <2>1. PlanTypeOK /\ IdsDistinct /\ StoredInPlace /\ Len(chunks) = chunkCount
    BY DEF PlanInv
  <2>2. DOMAIN contents = DOMAIN chunks /\ \A k \in DOMAIN chunks : contents[k] = Place(k)
    BY DEF PlanInv, StoredInPlace
  <2>3. {contents[k] : k \in DOMAIN contents} = {Place(k) : k \in DOMAIN chunks}
    BY <2>2
  <2>4. {contents[k] : k \in DOMAIN contents} = 1..chunkCount
    BY <2>1, <2>3, PlacesComplete
  <2>5. ASSUME NEW i \in DOMAIN chunks, NEW j \in DOMAIN chunks, chunks[i].id[1] < chunks[j].id[1]
        PROVE  contents[i] < contents[j]
    <3>1. Before(chunks[i].id, chunks[j].id)
      BY <2>5 DEF Before
    <3>2. Place(i) < Place(j)
      BY <2>1, <3>1, PlacesFollowIds
    <3> QED
      BY <2>2, <3>2
  <2> QED
    BY <2>4, <2>5
<1> QED
  BY <1>1, PlanInvariant, PTL

\* A file is refused exactly if its longest piece is over a limit of the
\* storage node, whichever piece is sent first: with a limit no larger than a
\* chunk, every file of a full chunk or more.
THEOREM UploadsDecidedBySize == PlanSpec => []SizeDecidesUpload
<1>1. PlanInv => SizeDecidesUpload
  <2> SUFFICES ASSUME PlanInv
               PROVE  SizeDecidesUpload
    OBVIOUS
  <2> DEFINE fits == LongestPiece <= MaxChunk /\ LongestPiece + Overhead <= maxRecv
  <2>1. /\ PlanTypeOK /\ PlanCoversFile /\ IdsDistinct /\ StoredInPlace /\ PiecesAccepted
        /\ pc \in {"planned", "refused", "read"} => Len(chunks) = chunkCount
        /\ pc = "read" => DOMAIN stored = DOMAIN chunks
    BY DEF PlanInv
  <2>2. pc \notin {"idle", "panicked"} =>
          /\ fits <=> Accepts(PieceSize(1))
          /\ fits => \A k \in 1..chunkCount : Accepts(PieceSize(k))
    BY <2>1, LongestDecides
  <2>3. ASSUME pc = "refused"
        PROVE  ~fits
    BY <2>1, <2>2, <2>3 DEF PiecesAccepted
  <2>4. ASSUME pc = "read"
        PROVE  fits
    <3>1. {Place(i) : i \in DOMAIN chunks} = 1..chunkCount
      BY <2>1, <2>4, PlacesComplete
    <3>2. chunkCount > 0 /\ chunkCount \in Int
      BY <2>1, <2>4 DEF PlanTypeOK, PlanCoversFile
    <3>3. 1 \in {Place(i) : i \in DOMAIN chunks}
      BY <3>1, <3>2
    <3>4. PICK i \in DOMAIN chunks : Place(i) = 1
      BY <3>3
    <3>5. stored[i] = 1 /\ Accepts(PieceSize(stored[i]))
      BY <2>1, <2>4, <3>4 DEF StoredInPlace, PiecesAccepted
    <3> QED
      BY <2>2, <2>4, <3>5
  <2> QED
    BY <2>3, <2>4 DEF SizeDecidesUpload
<1> QED
  BY <1>1, PlanInvariant, PTL

=============================================================================
