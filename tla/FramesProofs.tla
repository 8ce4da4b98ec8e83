---------------------------- MODULE FramesProofs ----------------------------
(***************************************************************************)
(* What the loops over page tables leave, for every number of frames and   *)
(* every set of pages: the lemmas that the handlers of module Memory rest  *)
(* on.                                                                     *)
(***************************************************************************)
EXTENDS Frames, TLAPS, FiniteSetTheorems

----------------------------------------------------------------------------
(* The order of a loop.                                                    *)

(* rank numbers the members of G from 1 on, without gaps.                  *)
Ranks(rank, G) ==
  /\ rank \in [G -> 1 .. Cardinality(G)]
  /\ \A i, j \in G : rank[i] = rank[j] => i = j
  /\ \A k \in 1 .. Cardinality(G) : \E i \in G : rank[i] = k

(* A numbering that gives no number twice leaves none out.                 *)
LEMMA InjectiveRanks ==
  ASSUME NEW G, IsFiniteSet(G), NEW rank \in [G -> 1 .. Cardinality(G)],
         \A i, j \in G : rank[i] = rank[j] => i = j
  PROVE  Ranks(rank, G)
  <1>1. PICK n : n = Cardinality(G)
    OBVIOUS
  <1>2. n \in Nat
    BY <1>1, FS_CardinalityType
  <1>3. PICK T : T = 1 .. n
    OBVIOUS
  <1>4. IsFiniteSet(T) /\ Cardinality(T) = n
    BY <1>2, <1>3, FS_Interval
  <1>5. rank \in Injection(G, T)
    BY <1>1, <1>3 DEF Injection, IsInjective
  <1>6. rank \in Surjection(G, T)
    BY <1>1, <1>4, <1>5, FS_Injection
  <1>7. \A k \in T : \E i \in G : rank[i] = k
    BY <1>6 DEF Surjection
  <1> QED
    BY <1>1, <1>3, <1>7 DEF Ranks

LEMMA UpRanks ==
  ASSUME NEW G \in SUBSET Int, IsFiniteSet(G)
  PROVE  Ranks(Up(G), G)
  <1> DEFINE Below(x) == {y \in G : y <= x}
  <1>1. \A x \in G : IsFiniteSet(Below(x)) /\ Cardinality(Below(x)) \in 1 .. Cardinality(G)
    <2> TAKE x \in G
    <2>1. Below(x) \in SUBSET G /\ x \in Below(x)
      OBVIOUS
    <2>2. IsFiniteSet(Below(x)) /\ Cardinality(Below(x)) <= Cardinality(G)
      BY <2>1, FS_Subset
    <2>3. Cardinality(Below(x)) \in Nat /\ Cardinality(G) \in Nat
      BY <2>2, FS_CardinalityType
    <2>4. Cardinality(Below(x)) # 0
      BY <2>1, <2>2, FS_EmptySet
    <2> QED
      BY <2>2, <2>3, <2>4
  <1>2. \A x, y \in G : Cardinality(Below(x)) = Cardinality(Below(y)) => ~(x < y)
    <2> SUFFICES ASSUME NEW x \in G, NEW y \in G, x < y,
                        Cardinality(Below(x)) = Cardinality(Below(y))
                 PROVE  FALSE
      OBVIOUS
    <2>0. (\A z \in G : z <= x => z <= y) /\ y <= y /\ ~(y <= x)
      OBVIOUS
    <2>1. Below(x) \in SUBSET Below(y) /\ y \in Below(y) /\ y \notin Below(x)
      BY <2>0
    <2>2. Below(y) = Below(x)
      BY <1>1, <2>1, FS_Subset
    <2> QED
      BY <2>1, <2>2
  <1>3. \A x, y \in G : Cardinality(Below(x)) = Cardinality(Below(y)) => x = y
    BY <1>2
  <1> QED
    BY <1>1, <1>3, InjectiveRanks DEF Up

LEMMA DownRanks ==
  ASSUME NEW G \in SUBSET Int, IsFiniteSet(G)
  PROVE  Ranks(Down(G), G)
  <1> DEFINE Above(x) == {y \in G : y >= x}
  <1>1. \A x \in G : IsFiniteSet(Above(x)) /\ Cardinality(Above(x)) \in 1 .. Cardinality(G)
    <2> TAKE x \in G
    <2>1. Above(x) \in SUBSET G /\ x \in Above(x)
      OBVIOUS
    <2>2. IsFiniteSet(Above(x)) /\ Cardinality(Above(x)) <= Cardinality(G)
      BY <2>1, FS_Subset
    <2>3. Cardinality(Above(x)) \in Nat /\ Cardinality(G) \in Nat
      BY <2>2, FS_CardinalityType
    <2>4. Cardinality(Above(x)) # 0
      BY <2>1, <2>2, FS_EmptySet
    <2> QED
      BY <2>2, <2>3, <2>4
  <1>2. \A x, y \in G : Cardinality(Above(x)) = Cardinality(Above(y)) => ~(x < y)
    <2> SUFFICES ASSUME NEW x \in G, NEW y \in G, x < y,
                        Cardinality(Above(x)) = Cardinality(Above(y))
                 PROVE  FALSE
      OBVIOUS
    <2>0. (\A z \in G : z >= y => z >= x) /\ x >= x /\ ~(x >= y)
      OBVIOUS
    <2>1. Above(y) \in SUBSET Above(x) /\ x \in Above(x) /\ x \notin Above(y)
      BY <2>0
    <2>2. Above(x) = Above(y)
      BY <1>1, <2>1, FS_Subset
    <2> QED
      BY <2>1, <2>2
  <1>3. \A x, y \in G : Cardinality(Above(x)) = Cardinality(Above(y)) => x = y
    BY <1>2
  <1> QED
    BY <1>1, <1>3, InjectiveRanks DEF Down

(* Nth enumerates a set.                                                   *)
LEMMA NthIs ==
  ASSUME NEW S \in SUBSET Int, IsFiniteSet(S), NEW k \in 1 .. Cardinality(S)
  PROVE  Nth(S, k) \in S /\ Up(S)[Nth(S, k)] = k
  <1>1. \E x \in S : Up(S)[x] = k
    BY UpRanks DEF Ranks
  <1>2. \E x \in S : Cardinality({y \in S : y <= x}) = k
    BY <1>1 DEF Up
  <1>3. Nth(S, k) \in S /\ Cardinality({y \in S : y <= Nth(S, k)}) = k
    BY <1>2 DEF Nth
  <1> QED
    BY <1>3 DEF Up

(* A finite set has a largest member.                                      *)
LEMMA MaxIs ==
  ASSUME NEW S \in SUBSET Int, IsFiniteSet(S), S # {}
  PROVE  Max(S) \in S
  <1>1. Cardinality(S) \in 1 .. Cardinality(S)
    BY FS_EmptySet, FS_CardinalityType
  <1>2. PICK x \in S : Up(S)[x] = Cardinality(S)
    BY <1>1, NthIs
  <1>3. {y \in S : y <= x} = S
    <2>1. {y \in S : y <= x} \in SUBSET S /\ Cardinality({y \in S : y <= x}) = Cardinality(S)
      BY <1>2 DEF Up
    <2> QED
      BY <2>1, FS_Subset
  <1>4. \A y \in S : x >= y
    BY <1>3
  <1> QED
    BY <1>4 DEF Max

----------------------------------------------------------------------------
(* What a loop leaves.                                                     *)

LEMMA FrameFacts ==
  /\ FrameCount \in Nat \ {0} /\ PtLen \in Nat \ {0} /\ OrigBrk \in Nat \ {0}
  /\ StackBase \in Nat \ {0} /\ StackPages \in Nat \ {0}
  /\ FirstText \in Nat /\ FirstText < OrigBrk /\ OrigBrk < StackBase
  /\ StackBase + StackPages <= FrameCount
  /\ Invalid \notin Int /\ Invalid \notin Frame
  /\ Frame \in SUBSET Int
  BY FramesAssumption DEF Frame

LEMMA FreeFinite ==
  ASSUME NEW free \in SUBSET Frame
  PROVE  free \in SUBSET Int /\ IsFiniteSet(free) /\ Cardinality(free) \in Nat
  <1>1. IsFiniteSet(Frame)
    BY FrameFacts, FS_Interval DEF Frame
  <1>2. IsFiniteSet(free)
    BY <1>1, FS_Subset
  <1> QED
    BY <1>2, FrameFacts, FS_CardinalityType

Entry == Frame \cup {Invalid}

(* The entries of pt on N are frames of free, each its own.                *)
Fresh(pt, N, free) ==
  /\ \A page \in N : pt[page] \in free
  /\ \A i, j \in N : pt[i] = pt[j] => i = j

(* pt2 is pt with fresh frames on N.                                       *)
Filled(pt, pt2, N, free) ==
  /\ pt2 = [page \in DOMAIN pt |-> pt2[page]]
  /\ N \subseteq DOMAIN pt
  /\ Fresh(pt2, N, free)
  /\ \A page \in DOMAIN pt \ N : pt2[page] = pt[page]

LEMMA AllocGives ==
  ASSUME NEW free \in SUBSET Frame, NEW G, NEW rank, Ranks(rank, G),
         IsFiniteSet(G)
  PROVE  /\ \A page \in Served(free, rank) : FrameAlloc(free, rank[page]) \in free
         /\ \A i, j \in Served(free, rank) :
              FrameAlloc(free, rank[i]) = FrameAlloc(free, rank[j]) => i = j
         /\ Served(free, rank) \subseteq G
  <1>1. DOMAIN rank = G /\ Served(free, rank) \subseteq G
    BY DEF Ranks, Served
  <1>2. Cardinality(G) \in Nat /\ Cardinality(free) \in Nat
    BY FreeFinite, FS_CardinalityType
  <1>3. \A page \in Served(free, rank) : rank[page] \in 1 .. Cardinality(free)
    <2> TAKE page \in Served(free, rank)
    <2>1. rank[page] \in 1 .. Cardinality(G) /\ rank[page] <= Cardinality(free)
      BY <1>1 DEF Ranks, Served
    <2> QED
      BY <1>2, <2>1
  <1>4. \A page \in Served(free, rank) :
          /\ FrameAlloc(free, rank[page]) \in free
          /\ Up(free)[FrameAlloc(free, rank[page])] = rank[page]
    BY <1>3, FreeFinite, NthIs DEF FrameAlloc
  <1>5. \A i, j \in Served(free, rank) :
          FrameAlloc(free, rank[i]) = FrameAlloc(free, rank[j]) => i = j
    <2> SUFFICES ASSUME NEW i \in Served(free, rank), NEW j \in Served(free, rank),
                        FrameAlloc(free, rank[i]) = FrameAlloc(free, rank[j])
                 PROVE  i = j
      OBVIOUS
    <2>1. rank[i] = rank[j]
      BY <1>4
    <2> QED
      BY <1>1, <2>1 DEF Ranks
  <1> QED
    BY <1>1, <1>4, <1>5

(* A loop in the order rank over G gets to the pages of N and leaves pt2.  *)
Looped(pt, pt2, free, rank, N, G) ==
  /\ N \subseteq G
  /\ Filled(pt, pt2, N, free)
  /\ Taken(free, rank) = {pt2[page] : page \in N}
  /\ Taken(free, rank) \subseteq free
  /\ Fits(free, rank) <=> N = G

LEMMA MappedFills ==
  ASSUME NEW free \in SUBSET Frame, NEW G, NEW rank, Ranks(rank, G),
         IsFiniteSet(G), NEW pt, G \subseteq DOMAIN pt
  PROVE  Looped(pt, Mapped(pt, free, rank), free, rank, Served(free, rank), G)
  <1>0. PICK N, pt2 : N = Served(free, rank) /\ pt2 = Mapped(pt, free, rank)
    OBVIOUS
  <1>1. N \subseteq G /\ DOMAIN rank = G
    BY <1>0, AllocGives DEF Ranks
  <1>2. /\ pt2 = [page \in DOMAIN pt |-> pt2[page]]
        /\ \A page \in DOMAIN pt \ N : pt2[page] = pt[page]
    BY <1>0 DEF Mapped
  <1>3. \A page \in N : pt2[page] = FrameAlloc(free, rank[page])
    BY <1>0, <1>1 DEF Mapped
  <1>4. Fresh(pt2, N, free)
    BY <1>0, <1>3, AllocGives DEF Fresh
  <1>5. Taken(free, rank) = {pt2[page] : page \in N}
    BY <1>0, <1>3 DEF Taken
  <1>6. Taken(free, rank) \subseteq free
    BY <1>5, <1>4 DEF Fresh
  <1>7. Fits(free, rank) <=> N = G
    BY <1>0, <1>1 DEF Fits
  <1> QED
    BY <1>0, <1>1, <1>2, <1>4, <1>5, <1>6, <1>7 DEF Filled, Looped

----------------------------------------------------------------------------
(* Moving a break.                                                         *)

(* Before frames run out, a loop up an interval serves its lower pages.    *)
LEMMA ServedInterval ==
  ASSUME NEW free \in SUBSET Frame, NEW old \in Nat, NEW new \in Nat
  PROVE  Served(free, Up(old .. new - 1)) = (old .. new - 1) \cap Undone(free, old)
  <1>1. Cardinality(free) \in Nat
    BY FreeFinite
  <1>2. \A page \in old .. new - 1 : Up(old .. new - 1)[page] = page - old + 1
    <2> TAKE page \in old .. new - 1
    <2>1. page \in Int /\ old <= page /\ page <= new - 1
      OBVIOUS
    <2>2. {q \in old .. new - 1 : q <= page} = old .. page
      BY <2>1
    <2>3. Cardinality(old .. page) = page - old + 1
      BY <2>1, FS_Interval
    <2> QED
      BY <2>2, <2>3 DEF Up
  <1>3. DOMAIN Up(old .. new - 1) = old .. new - 1
    BY DEF Up
  <1>4. Served(free, Up(old .. new - 1)) =
          {page \in old .. new - 1 : page - old + 1 <= Cardinality(free)}
    BY <1>2, <1>3 DEF Served
  <1>5. \A page \in old .. new - 1 :
          page - old + 1 <= Cardinality(free) <=> page \in old .. old + Cardinality(free) - 1
    BY <1>1
  <1> QED
    BY <1>4, <1>5 DEF Undone

(* The three outcomes of MoveBreak: all the pages have frames, the pages   *)
(* are given back, or the frames ran out and nothing has been taken.       *)
BreakMoved(pt, allocated, old, new, m) ==
  \/ /\ m.ok /\ old <= new
     /\ Filled(pt, m.pt, old .. new - 1, Frame \ allocated)
     /\ m.allocated = allocated \cup {m.pt[page] : page \in old .. new - 1}
  \/ /\ m.ok /\ new < old
     /\ m.pt = Unmapped(pt, new .. old - 1)
     /\ m.allocated = allocated \ Held(pt, new .. old - 1)
  \/ /\ ~m.ok /\ old < new
     /\ \E U \in SUBSET (old .. new - 1) : m.pt = Unmapped(pt, U)
     /\ m.allocated = allocated

LEMMA MoveBreakGives ==
  ASSUME NEW allocated \in SUBSET Frame, NEW old \in Nat, NEW new \in Nat,
         NEW D, NEW pt \in [D -> Entry], old .. new - 1 \subseteq D,
         NEW m, m = MoveBreak(pt, allocated, old, new)
  PROVE  BreakMoved(pt, allocated, old, new, m) /\ DOMAIN m.pt = D
  <1>1. PICK free, G, rank, tried, N :
          /\ free = Frame \ allocated /\ G = old .. new - 1 /\ rank = Up(G)
          /\ tried = Mapped(pt, free, rank) /\ N = Served(free, rank)
    OBVIOUS
  <1>2. PICK dropped : dropped = IF Fits(free, rank) THEN new .. old - 1 ELSE Undone(free, old)
    OBVIOUS
  <1>3. /\ m.ok = Fits(free, rank)
        /\ m.pt = Unmapped(tried, dropped)
        /\ m.allocated = (allocated \cup Taken(free, rank)) \ Held(tried, dropped)
    BY <1>1, <1>2 DEF MoveBreak
  <1>4. free \in SUBSET Frame /\ G \in SUBSET Int /\ IsFiniteSet(G) /\ DOMAIN pt = D
    BY <1>1, FS_Interval
  <1>5. Ranks(rank, G)
    BY <1>1, <1>4, UpRanks
  <1>6. /\ N \subseteq G /\ Filled(pt, tried, N, free)
        /\ Taken(free, rank) = {tried[page] : page \in N}
        /\ Taken(free, rank) \subseteq free
        /\ Fits(free, rank) <=> N = G
    <2>1. G \subseteq DOMAIN pt
      BY <1>1, <1>4
    <2>2. Looped(pt, tried, free, rank, N, G)
      BY <1>1, <1>4, <1>5, <2>1, MappedFills
    <2> QED
      BY <2>2 DEF Looped
  <1>7. DOMAIN tried = D /\ tried = [page \in D |-> tried[page]]
    BY <1>1 DEF Mapped
  <1>8. DOMAIN m.pt = D
    BY <1>3, <1>7 DEF Unmapped
  <1>9. \A page \in N : tried[page] # Invalid
    BY <1>4, <1>6, FrameFacts DEF Filled, Fresh
  <1>10. CASE Fits(free, rank) /\ old <= new
    <2>0. new .. old - 1 = {}
      BY <1>10
    <2>1. dropped = {} /\ N = old .. new - 1
      BY <1>1, <1>2, <1>6, <1>10, <2>0
    <2>2. m.pt = tried /\ Held(tried, dropped) = {}
      BY <1>3, <1>7, <2>1 DEF Unmapped, Held
    <2>3. m.allocated = allocated \cup {m.pt[page] : page \in old .. new - 1}
      BY <1>3, <1>6, <2>1, <2>2
    <2>4. Filled(pt, m.pt, old .. new - 1, Frame \ allocated) /\ m.ok
      BY <1>1, <1>3, <1>6, <1>10, <2>1, <2>2
    <2> QED
      BY <1>8, <1>10, <2>3, <2>4 DEF BreakMoved
  <1>11. CASE Fits(free, rank) /\ new < old
    <2>1. G = {} /\ N = {} /\ dropped = new .. old - 1
      BY <1>1, <1>2, <1>6, <1>11
    <2>2. tried = pt /\ Taken(free, rank) = {}
      BY <1>1, <1>6, <2>1 DEF Mapped
    <2> QED
      BY <1>3, <1>8, <1>11, <2>1, <2>2 DEF BreakMoved
  <1>12. CASE ~Fits(free, rank)
    <2>1. Cardinality(free) \in Nat
      BY <1>4, FreeFinite
    <2>2. N = G \cap Undone(free, old) /\ N # G
      BY <1>1, <1>4, <1>6, <1>12, ServedInterval
    <2>3. old < new /\ Undone(free, old) \subseteq G
      <3>1. PICK page \in G : page \notin Undone(free, old)
        BY <2>2
      <3>2. page \in Int /\ old <= page /\ page <= new - 1
        BY <1>1, <3>1
      <3>3. old + Cardinality(free) - 1 < page
        BY <2>1, <3>1, <3>2 DEF Undone
      <3> QED
        BY <1>1, <2>1, <3>2, <3>3 DEF Undone
    <2>4. dropped = N
      BY <1>2, <1>12, <2>2, <2>3
    <2>5. m.pt = Unmapped(pt, N)
      <3>1. \A page \in D : page \notin N => tried[page] = pt[page]
        BY <1>4, <1>6 DEF Filled
      <3> QED
        BY <1>3, <1>4, <1>7, <2>4, <3>1 DEF Unmapped
    <2>6. Held(tried, dropped) = Taken(free, rank)
      <3>1. N \cap Valid(tried) = N
        BY <1>1, <1>4, <1>6, <1>7, <1>9 DEF Valid, Filled
      <3> QED
        BY <1>6, <2>4, <3>1 DEF Held
    <2>7. m.allocated = allocated
      <3>1. PICK T : T = Taken(free, rank)
        OBVIOUS
      <3>2. T \cap allocated = {} /\ m.allocated = (allocated \cup T) \ T
        BY <1>1, <1>3, <1>6, <2>6, <3>1
      <3> QED
        BY <3>2
    <2>8. N \in SUBSET (old .. new - 1)
      BY <1>1, <1>6
    <2> QED
      BY <1>3, <1>8, <1>12, <2>3, <2>5, <2>7, <2>8 DEF BreakMoved
  <1> QED
    BY <1>10, <1>11, <1>12

----------------------------------------------------------------------------
(* Types and frames of the tables a loop leaves.                           *)

LEMMA FilledType ==
  ASSUME NEW D, NEW pt \in [D -> Entry], NEW pt2, NEW N, NEW free \in SUBSET Frame,
         Filled(pt, pt2, N, free)
  PROVE  /\ pt2 \in [D -> Entry] /\ N \subseteq D
         /\ \A page \in N : pt2[page] \in free /\ pt2[page] # Invalid
         /\ \A page \in D \ N : pt2[page] = pt[page]
  BY FrameFacts DEF Filled, Fresh, Entry

LEMMA UnmappedType ==
  ASSUME NEW D, NEW pt \in [D -> Entry], NEW G
  PROVE  /\ Unmapped(pt, G) \in [D -> Entry]
         /\ \A page \in D : Unmapped(pt, G)[page] = IF page \in G THEN Invalid ELSE pt[page]
  BY DEF Unmapped, Entry

(* No frame is in two entries of pt among W.                               *)
Single(pt, W, none) ==
  \A i, j \in W : i # j /\ pt[i] # none => pt[i] # pt[j]

LEMMA HeldIs ==
  ASSUME NEW D, NEW pt \in [D -> Entry], NEW W \in SUBSET D
  PROVE  /\ \A f : f \in Held(pt, W) <=> \E page \in W : pt[page] # Invalid /\ f = pt[page]
         /\ Held(pt, W) \subseteq Frame
  BY DEF Held, Valid, Entry

(* Unmapping pages gives back what they held.                              *)
GivesBack(D, pt, W, G) ==
  /\ Single(Unmapped(pt, G), W, Invalid)
  /\ Held(Unmapped(pt, G), W) = Held(pt, W) \ Held(pt, G)
  /\ Held(Unmapped(pt, G), W \ G) = Held(pt, W) \ Held(pt, G)

LEMMA UnmappedHeld ==
  ASSUME NEW D, NEW pt \in [D -> Entry], NEW W \in SUBSET D, Single(pt, W, Invalid),
         NEW G \in SUBSET W
  PROVE  GivesBack(D, pt, W, G)
  <1>1. PICK pt2 : pt2 = Unmapped(pt, G)
    OBVIOUS
  <1>2. /\ pt2 \in [D -> Entry]
        /\ \A page \in D : pt2[page] = IF page \in G THEN Invalid ELSE pt[page]
    BY <1>1, UnmappedType
  <1>3. G \in SUBSET D /\ W \ G \in SUBSET D
    OBVIOUS
  <1>4. /\ \A f : f \in Held(pt, W) <=> \E page \in W : pt[page] # Invalid /\ f = pt[page]
        /\ \A f : f \in Held(pt, G) <=> \E page \in G : pt[page] # Invalid /\ f = pt[page]
        /\ \A f : f \in Held(pt2, W) <=> \E page \in W : pt2[page] # Invalid /\ f = pt2[page]
        /\ \A f : f \in Held(pt2, W \ G) <=>
                    \E page \in W \ G : pt2[page] # Invalid /\ f = pt2[page]
    BY <1>2, <1>3, HeldIs
  <1>5. Single(pt2, W, Invalid)
    BY <1>2 DEF Single
  <1>6. \A f : f \in Held(pt2, W) <=> f \in Held(pt2, W \ G)
    <2>1. \A page \in W : pt2[page] # Invalid => page \in W \ G
      BY <1>2
    <2>2. \A f : (\E page \in W : pt2[page] # Invalid /\ f = pt2[page])
                   <=> \E page \in W \ G : pt2[page] # Invalid /\ f = pt2[page]
      BY <2>1
    <2> QED
      BY <1>4, <2>2
  <1>7. \A f : f \in Held(pt2, W) => f \in Held(pt, W) /\ f \notin Held(pt, G)
    BY <1>2, <1>4 DEF Single
  <1>8. \A f : f \in Held(pt, W) /\ f \notin Held(pt, G) => f \in Held(pt2, W)
    BY <1>2, <1>4
  <1> QED
    BY <1>1, <1>5, <1>6, <1>7, <1>8 DEF GivesBack

(* Pages that are left alone.                                              *)
LEMMA SameHeld ==
  ASSUME NEW D, NEW pt \in [D -> Entry], NEW pt2 \in [D -> Entry], NEW W \in SUBSET D,
         \A page \in W : pt2[page] = pt[page]
  PROVE  /\ Held(pt2, W) = Held(pt, W)
         /\ Single(pt, W, Invalid) => Single(pt2, W, Invalid)
  <1>1. \A f : f \in Held(pt2, W) <=> f \in Held(pt, W)
    BY HeldIs
  <1> QED
    BY <1>1 DEF Single

LEMMA MovedType ==
  ASSUME NEW D, NEW pt \in [D -> Entry], NEW allocated \in SUBSET Frame,
         NEW old, NEW new, NEW m, BreakMoved(pt, allocated, old, new, m)
  PROVE  m.pt \in [D -> Entry] /\ m.allocated \in SUBSET Frame
  <1>1. Frame \ allocated \in SUBSET Frame
    OBVIOUS
  <1>2. CASE /\ m.ok /\ old <= new
             /\ Filled(pt, m.pt, old .. new - 1, Frame \ allocated)
             /\ m.allocated = allocated \cup {m.pt[page] : page \in old .. new - 1}
    <2>1. PICK N, free, pt2 : /\ N = old .. new - 1 /\ free = Frame \ allocated
                              /\ pt2 = m.pt /\ free \in SUBSET Frame
      OBVIOUS
    <2>2. Filled(pt, pt2, N, free)
      BY <1>2, <2>1
    <2>3. pt2 \in [D -> Entry] /\ \A page \in N : pt2[page] \in free
      <3>1. /\ \A page \in N : pt2[page] \in free
            /\ \A page \in D \ N : pt2[page] = pt[page]
            /\ pt2 = [page \in D |-> pt2[page]]
        BY <2>2 DEF Filled, Fresh
      <3>2. \A page \in D : pt2[page] \in Entry
        BY <2>1, <3>1 DEF Entry
      <3> QED
        BY <3>1, <3>2
    <2>4. m.pt \in [D -> Entry] /\ \A page \in N : m.pt[page] \in free
      BY <2>1, <2>3
    <2> QED
      BY <1>2, <2>1, <2>4
  <1>3. CASE /\ m.pt = Unmapped(pt, new .. old - 1)
             /\ m.allocated = allocated \ Held(pt, new .. old - 1)
    BY <1>3, UnmappedType
  <1>4. CASE /\ \E U \in SUBSET (old .. new - 1) : m.pt = Unmapped(pt, U)
             /\ m.allocated = allocated
    BY <1>4, UnmappedType
  <1> QED
    BY <1>2, <1>3, <1>4 DEF BreakMoved

----------------------------------------------------------------------------
(* Frames and those who hold them.                                         *)

(* The frames of A are divided among the owners of O: H[o] are the ones    *)
(* that o holds.                                                           *)
Divided(A, H, O) ==
  /\ \A o \in O : \A f \in H[o] : f \in A
  /\ \A f \in A : \E o \in O : f \in H[o]
  /\ \A o, x \in O : \A f \in H[o] : f \in H[x] => o = x

(* An owner exchanges the frames X for the frames Y, and frames that are   *)
(* new to him were free.                                                   *)
Exchanged(A, A2, X, Y) ==
  /\ \A f \in Y : f \in X \/ f \notin A
  /\ \A f : f \in A2 <=> (f \in A /\ f \notin X) \/ f \in Y

LEMMA ExchangeDivides ==
  ASSUME NEW O, NEW A, NEW H, Divided(A, H, O), NEW o \in O, NEW A2, NEW H2,
         Exchanged(A, A2, H[o], H2[o]),
         \A x \in O \ {o} : H2[x] = H[x]
  PROVE  Divided(A2, H2, O)
  <1>1. ASSUME NEW x \in O, NEW f \in H2[x]
        PROVE  f \in A2
    BY <1>1 DEF Exchanged, Divided
  <1>2. ASSUME NEW f \in A2
        PROVE  \E x \in O : f \in H2[x]
    <2>1. CASE f \in H2[o]
      BY <2>1
    <2>2. CASE f \in A /\ f \notin H[o]
      BY <2>2 DEF Divided
    <2> QED
      BY <1>2, <2>1, <2>2 DEF Exchanged
  <1>3. ASSUME NEW x \in O, NEW y \in O, NEW f \in H2[x], f \in H2[y]
        PROVE  x = y
    <2>1. CASE x # o /\ y # o
      BY <1>3, <2>1 DEF Divided
    <2>2. CASE x = o /\ y # o
      BY <1>3, <2>2 DEF Divided, Exchanged
    <2>3. CASE x # o /\ y = o
      BY <1>3, <2>3 DEF Divided, Exchanged
    <2> QED
      BY <2>1, <2>2, <2>3
  <1> QED
    BY <1>1, <1>2, <1>3 DEF Divided

LEMMA FramesAdded ==
  ASSUME NEW A, NEW X, \A f \in X : f \in A, NEW Y, \A f \in Y : f \notin A
  PROVE  Exchanged(A, A \cup Y, X, X \cup Y)
  BY DEF Exchanged

LEMMA FramesRemoved ==
  ASSUME NEW A, NEW X, \A f \in X : f \in A, NEW Y, \A f \in Y : f \in X
  PROVE  Exchanged(A, A \ Y, X, X \ Y)
  BY DEF Exchanged

LEMMA FramesKept ==
  ASSUME NEW A, NEW X, \A f \in X : f \in A
  PROVE  Exchanged(A, A, X, X)
  BY DEF Exchanged

LEMMA FramesReplaced ==
  ASSUME NEW A, NEW X, NEW Y, \A f \in Y : f \in X \/ f \notin A
  PROVE  Exchanged(A, (A \ X) \cup Y, X, Y)
  BY DEF Exchanged

(* W is a window of the table pt, and the frames it holds are in A; what   *)
(* becomes of them when the table is pt2 and the window W2.                *)
Window(D, pt, W, A) ==
  /\ pt \in [D -> Entry] /\ W \in SUBSET D
  /\ Single(pt, W, Invalid)
  /\ \A f \in Held(pt, W) : f \in A
Moved(pt, W, A, pt2, W2, A2) ==
  /\ Single(pt2, W2, Invalid)
  /\ Exchanged(A, A2, Held(pt, W), Held(pt2, W2))

(* The three ways a loop changes the frames of a window: it fills pages    *)
(* that are empty or outside, it unmaps pages, or it leaves them alone.    *)
LEMMA WindowFilled ==
  ASSUME NEW D, NEW pt, NEW W, NEW A, Window(D, pt, W, A),
         NEW pt2, NEW N, NEW free \in SUBSET Frame, Filled(pt, pt2, N, free),
         \A f \in free : f \notin A,
         \A page \in N \cap W : pt[page] = Invalid,
         NEW A2, A2 = A \cup {pt2[page] : page \in N}
  PROVE  Moved(pt, W, A, pt2, W \cup N, A2)
  <1>0. /\ pt \in [D -> Entry] /\ W \in SUBSET D /\ Single(pt, W, Invalid)
        /\ \A f \in Held(pt, W) : f \in A /\ f \notin free
    BY DEF Window
  <1>1. /\ pt2 \in [D -> Entry] /\ N \subseteq D /\ W \cup N \in SUBSET D
        /\ \A page \in N : pt2[page] \in free /\ pt2[page] # Invalid
        /\ \A page \in D \ N : pt2[page] = pt[page]
    BY <1>0, FilledType
  <1>2. \A i, j \in N : pt2[i] = pt2[j] => i = j
    BY DEF Filled, Fresh
  <1>3. /\ \A f : f \in Held(pt, W) <=> \E page \in W : pt[page] # Invalid /\ f = pt[page]
        /\ \A f : f \in Held(pt2, W \cup N) <=>
                    \E page \in W \cup N : pt2[page] # Invalid /\ f = pt2[page]
    BY <1>0, <1>1, HeldIs
  <1>4. \A page \in W : pt[page] # Invalid =>
          page \notin N /\ pt2[page] = pt[page] /\ pt[page] \notin free
    BY <1>0, <1>1, <1>3
  <1>5. Single(pt2, W \cup N, Invalid)
    <2> SUFFICES ASSUME NEW i \in W \cup N, NEW j \in W \cup N, i # j,
                        pt2[i] # Invalid, pt2[i] = pt2[j]
                 PROVE  FALSE
      BY DEF Single
    <2>1. CASE i \in N /\ j \in N
      BY <1>2, <2>1
    <2>2. CASE i \in N /\ j \notin N
      BY <1>1, <1>4, <2>2
    <2>3. CASE i \notin N /\ j \in N
      BY <1>1, <1>4, <2>3
    <2>4. CASE i \notin N /\ j \notin N
      BY <1>0, <1>1, <2>4 DEF Single
    <2> QED
      BY <2>1, <2>2, <2>3, <2>4
  <1>6. ASSUME NEW f
        PROVE  f \in Held(pt2, W \cup N) <=> f \in Held(pt, W) \/ \E page \in N : f = pt2[page]
    <2>1. ASSUME f \in Held(pt2, W \cup N)
          PROVE  f \in Held(pt, W) \/ \E page \in N : f = pt2[page]
      BY <1>1, <1>3, <2>1
    <2>2. ASSUME f \in Held(pt, W)
          PROVE  f \in Held(pt2, W \cup N)
      <3>1. PICK page \in W : pt[page] # Invalid /\ f = pt[page]
        BY <1>3, <2>2
      <3>2. page \in W \cup N /\ pt2[page] = f /\ pt2[page] # Invalid
        BY <1>4, <3>1
      <3> QED
        BY <1>3, <3>2
    <2>3. ASSUME NEW page \in N, f = pt2[page]
          PROVE  f \in Held(pt2, W \cup N)
      BY <1>1, <1>3, <2>3
    <2> QED
      BY <2>1, <2>2, <2>3
  <1>7. PICK X, Y : X = Held(pt, W) /\ Y = {pt2[page] : page \in N}
    OBVIOUS
  <1>8. Held(pt2, W \cup N) = X \cup Y
    BY <1>6, <1>7
  <1>9. (\A f \in X : f \in A) /\ \A f \in Y : f \notin A
    BY <1>0, <1>1, <1>7
  <1>10. Exchanged(A, A \cup Y, X, X \cup Y)
    BY <1>9, FramesAdded
  <1> QED
    BY <1>5, <1>7, <1>8, <1>10 DEF Moved

LEMMA WindowUnmapped ==
  ASSUME NEW D, NEW pt, NEW W, NEW A, Window(D, pt, W, A),
         NEW G \in SUBSET W, NEW pt2, pt2 = Unmapped(pt, G), NEW A2, A2 = A \ Held(pt, G)
  PROVE  Moved(pt, W, A, pt2, W, A2) /\ Moved(pt, W, A, pt2, W \ G, A2)
  <1>1. PICK X, Y : X = Held(pt, W) /\ Y = Held(pt, G)
    OBVIOUS
  <1>2. Single(pt2, W, Invalid) /\ Held(pt2, W) = X \ Y /\ Held(pt2, W \ G) = X \ Y
    <2>1. pt \in [D -> Entry] /\ W \in SUBSET D /\ Single(pt, W, Invalid)
      BY DEF Window
    <2>2. GivesBack(D, pt, W, G)
      BY <2>1, UnmappedHeld
    <2> QED
      BY <1>1, <2>2 DEF GivesBack
  <1>3. (\A f \in Y : f \in X) /\ (\A f \in X : f \in A)
    BY <1>1 DEF Held, Window
  <1>4. Exchanged(A, A \ Y, X, X \ Y)
    BY <1>3, FramesRemoved
  <1>5. Single(pt2, W \ G, Invalid)
    BY <1>2 DEF Single
  <1> QED
    BY <1>1, <1>2, <1>4, <1>5 DEF Moved

LEMMA WindowSame ==
  ASSUME NEW D, NEW pt, NEW W, NEW A, Window(D, pt, W, A),
         NEW pt2 \in [D -> Entry], \A page \in W : pt2[page] = pt[page]
  PROVE  Moved(pt, W, A, pt2, W, A)
  <1>1. Single(pt2, W, Invalid) /\ Held(pt2, W) = Held(pt, W)
    BY SameHeld DEF Window
  <1>2. Exchanged(A, A, Held(pt, W), Held(pt, W))
    BY FramesKept DEF Window
  <1> QED
    BY <1>1, <1>2 DEF Moved

=============================================================================
