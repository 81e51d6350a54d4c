---------------------------- MODULE Heaps_proofs ----------------------------
(***************************************************************************)
(* Two heaps, for parameters of every size.  The allocator of shared memory*)
(* (GslShmem): its inductive invariant, what follows from it, and that it  *)
(* implements SharedHeap.  ACDB's heap of saved calibrations (AcdbHeap):   *)
(* its rotations keep a search tree and make it level again, so that       *)
(* look-ups and walks are right until a double rotation moves a subtree.   *)
(***************************************************************************)
EXTENDS GslShmem, AcdbHeap, FiniteSetTheorems, WellFoundedInduction, TLAPS

-----------------------------------------------------------------------------
(* The block table of a page (do_alloc_block, do_free_block): allocating and
   freeing blocks keeps the linked blocks a tiling of the page, without free
   neighbours, and never runs out of entries. *)

\* Tiled, stated of four functions: the bases, sizes, predecessors and successors
\* of the linked entries I.
Chain(I, B, S, P, N, frames) ==
  /\ 0 \in I /\ B[0] = 0
  /\ \A i \in I : S[i] >= 1 /\ B[i] >= 0 /\ B[i] + S[i] <= frames
  /\ \A i \in I : N[i] = None => B[i] + S[i] = frames
  /\ \A i \in I : N[i] # None => N[i] \in I /\ B[N[i]] = B[i] + S[i] /\ P[N[i]] = i
  /\ \A i \in I : P[i] = None => B[i] = 0
  /\ \A i \in I : P[i] # None => P[i] \in I /\ N[P[i]] = i
  /\ \A i, j \in I : i # j => B[i] + S[i] <= B[j] \/ B[j] + S[j] <= B[i]

Bs(blk) == [j \in InUse(blk) |-> blk[j].base]
Ss(blk) == [j \in InUse(blk) |-> blk[j].size]
Ps(blk) == [j \in InUse(blk) |-> blk[j].pred]
Ns(blk) == [j \in InUse(blk) |-> blk[j].succ]
ChainOf(blk, f) == Chain(InUse(blk), Bs(blk), Ss(blk), Ps(blk), Ns(blk), f)

\* A set of naturals that is not empty has a lowest element.
LEMMA LowestIn ==
  ASSUME NEW S \in SUBSET Nat, S # {}
  PROVE  Lowest(S) \in S /\ \A j \in S : Lowest(S) <= j
<1>1. IsWellFoundedOn({p \in Nat \X Nat : p[1] < p[2]}, Nat)
  BY NatLessThanWellFounded DEF OpToRel
<1>2. PICK l \in S : \A j \in S : ~ (<<j, l>> \in {p \in Nat \X Nat : p[1] < p[2]})
  BY <1>1, WFMin
<1>3. ASSUME NEW j \in S PROVE l <= j
  <2>1. <<j, l>> \in Nat \X Nat  OBVIOUS
  <2>2. ~ (j < l)  BY <1>2, <2>1
  <2> QED BY <2>2
<1> QED BY <1>3 DEF Lowest

\* The four fields of a table as functions on the entries that are linked.
LEMMA FieldTypes ==
  ASSUME NEW D, NEW blk \in [D -> Block]
  PROVE  /\ InUse(blk) \subseteq D
         /\ Bs(blk) \in [InUse(blk) -> Int] /\ Ss(blk) \in [InUse(blk) -> Int]
         /\ Ps(blk) \in [InUse(blk) -> Int] /\ Ns(blk) \in [InUse(blk) -> Int]
BY DEF InUse, Bs, Ss, Ps, Ns, Block

\* Tiled is about those four functions alone.
LEMMA TiledIsChain ==
  ASSUME NEW D, NEW blk \in [D -> Block], NEW f \in Int
  PROVE  Tiled(blk, f) <=> ChainOf(blk, f)
<1>1. ASSUME Tiled(blk, f) PROVE ChainOf(blk, f)
  BY <1>1 DEF Tiled, ChainOf, Chain, Bs, Ss, Ps, Ns
<1>2. ASSUME ChainOf(blk, f) PROVE Tiled(blk, f)
  BY <1>2 DEF Tiled, ChainOf, Chain, Bs, Ss, Ps, Ns
<1> QED BY <1>1, <1>2

\* LinkBack returns a table.
LEMMA LinkBackType ==
  ASSUME NEW D, NEW blk \in [D -> Block], NEW s, NEW i \in Int
  PROVE  LinkBack(blk, s, i) \in [D -> Block]
<1>1. ASSUME NEW j \in D PROVE [blk[j] EXCEPT !.pred = i] \in Block
  BY blk[j] \in Block DEF Block
<1> QED BY <1>1 DEF LinkBack

\* The fields of table t, which is blk after the split of block i.
IsSplit(t, D, blk, i, n, k) ==
  /\ t \in [D -> Block]
  /\ \A j \in D \ {k} :
       /\ t[j].base = blk[j].base
       /\ t[j].size = (IF j = i THEN n ELSE blk[j].size)
       /\ t[j].used = (IF j = i THEN TRUE ELSE blk[j].used)
       /\ t[j].succ = (IF j = i THEN k ELSE blk[j].succ)
       /\ j # i => t[j].pred = (IF j = blk[i].succ THEN k ELSE blk[j].pred)
  /\ t[i].pred = blk[i].pred
  /\ t[k].base = blk[i].base + n /\ t[k].size = blk[i].size - n
  /\ t[k].used = FALSE /\ t[k].pred = i /\ t[k].succ = blk[i].succ

\* What Split writes, entry by entry.
LEMMA SplitFields ==
  ASSUME NEW D \in SUBSET Int, NEW blk \in [D -> Block],
         NEW i \in D, NEW k \in D, k # i, NEW n \in Int
  PROVE  IsSplit(Split(blk, i, n, k), D, blk, i, n, k)
<1> DEFINE t == Split(blk, i, n, k)
           rest == [base |-> blk[i].base + n, size |-> blk[i].size - n,
                    used |-> FALSE, pred |-> i, succ |-> blk[i].succ]
<1>0. \A j \in D : blk[j] \in Block  OBVIOUS
<1>1. t \in [D -> Block]
  <2>1. LinkBack(blk, blk[i].succ, k) \in [D -> Block]
    BY <1>0, LinkBackType
  <2>2. [blk[i] EXCEPT !.size = n, !.used = TRUE, !.succ = k] \in Block
    BY <1>0 DEF Block
  <2>3. rest \in Block
    BY <1>0 DEF Block
  <2> QED BY <2>1, <2>2, <2>3 DEF Split
<1>2. ASSUME NEW j \in D \ {k}
      PROVE   /\ t[j].base = blk[j].base
              /\ t[j].size = (IF j = i THEN n ELSE blk[j].size)
              /\ t[j].used = (IF j = i THEN TRUE ELSE blk[j].used)
              /\ t[j].succ = (IF j = i THEN k ELSE blk[j].succ)
              /\ j # i => t[j].pred = (IF j = blk[i].succ THEN k ELSE blk[j].pred)
  <2>1. CASE j = i BY <1>0, <2>1 DEF Split, LinkBack, Block
  <2>2. CASE j # i BY <1>0, <2>2 DEF Split, LinkBack, Block
  <2> QED BY <2>1, <2>2
<1>3. t[k] = rest
  BY k # i DEF Split, LinkBack
<1>4. t[i].pred = blk[i].pred
  BY k # i, <1>0 DEF Split, LinkBack, Block
<1>5. /\ t[k].base = blk[i].base + n /\ t[k].size = blk[i].size - n
      /\ t[k].used = FALSE /\ t[k].pred = i /\ t[k].succ = blk[i].succ
  BY <1>3
<1> HIDE DEF t
<1> QED BY <1>1, <1>2, <1>4, <1>5 DEF IsSplit, t

\* A block divided in two leaves a chain.
LEMMA SplitChain ==
  ASSUME NEW frames \in Int, NEW I \in SUBSET Nat, NEW i \in I, NEW k \in Nat, k \notin I, NEW J, J = I \cup {k},
         NEW B \in [I -> Int], NEW S \in [I -> Int], NEW P \in [I -> Int], NEW N \in [I -> Int],
         NEW B2 \in [J -> Int], NEW S2 \in [J -> Int], NEW P2 \in [J -> Int], NEW N2 \in [J -> Int],
         Chain(I, B, S, P, N, frames),
         NEW n \in Int, 0 < n, n < S[i],
         \A j \in I : B2[j] = B[j] /\ S2[j] = (IF j = i THEN n ELSE S[j])
                      /\ N2[j] = (IF j = i THEN k ELSE N[j]) /\ P2[j] = (IF j = N[i] THEN k ELSE P[j]),
         B2[k] = B[i] + n, S2[k] = S[i] - n, P2[k] = i, N2[k] = N[i]
  PROVE  Chain(J, B2, S2, P2, N2, frames)
<1> USE DEF None
<1>1. 0 \in J /\ B2[0] = 0 BY DEF Chain
<1>2. \A j \in J : S2[j] >= 1 /\ B2[j] >= 0 /\ B2[j] + S2[j] <= frames BY DEF Chain
<1>3. \A j \in J : N2[j] = None => B2[j] + S2[j] = frames BY DEF Chain
<1>4. \A j \in J : N2[j] # None => N2[j] \in J /\ B2[N2[j]] = B2[j] + S2[j] /\ P2[N2[j]] = j BY DEF Chain
<1>5. \A j \in J : P2[j] = None => B2[j] = 0 BY DEF Chain
<1>6. \A j \in J : P2[j] # None => P2[j] \in J /\ N2[P2[j]] = j BY DEF Chain
<1>7. \A j, l \in J : j # l => B2[l] + S2[l] <= B2[j] \/ B2[j] + S2[j] <= B2[l] BY DEF Chain
<1> QED BY <1>1, <1>2, <1>3, <1>4, <1>5, <1>6, <1>7 DEF Chain

\* What splitting a block keeps when it takes entry k.
SplitKeeps(t, D, f, blk, k) ==
  t \in [D -> Block] /\ InUse(t) = InUse(blk) \cup {k} /\ Tiled(t, f)

\* Taking an entry k that is available for what is left of block i.
LEMMA SplitTiled ==
  ASSUME NEW D \in SUBSET Nat, NEW blk \in [D -> Block], NEW f \in Int, Tiled(blk, f),
         NEW i \in InUse(blk), NEW k \in D \ InUse(blk),
         NEW n \in Int, 0 < n, n < blk[i].size
  PROVE  SplitKeeps(Split(blk, i, n, k), D, f, blk, k)
<1> DEFINE t == Split(blk, i, n, k)
           I == InUse(blk)
           J == I \cup {k}
<1>1. /\ I \subseteq D /\ i \in D /\ k # i /\ blk[k].base = None /\ D \subseteq Int
      /\ blk[i].succ # k
  BY DEF InUse, Tiled, None
<1>a. IsSplit(t, D, blk, i, n, k)
  BY <1>1, SplitFields
<1> HIDE DEF t
<1>b. blk[i].succ # i
  <2>1. blk[i].base \in Int /\ blk[i].size \in Int  BY <1>1 DEF Block
  <2>2. blk[i].size >= 1 /\ (blk[i].succ # None => blk[blk[i].succ].base = blk[i].base + blk[i].size)
    BY DEF Tiled
  <2> QED BY <1>1, <2>1, <2>2 DEF None
<1>2. /\ t \in [D -> Block]
      /\ \A j \in I : 
              /\ t[j].base = blk[j].base
              /\ t[j].size = (IF j = i THEN n ELSE blk[j].size)
              /\ t[j].succ = (IF j = i THEN k ELSE blk[j].succ)
              /\ t[j].pred = (IF j = blk[i].succ THEN k ELSE blk[j].pred)
      /\ t[k].base = blk[i].base + n /\ t[k].size = blk[i].size - n
      /\ t[k].pred = i /\ t[k].succ = blk[i].succ
  <2>1. \A j \in I : j \in D \ {k}  BY <1>1
  <2> QED BY <1>a, <1>b, <2>1 DEF IsSplit
<1>3. blk[i].base >= 0 /\ ChainOf(blk, f)  BY TiledIsChain DEF Tiled
<1>4. InUse(t) = J
  <2>1. t[k].base # None  BY <1>1, <1>2, <1>3 DEF Block, None
  <2>2. \A j \in D \ {k} : t[j].base = blk[j].base
    BY <1>a DEF IsSplit
  <2> QED BY <1>1, <1>2, <2>1, <2>2 DEF InUse
<1>5. /\ Bs(t) \in [J -> Int] /\ Ss(t) \in [J -> Int] /\ Ps(t) \in [J -> Int] /\ Ns(t) \in [J -> Int]
      /\ Bs(blk) \in [I -> Int] /\ Ss(blk) \in [I -> Int] /\ Ps(blk) \in [I -> Int] /\ Ns(blk) \in [I -> Int]
  BY <1>2, <1>4, FieldTypes
<1>6. \A j \in I : /\ Bs(t)[j] = Bs(blk)[j] /\ Ss(t)[j] = (IF j = i THEN n ELSE Ss(blk)[j])
                   /\ Ns(t)[j] = (IF j = i THEN k ELSE Ns(blk)[j])
                   /\ Ps(t)[j] = (IF j = Ns(blk)[i] THEN k ELSE Ps(blk)[j])
  BY <1>2, <1>4 DEF Bs, Ss, Ps, Ns
<1>7. /\ Bs(t)[k] = Bs(blk)[i] + n /\ Ss(t)[k] = Ss(blk)[i] - n
      /\ Ps(t)[k] = i /\ Ns(t)[k] = Ns(blk)[i] /\ n < Ss(blk)[i]
  BY <1>2, <1>4 DEF Bs, Ss, Ps, Ns
<1>8. ChainOf(t, f)
  BY <1>1, <1>3, <1>4, <1>5, <1>6, <1>7, SplitChain DEF ChainOf
<1>9. Tiled(t, f)  BY <1>2, <1>4, <1>8, TiledIsChain
<1> QED BY <1>2, <1>4, <1>9 DEF SplitKeeps, t

\* The links of a table before and after block k becomes part of block i.
AbsorbsLinks(I, i, k, B, S, P, N, B2, S2, P2, N2) ==
  \A j \in I \ {k} :
    /\ B2[j] = B[j] /\ S2[j] = (IF j = i THEN S[i] + S[k] ELSE S[j])
    /\ N2[j] = (IF j = i THEN N[k] ELSE N[j]) /\ P2[j] = (IF j = N[k] THEN i ELSE P[j])

\* A block that becomes part of its predecessor leaves a chain.
LEMMA AbsorbChain ==
  ASSUME NEW frames \in Int, NEW I \in SUBSET Nat, NEW i \in I, NEW k \in I, k # None,
         NEW B \in [I -> Int], NEW S \in [I -> Int], NEW P \in [I -> Int], NEW N \in [I -> Int],
         NEW J, J = I \ {k},
         NEW B2 \in [J -> Int], NEW S2 \in [J -> Int],
         NEW P2 \in [J -> Int], NEW N2 \in [J -> Int],
         N[i] = k, Chain(I, B, S, P, N, frames),
         AbsorbsLinks(I, i, k, B, S, P, N, B2, S2, P2, N2)
  PROVE  Chain(J, B2, S2, P2, N2, frames)
<1> USE DEF AbsorbsLinks
<1> USE DEF None
<1>0. i # k /\ P[k] = i /\ B[k] = B[i] + S[i] /\ k # 0 BY DEF Chain
<1>1. 0 \in J /\ B2[0] = 0 BY <1>0 DEF Chain
<1>2. \A j \in J : S2[j] >= 1 /\ B2[j] >= 0 /\ B2[j] + S2[j] <= frames BY <1>0 DEF Chain
<1>3. \A j \in J : N2[j] = None => B2[j] + S2[j] = frames BY <1>0 DEF Chain
<1>4. \A j \in J : N2[j] # None => N2[j] \in J /\ B2[N2[j]] = B2[j] + S2[j] /\ P2[N2[j]] = j BY <1>0 DEF Chain
<1>5. \A j \in J : P2[j] = None => B2[j] = 0 BY <1>0 DEF Chain
<1>6. \A j \in J : P2[j] # None => P2[j] \in J /\ N2[P2[j]] = j BY <1>0 DEF Chain
<1>7. \A j, l \in J : j # l => B2[j] + S2[j] <= B2[l] \/ B2[l] + S2[l] <= B2[j]
  <2>1. \A j \in J : B2[j] = B[j] /\ (j # i => S2[j] = S[j]) OBVIOUS
  <2>2. S2[i] = S[i] + S[k] BY <1>0
  <2>3. \A j \in J : j # i => B[j] + S[j] <= B[i] \/ B[i] + S[i] + S[k] <= B[j] BY <1>0 DEF Chain
  <2> QED BY <1>0, <2>1, <2>2, <2>3 DEF Chain
<1> QED BY <1>1, <1>2, <1>3, <1>4, <1>5, <1>6, <1>7 DEF Chain

\* The fields of table t, which is blk with block k made part of block i.
IsAbsorbed(t, D, blk, i, k) ==
  /\ t \in [D -> Block]
  /\ \A j \in D \ {k} :
       /\ t[j].base = blk[j].base
       /\ t[j].size = (IF j = i THEN blk[i].size + blk[k].size ELSE blk[j].size)
       /\ t[j].used = blk[j].used
       /\ t[j].succ = (IF j = i THEN blk[k].succ ELSE blk[j].succ)
       /\ j # i => t[j].pred = (IF j = blk[k].succ THEN i ELSE blk[j].pred)
  /\ t[i].pred = blk[i].pred
  /\ t[k].base = None

\* What Absorb writes, entry by entry.
LEMMA AbsorbFields ==
  ASSUME NEW D \in SUBSET Int, NEW blk \in [D -> Block],
         NEW i \in D, NEW k \in D, k # i
  PROVE  IsAbsorbed(Absorb(blk, i, k), D, blk, i, k)
<1> DEFINE t == Absorb(blk, i, k)
<1>0. \A j \in D : blk[j] \in Block  OBVIOUS
<1>1. t \in [D -> Block]
  <2>1. LinkBack(blk, blk[k].succ, i) \in [D -> Block]
    BY <1>0, LinkBackType
  <2>2. [blk[i] EXCEPT !.size = @ + blk[k].size, !.succ = blk[k].succ] \in Block
    <3>1. blk[i] \in Block /\ blk[i].size + blk[k].size \in Int /\ blk[k].succ \in Int
      BY <1>0 DEF Block
    <3> QED BY <3>1 DEF Block
  <2>3. Available \in Block
    BY DEF Block, Available, None
  <2> QED BY <2>1, <2>2, <2>3 DEF Absorb
<1>2. ASSUME NEW j \in D \ {k}
      PROVE   /\ t[j].base = blk[j].base
              /\ t[j].size = (IF j = i THEN blk[i].size + blk[k].size ELSE blk[j].size)
              /\ t[j].used = blk[j].used
              /\ t[j].succ = (IF j = i THEN blk[k].succ ELSE blk[j].succ)
              /\ j # i => t[j].pred = (IF j = blk[k].succ THEN i ELSE blk[j].pred)
  <2>1. CASE j = i BY <1>0, <2>1 DEF Absorb, LinkBack, Block
  <2>2. CASE j # i BY <1>0, <2>2 DEF Absorb, LinkBack, Block
  <2> QED BY <2>1, <2>2
<1>3. t[k].base = None
  BY k # i DEF Absorb, LinkBack, Available
<1>4. t[i].pred = blk[i].pred
  BY k # i, <1>0 DEF Absorb, LinkBack, Block
<1> HIDE DEF t
<1> QED BY <1>1, <1>2, <1>3, <1>4 DEF IsAbsorbed, t

\* What the merge of block i with its successor k keeps.
MergeKeeps(t, D, f, blk, i, k) ==
  /\ k \in InUse(blk) /\ k # i
  /\ t \in [D -> Block] /\ Tiled(t, f)
  /\ InUse(t) = InUse(blk) \ {k}
  /\ \A j \in InUse(t) : t[j].used = blk[j].used /\ t[j].base = blk[j].base
  /\ \A j \in InUse(t) \ {i} : t[j].size = blk[j].size /\ t[j].succ = blk[j].succ
  /\ t[i].succ = blk[k].succ

\* Absorbing the successor of a block leaves the page tiled.
LEMMA AbsorbTiled ==
  ASSUME NEW D \in SUBSET Nat, NEW blk \in [D -> Block], NEW f \in Int, Tiled(blk, f),
         NEW i \in InUse(blk), NEW k, k = blk[i].succ, k # None
  PROVE  MergeKeeps(Absorb(blk, i, k), D, f, blk, i, k)
<1> DEFINE t == Absorb(blk, i, k)
           I == InUse(blk)
           J == I \ {k}
<1>1. /\ I \subseteq D /\ i \in D /\ D \subseteq Int /\ k \in I /\ k \in D
  BY DEF InUse, Tiled
<1>2. k # i
    <3>1. blk[i].base \in Int /\ blk[i].size \in Int  BY <1>1 DEF Block
    <3>2. blk[i].size >= 1 /\ (blk[i].succ # None => blk[blk[i].succ].base = blk[i].base + blk[i].size)
      BY DEF Tiled
    <3> QED BY <1>1, <3>1, <3>2
<1>3. ChainOf(blk, f)  BY TiledIsChain
<1>4. IsAbsorbed(t, D, blk, i, k)
  BY <1>1, <1>2, AbsorbFields
<1> HIDE DEF t
<1>5. InUse(t) = J /\ t \in [D -> Block]
  <2>1. \A j \in D \ {k} : t[j].base = blk[j].base  BY <1>4 DEF IsAbsorbed
  <2>2. t \in [D -> Block] /\ t[k].base = None  BY <1>4 DEF IsAbsorbed
  <2> QED BY <1>1, <2>1, <2>2 DEF InUse
<1>6. /\ Bs(t) \in [J -> Int] /\ Ss(t) \in [J -> Int] /\ Ps(t) \in [J -> Int] /\ Ns(t) \in [J -> Int]
      /\ Bs(blk) \in [I -> Int] /\ Ss(blk) \in [I -> Int] /\ Ps(blk) \in [I -> Int] /\ Ns(blk) \in [I -> Int]
  BY <1>5, FieldTypes
<1>7. blk[k].succ # i
  <2>1. blk[i].base \in Int /\ blk[i].size \in Int /\ blk[k].base \in Int /\ blk[k].size \in Int
    BY <1>1 DEF Block
  <2>2. /\ blk[i].size >= 1 /\ blk[k].size >= 1 /\ blk[k].base = blk[i].base + blk[i].size
        /\ (blk[k].succ # None => blk[blk[k].succ].base = blk[k].base + blk[k].size)
    BY <1>1 DEF Tiled
  <2> QED BY <1>1, <2>1, <2>2 DEF None
<1>8. \A j \in J : /\ Bs(t)[j] = Bs(blk)[j] /\ Ss(t)[j] = (IF j = i THEN Ss(blk)[i] + Ss(blk)[k] ELSE Ss(blk)[j])
                   /\ Ns(t)[j] = (IF j = i THEN Ns(blk)[k] ELSE Ns(blk)[j])
                   /\ Ps(t)[j] = (IF j = Ns(blk)[k] THEN i ELSE Ps(blk)[j])
  BY <1>1, <1>2, <1>4, <1>5, <1>7 DEF IsAbsorbed, Bs, Ss, Ps, Ns
<1>9. Ns(blk)[i] = k  BY DEF Ns
<1>a. \A j \in I : j \in D /\ j \in Nat  BY <1>1
<1>10. ChainOf(t, f)
  <2>1. Chain(I, Bs(blk), Ss(blk), Ps(blk), Ns(blk), f)  BY <1>3 DEF ChainOf
  <2>2. I \in SUBSET Nat /\ k \in I /\ k # None  BY <1>1, <1>a
  <2>3. AbsorbsLinks(I, i, k, Bs(blk), Ss(blk), Ps(blk), Ns(blk), Bs(t), Ss(t), Ps(t), Ns(t))
    BY <1>8 DEF AbsorbsLinks
  <2>4. Chain(J, Bs(t), Ss(t), Ps(t), Ns(t), f)
    BY <1>6, <1>9, <2>1, <2>2, <2>3, AbsorbChain
  <2> QED BY <1>5, <2>4 DEF ChainOf
<1>11. Tiled(t, f)  BY <1>5, <1>10, TiledIsChain
<1>12. \A j \in InUse(t) : j \in D \ {k}  BY <1>1, <1>5
<1>13. i \in D \ {k}  BY <1>1, <1>2
<1>14. /\ \A j \in InUse(t) : t[j].used = blk[j].used /\ t[j].base = blk[j].base
       /\ \A j \in InUse(t) \ {i} : t[j].size = blk[j].size /\ t[j].succ = blk[j].succ
       /\ t[i].succ = blk[k].succ
  BY <1>4, <1>12, <1>13 DEF IsAbsorbed
<1> QED BY <1>1, <1>2, <1>5, <1>11, <1>14 DEF MergeKeeps, t

\* As many entries as frames are enough: whenever something is left over, an entry
\* is available for it.
LEMMA EntryAvailable ==
  ASSUME NEW f \in Nat, NEW blk \in [0 .. f - 1 -> Block], Tiled(blk, f),
         NEW i \in InUse(blk), blk[i].size > 1
  PROVE  InUse(blk) # 0 .. f - 1
<1> SUFFICES ASSUME InUse(blk) = 0 .. f - 1 PROVE FALSE
  OBVIOUS
<1> DEFINE S == 0 .. f - 1
           T == S \ {blk[i].base + 1}
           g == [j \in S |-> blk[j].base]
<1>1. \A j \in S : blk[j].base \in Int /\ blk[j].size \in Int
  BY DEF Block
<1>2. \A j \in S : 0 <= blk[j].base /\ 1 <= blk[j].size /\ blk[j].base + blk[j].size <= f
  BY DEF Tiled
<1>3. \A j, l \in S : j # l => \/ blk[j].base + blk[j].size <= blk[l].base
                               \/ blk[l].base + blk[l].size <= blk[j].base
  BY DEF Tiled
<1>4. IsFiniteSet(S) /\ Cardinality(S) = f
  BY FS_Interval
<1>5. IsFiniteSet(T) /\ Cardinality(T) = f - 1
  <2>1. blk[i].base + 1 \in S
    <3>1. i \in S  OBVIOUS
    <3> QED BY <1>1, <1>2, <3>1
  <2>2. IsFiniteSet(S \ {blk[i].base + 1})
        /\ Cardinality(S \ {blk[i].base + 1}) = Cardinality(S) - 1
    <3> HIDE DEF S
    <3> QED BY <1>4, <2>1, FS_RemoveElement
  <2> QED BY <1>4, <2>2
<1>6. g \in [S -> T]
  <2>1. ASSUME NEW j \in S PROVE blk[j].base \in S /\ blk[j].base # blk[i].base + 1
    <3>1. i \in S /\ blk[j].base \in Int /\ blk[j].size \in Int
          /\ blk[i].base \in Int /\ blk[i].size \in Int /\ blk[i].size > 1
      BY <1>1
    <3>2. blk[j].base \in S  BY <1>2, <3>1
    <3>3. CASE j = i  BY <3>1, <3>2, <3>3
    <3>4. CASE j # i
      <4>1. \/ blk[j].base + blk[j].size <= blk[i].base \/ blk[i].base + blk[i].size <= blk[j].base
        BY <1>3, <3>1, <3>4
      <4>2. 1 <= blk[j].size  BY <1>2
      <4> QED BY <3>1, <3>2, <4>1, <4>2
    <3> QED BY <3>3, <3>4
  <2> QED BY <2>1
<1>7. PICK x \in S, y \in S : x # y /\ g[x] = g[y]
  <2>1. Cardinality(T) < Cardinality(S)  BY <1>4, <1>5
  <2> HIDE DEF S, T, g
  <2> QED BY <1>4, <1>5, <1>6, <2>1, FS_PigeonHole
<1>8. blk[x].base = blk[y].base /\ x # y  BY <1>7
<1>9. /\ blk[x].base \in Int /\ blk[x].size \in Int /\ blk[y].size \in Int
      /\ 1 <= blk[x].size /\ 1 <= blk[y].size
  BY <1>1, <1>2
<1>10. \/ blk[x].base + blk[x].size <= blk[y].base \/ blk[y].base + blk[y].size <= blk[x].base
  BY <1>3, <1>8
<1> HIDE DEF S
<1> QED BY <1>8, <1>9, <1>10

\* Table t is blk with n frames of the free block i used.
Allocated(t, D, f, blk, i, n) ==
  /\ t \in [D -> Block] /\ Tiled(t, f) /\ MergedIn(t)
  /\ i \in InUse(t) /\ t[i].base = blk[i].base /\ t[i].size = n /\ t[i].used
  /\ \A j \in InUse(blk) \ {i} : /\ j \in InUse(t) /\ t[j].used = blk[j].used
                                 /\ t[j].base = blk[j].base /\ t[j].size = blk[j].size
  /\ \A j \in InUse(t) \ {i} : t[j].used => j \in InUse(blk)
  /\ ~blk[i].used

\* What the allocation of block i does to a table.
LEMMA AllocBlock ==
  ASSUME NEW m \in Nat, NEW blk \in [0 .. m - 1 -> Block], NEW f \in Nat,
         Tiled(blk, f), MergedIn(blk),
         NEW i \in InUse(blk), ~blk[i].used,
         NEW n \in Nat, 1 <= n, n <= blk[i].size, m = f \/ n = blk[i].size
  PROVE  Allocated(DoAllocBlock(blk, i, n), 0 .. m - 1, f, blk, i, n)
<1> DEFINE D == 0 .. m - 1
           t == DoAllocBlock(blk, i, n)
           avail == DOMAIN blk \ InUse(blk)
<1>0. D \in SUBSET Nat /\ DOMAIN blk = D /\ InUse(blk) \subseteq D /\ i \in D /\ blk[i] \in Block
  BY DEF InUse
<1>1. CASE n < blk[i].size
  <2>0. m = f /\ blk[i].size > 1  BY <1>0, <1>1 DEF Block
  <2>1. avail # {} /\ avail \in SUBSET Nat
    BY <1>0, <2>0, EntryAvailable
  <2>2. PICK k \in avail : k = Lowest(avail)
    BY <2>1, LowestIn
  <2>3. t = Split(blk, i, n, k)
    BY <1>1, <2>1, <2>2 DEF DoAllocBlock
  <2>4. /\ t \in [D -> Block]
        /\ InUse(t) = InUse(blk) \cup {k}
        /\ Tiled(t, f)
    <3>1. n \in Int /\ 0 < n /\ f \in Int /\ k \in D \ InUse(blk) /\ blk \in [D -> Block]
      BY <1>0, <2>2
    <3> HIDE DEF D
    <3>2. SplitKeeps(Split(blk, i, n, k), D, f, blk, k)
      BY <1>0, <1>1, <3>1, SplitTiled
    <3> QED BY <2>3, <3>2 DEF SplitKeeps
  <2>5. k \in D /\ k # i /\ blk[k].base = None /\ D \subseteq Int /\ blk[i].succ # k
    BY <1>0, <2>2 DEF InUse, Tiled, None
  <2>a. IsSplit(t, D, blk, i, n, k)
    BY <1>0, <2>3, <2>5, SplitFields
  <2>6. /\ \A j \in D \ {k} :
              /\ t[j].base = blk[j].base
              /\ t[j].size = (IF j = i THEN n ELSE blk[j].size)
              /\ t[j].used = (IF j = i THEN TRUE ELSE blk[j].used)
              /\ t[j].succ = (IF j = i THEN k ELSE blk[j].succ)
        /\ t[k].used = FALSE /\ t[k].succ = blk[i].succ
    BY <2>a DEF IsSplit
  <2> HIDE DEF t
  <2>7. MergedIn(t)
    <3> SUFFICES ASSUME NEW j \in InUse(t), ~t[j].used, t[j].succ # None
                 PROVE  t[t[j].succ].used
      BY DEF MergedIn
    <3>1. CASE j = k
      <4>1. blk[i].succ # None /\ blk[i].succ \in InUse(blk)
        BY <2>6, <3>1 DEF Tiled
      <4>2. blk[i].succ \in D \ {k} /\ blk[i].succ # i /\ blk[blk[i].succ].used
        BY <1>0, <2>5, <4>1 DEF MergedIn
      <4> QED BY <2>6, <3>1, <4>2
    <3>2. CASE j # k
      <4>1. j # i /\ j \in InUse(blk) /\ j \in D \ {k} /\ t[j].succ = blk[j].succ /\ ~blk[j].used
        BY <1>0, <2>4, <2>6, <3>2
      <4>2. blk[j].succ \in InUse(blk) /\ blk[j].succ \in D \ {k} /\ blk[blk[j].succ].used
        BY <1>0, <2>2, <4>1 DEF MergedIn, Tiled
      <4> QED BY <2>6, <4>1, <4>2
    <3> QED BY <3>1, <3>2
  <2>8. \A j \in InUse(blk) : j \in D \ {k}  BY <1>0, <2>2
  <2> QED BY <2>2, <2>4, <2>6, <2>7, <2>8 DEF t, Allocated
<1>2. CASE n = blk[i].size
  <2>1. t = [blk EXCEPT ![i].size = n, ![i].used = TRUE]
    BY <1>2 DEF DoAllocBlock
  <2>2. /\ t \in [D -> Block]
        /\ t[i] = [blk[i] EXCEPT !.size = n, !.used = TRUE]
        /\ \A j \in D \ {i} : t[j] = blk[j]
    BY <1>0, <2>1 DEF Block
  <2>3. /\ t[i].base = blk[i].base /\ t[i].size = blk[i].size /\ t[i].used
        /\ t[i].succ = blk[i].succ /\ t[i].pred = blk[i].pred
    BY <1>0, <1>2, <2>2 DEF Block
  <2> HIDE DEF t
  <2>4. \A j \in D : /\ t[j].base = blk[j].base /\ t[j].size = blk[j].size
                     /\ t[j].succ = blk[j].succ /\ t[j].pred = blk[j].pred
    BY <2>2, <2>3
  <2>5. InUse(t) = InUse(blk)
    BY <1>0, <2>2, <2>4 DEF InUse
  <2>6. Tiled(t, f)
    <3>1. Bs(t) = Bs(blk) /\ Ss(t) = Ss(blk) /\ Ps(t) = Ps(blk) /\ Ns(t) = Ns(blk)
      BY <1>0, <2>4, <2>5 DEF Bs, Ss, Ps, Ns
    <3> QED BY <2>2, <2>5, <3>1, TiledIsChain DEF ChainOf
  <2>7. MergedIn(t)
    <3> SUFFICES ASSUME NEW j \in InUse(t), ~t[j].used, t[j].succ # None
                 PROVE  t[t[j].succ].used
      BY DEF MergedIn
    <3>1. j # i /\ j \in InUse(blk) /\ ~blk[j].used /\ t[j].succ = blk[j].succ
      BY <1>0, <2>2, <2>3, <2>5
    <3>2. blk[j].succ \in D /\ blk[blk[j].succ].used
      BY <1>0, <3>1 DEF MergedIn, Tiled
    <3> QED BY <2>2, <2>3, <3>1, <3>2
  <2> QED BY <1>0, <1>2, <2>2, <2>3, <2>5, <2>6, <2>7 DEF t, Allocated
<1>3. blk[i].size \in Int  BY <1>0 DEF Block
<1> QED BY <1>1, <1>2, <1>3

\* The used blocks of t are those of blk but for i, where they were and as they were.
FreedFrom(t, blk, i) ==
  /\ \A j \in InUse(t) : t[j].used => j \in InUse(blk) /\ blk[j].used /\ j # i
  /\ \A j \in InUse(blk) \ {i} : blk[j].used =>
       j \in InUse(t) /\ t[j].used /\ t[j].base = blk[j].base /\ t[j].size = blk[j].size

\* No two free neighbours but for block i and its own.
MergedBut(t, i) ==
  \A j \in InUse(t) \ {i} : ~t[j].used /\ t[j].succ \notin {None, i} => t[t[j].succ].used

\* do_free_block, before it merges: the block is free, and only it may have a free
\* neighbour.
LEMMA MarkFree ==
  ASSUME NEW D \in SUBSET Nat, NEW blk \in [D -> Block], NEW f \in Nat,
         Tiled(blk, f), MergedIn(blk), NEW i \in InUse(blk)
  PROVE  LET t == [blk EXCEPT ![i].used = FALSE] IN
         /\ t \in [D -> Block] /\ Tiled(t, f) /\ i \in InUse(t) /\ ~t[i].used
         /\ FreedFrom(t, blk, i) /\ MergedBut(t, i)
<1> DEFINE t == [blk EXCEPT ![i].used = FALSE]
<1>0. DOMAIN blk = D /\ InUse(blk) \subseteq D /\ i \in D /\ blk[i] \in Block
  BY DEF InUse
<1>1. /\ t \in [D -> Block] /\ t[i] = [blk[i] EXCEPT !.used = FALSE]
      /\ \A j \in D \ {i} : t[j] = blk[j]
  BY <1>0 DEF Block
<1> HIDE DEF t
<1>2. t[i].used = FALSE /\ \A j \in D : /\ t[j].base = blk[j].base /\ t[j].size = blk[j].size
                     /\ t[j].succ = blk[j].succ /\ t[j].pred = blk[j].pred
  BY <1>0, <1>1 DEF Block
<1>3. InUse(t) = InUse(blk)
  BY <1>0, <1>1, <1>2 DEF InUse
<1>4. Tiled(t, f)
  <2>1. Bs(t) = Bs(blk) /\ Ss(t) = Ss(blk) /\ Ps(t) = Ps(blk) /\ Ns(t) = Ns(blk)
    BY <1>0, <1>2, <1>3 DEF Bs, Ss, Ps, Ns
  <2> QED BY <1>1, <1>3, <2>1, TiledIsChain DEF ChainOf
<1>5. FreedFrom(t, blk, i)
  BY <1>0, <1>1, <1>2, <1>3 DEF FreedFrom
<1>6. MergedBut(t, i)
  <2> SUFFICES ASSUME NEW j \in InUse(t) \ {i}, ~t[j].used, t[j].succ \notin {None, i}
               PROVE  t[t[j].succ].used
    BY DEF MergedBut
  <2>1. j \in InUse(blk) /\ ~blk[j].used /\ t[j].succ = blk[j].succ
    BY <1>0, <1>1, <1>3
  <2>2. blk[j].succ \in D \ {i} /\ blk[blk[j].succ].used
    BY <1>0, <2>1 DEF MergedIn, Tiled
  <2> QED BY <1>1, <2>1, <2>2
<1> QED BY <1>1, <1>2, <1>3, <1>4, <1>5, <1>6, <1>0 DEF t

\* The merge with the successor: after it the successor, if any, is used.
LEMMA MergeOnOK ==
  ASSUME NEW D \in SUBSET Nat, NEW blk, NEW b \in [D -> Block], NEW f \in Nat, NEW i \in InUse(b),
         Tiled(b, f), ~b[i].used, FreedFrom(b, blk, i), MergedBut(b, i)
  PROVE  LET t == MergeOn(b, i) IN
         /\ t \in [D -> Block] /\ Tiled(t, f) /\ i \in InUse(t) /\ ~t[i].used
         /\ FreedFrom(t, blk, i) /\ MergedBut(t, i)
         /\ t[i].succ # None => t[t[i].succ].used
<1> DEFINE k == b[i].succ
           t == Absorb(b, i, k)
<1>0. InUse(b) \subseteq D /\ k \in Int  BY DEF InUse, Block
<1>1. CASE FreeNeighbour(b, k)
  <2>1. k # None /\ ~b[k].used  BY <1>1 DEF FreeNeighbour
  <2>2. /\ k \in InUse(b) /\ k # i
        /\ t \in [D -> Block]
        /\ InUse(t) = InUse(b) \ {k}
        /\ Tiled(t, f)
        /\ \A j \in InUse(t) : t[j].used = b[j].used /\ t[j].base = b[j].base
        /\ \A j \in InUse(t) \ {i} : t[j].size = b[j].size /\ t[j].succ = b[j].succ
        /\ t[i].succ = b[k].succ
    <3>1. MergeKeeps(t, D, f, b, i, k)  BY <2>1, AbsorbTiled
    <3> QED BY <3>1 DEF MergeKeeps
  <2> HIDE DEF t
  <2>3. i \in InUse(t) /\ ~t[i].used  BY <2>2
  <2>4. FreedFrom(t, blk, i)
    BY <2>1, <2>2 DEF FreedFrom
  <2>5. \A j \in InUse(t) : t[j].succ # None => t[j].succ \in InUse(t)
    BY <2>2 DEF Tiled
  <2>6. MergedBut(t, i)
    BY <2>2, <2>5 DEF MergedBut
  <2>7. t[i].succ # None => t[t[i].succ].used
    <3> SUFFICES ASSUME t[i].succ # None PROVE t[t[i].succ].used
      OBVIOUS
    <3>1. b[k].succ # i /\ b[k].succ \in InUse(t)
      <4>1. b[k].base \in Int /\ b[k].size \in Int /\ b[i].base \in Int /\ b[i].size \in Int
        BY <1>0, <2>2 DEF Block
      <4>2. /\ b[k].base = b[i].base + b[i].size /\ b[i].size >= 1 /\ b[k].size >= 1
            /\ b[b[k].succ].base = b[k].base + b[k].size
        BY <2>1, <2>2 DEF Tiled
      <4> QED BY <2>2, <2>3, <2>5, <4>1, <4>2
    <3>2. b[b[k].succ].used
      BY <2>1, <2>2, <3>1 DEF MergedBut
    <3> QED BY <2>2, <3>1, <3>2
  <2>8. MergeOn(b, i) = t  BY <1>1 DEF MergeOn, t
  <2> QED BY <2>2, <2>3, <2>4, <2>6, <2>7, <2>8
<1>2. CASE ~FreeNeighbour(b, k)
  BY <1>2 DEF MergeOn, FreeNeighbour
<1> QED BY <1>1, <1>2

\* The merge with the predecessor: after it no two neighbours are free.
LEMMA MergeBackOK ==
  ASSUME NEW D \in SUBSET Nat, NEW blk, NEW b \in [D -> Block], NEW f \in Nat, NEW i \in InUse(b),
         Tiled(b, f), ~b[i].used, FreedFrom(b, blk, i), MergedBut(b, i),
         b[i].succ # None => b[b[i].succ].used
  PROVE  LET t == MergeBack(b, i) IN
         /\ t \in [D -> Block] /\ Tiled(t, f) /\ FreedFrom(t, blk, i) /\ MergedIn(t)
<1> DEFINE h == b[i].pred
           t == Absorb(b, h, i)
<1>0. InUse(b) \subseteq D /\ h \in Int  BY DEF InUse, Block
<1>1. CASE FreeNeighbour(b, h)
  <2>1. h # None /\ ~b[h].used  BY <1>1 DEF FreeNeighbour
  <2>2. h \in InUse(b) /\ b[h].succ = i /\ b[h].succ # None
    BY <2>1 DEF Tiled, InUse, None
  <2>3. /\ h # i
        /\ t \in [D -> Block]
        /\ InUse(t) = InUse(b) \ {i}
        /\ Tiled(t, f)
        /\ \A j \in InUse(t) : t[j].used = b[j].used /\ t[j].base = b[j].base
        /\ \A j \in InUse(t) \ {h} : t[j].size = b[j].size /\ t[j].succ = b[j].succ
        /\ t[h].succ = b[i].succ
    <3>1. MergeKeeps(t, D, f, b, h, i)  BY <2>1, <2>2, AbsorbTiled
    <3> QED BY <2>2, <3>1 DEF MergeKeeps
  <2> HIDE DEF t
  <2>4. FreedFrom(t, blk, i)
    BY <2>1, <2>2, <2>3 DEF FreedFrom
  <2>5. MergedIn(t)
    <3> SUFFICES ASSUME NEW j \in InUse(t), ~t[j].used, t[j].succ # None
                 PROVE  t[t[j].succ].used
      BY DEF MergedIn
    <3>0. t[j].succ \in InUse(t)  BY <2>3 DEF Tiled
    <3>1. CASE j = h
      BY <2>2, <2>3, <3>0, <3>1
    <3>2. CASE j # h
      <4>1. j \in InUse(b) \ {i} /\ ~b[j].used /\ b[j].succ = t[j].succ /\ b[j].succ # i
        BY <2>3, <3>0, <3>2
      <4> QED BY <2>3, <3>0, <4>1 DEF MergedBut
    <3> QED BY <3>1, <3>2
  <2>6. MergeBack(b, i) = t  BY <1>1 DEF MergeBack, t
  <2> QED BY <2>3, <2>4, <2>5, <2>6
<1>2. CASE ~FreeNeighbour(b, h)
  <2>1. MergeBack(b, i) = b  BY <1>2 DEF MergeBack
  <2>2. ASSUME NEW j \in InUse(b), b[j].succ = i PROVE b[j].used
    <3>1. b[j].pred \in Int /\ b[i].pred = j /\ j # None
      BY <1>0, <2>2 DEF Tiled, None, Block, InUse
    <3> QED BY <1>2, <3>1 DEF FreeNeighbour
  <2>3. MergedIn(b)
    BY <2>2 DEF MergedIn, MergedBut
  <2> QED BY <2>1, <2>3
<1> QED BY <1>1, <1>2

\* What freeing block i does to a table.
LEMMA FreeBlock ==
  ASSUME NEW D \in SUBSET Nat, NEW blk \in [D -> Block], NEW f \in Nat,
         Tiled(blk, f), MergedIn(blk), NEW i \in InUse(blk)
  PROVE  LET t == DoFreeBlock(blk, i) IN
         /\ t \in [D -> Block] /\ Tiled(t, f) /\ FreedFrom(t, blk, i) /\ MergedIn(t)
<1> DEFINE a == [blk EXCEPT ![i].used = FALSE]
           b == MergeOn(a, i)
<1>1. /\ a \in [D -> Block] /\ Tiled(a, f) /\ i \in InUse(a) /\ ~a[i].used
      /\ FreedFrom(a, blk, i) /\ MergedBut(a, i)
  BY MarkFree
<1> HIDE DEF a
<1>2. /\ b \in [D -> Block] /\ Tiled(b, f) /\ i \in InUse(b) /\ ~b[i].used
      /\ FreedFrom(b, blk, i) /\ MergedBut(b, i)
      /\ b[i].succ # None => b[b[i].succ].used
  BY <1>1, MergeOnOK
<1> HIDE DEF b
<1>3. LET t == MergeBack(b, i) IN
         /\ t \in [D -> Block] /\ Tiled(t, f) /\ FreedFrom(t, blk, i) /\ MergedIn(t)
  BY <1>2, MergeBackOK
<1> QED BY <1>3 DEF DoFreeBlock, a, b

-----------------------------------------------------------------------------
(* The inductive invariant. *)

\* A page with its table whole and merged.
PageInv(g) ==
  /\ g \in [bin : Bin, frames : 1 .. MaxFrames, extern : BOOLEAN, blocks : {g.blocks}]
  /\ PageOK(g) /\ Tiled(g.blocks, g.frames) /\ MergedIn(g.blocks)

\* Each page that exists is once on the list of its bin, and nothing else is.
Listed(bs, pgs) ==
  /\ bs \in [Bin -> Seq(DOMAIN pgs)]
  /\ \A b \in Bin : \A k \in 1 .. Len(bs[b]) : pgs[bs[b][k]].bin = b
  /\ \A b \in Bin : \A k, l \in 1 .. Len(bs[b]) : bs[b][k] = bs[b][l] => k = l
  /\ \A p \in DOMAIN pgs : \E k \in 1 .. Len(bs[pgs[p].bin]) : bs[pgs[p].bin][k] = p

IInv ==
  /\ up \in BOOLEAN /\ DOMAIN pages \subseteq Page
  /\ \A p \in DOMAIN pages : PageInv(pages[p])
  /\ Listed(bins, pages)
  /\ OwnersMatchBlocks
  /\ NoIdlePage

\* A request rounded up to pages is no smaller.
LEMMA RoundUpBound ==
  ASSUME NEW n \in Nat
  PROVE  RoundUp(n) \in Nat /\ n <= RoundUp(n)
<1> DEFINE x == n + FramesPerPage - 1
           F == FramesPerPage
<1>1. F \in Nat /\ F > 0 /\ x \in Nat  BY SizesAssumption
<1> HIDE DEF x, F
<1>2. x \div F \in Nat /\ x % F \in 0 .. F - 1 /\ x = F * (x \div F) + (x % F)  BY <1>1
<1>3. F * (x \div F) = (x \div F) * F  BY <1>1, <1>2
<1> QED BY <1>1, <1>2, <1>3 DEF RoundUp, x, F

\* Page g is new: one free block of f frames.
IsNewPage(g, bin, f, e) ==
  /\ PageInv(g) /\ InUse(g.blocks) = {0} /\ ~g.blocks[0].used
  /\ g.blocks[0].base = 0 /\ g.blocks[0].size = f
  /\ g.bin = bin /\ g.frames = f /\ g.extern = e

\* A new page satisfies the invariant of pages.
LEMMA NewPageInv ==
  ASSUME NEW bin \in Bin, NEW f \in 1 .. MaxFrames, NEW e \in BOOLEAN, e => bin = DEDICATED
  PROVE  IsNewPage(NewPage(bin, f, e), bin, f, e)
<1> DEFINE g == NewPage(bin, f, e)
           D == 0 .. (IF bin = DEDICATED THEN 0 ELSE f - 1)
<1>1. /\ g.bin = bin /\ g.frames = f /\ g.extern = e /\ g.blocks = NewBlocks(bin, f)
      /\ f \in Nat /\ f >= 1 /\ 0 \in D
  BY SizesAssumption DEF NewPage, Bin, PRE, SCRATCH, DEDICATED
<1> DEFINE r == [base |-> 0, size |-> f, used |-> FALSE, pred |-> None, succ |-> None]
<1>2. /\ r \in Block /\ r.base = 0 /\ r.size = f /\ r.used = FALSE /\ r.pred = None /\ r.succ = None
  BY <1>1 DEF Block, None
<1>a. Available \in Block /\ Available.base = None
  BY DEF Available, Block, None
<1> HIDE DEF r
<1>3. /\ g.blocks \in [D -> Block]
      /\ g.blocks[0] = r
      /\ \A i \in D \ {0} : g.blocks[i] = Available
  <2>1. g.blocks = [i \in D |-> IF i = 0 THEN r ELSE Available]
    BY <1>1 DEF NewBlocks, r
  <2> QED BY <1>1, <1>2, <1>a, <2>1
<1>b. g \in [bin : Bin, frames : 1 .. MaxFrames, extern : BOOLEAN, blocks : {g.blocks}]
  BY DEF NewPage
<1> HIDE DEF g
<1>4. InUse(g.blocks) = {0}
  <2>1. r.base # None  BY <1>2 DEF None
  <2> QED BY <1>1, <1>a, <1>3, <2>1 DEF InUse
<1>5. Tiled(g.blocks, f) /\ MergedIn(g.blocks)
  BY <1>1, <1>2, <1>3, <1>4 DEF Tiled, MergedIn, None
<1>6. PageOK(g)
  BY <1>1, <1>3 DEF PageOK
<1> QED BY <1>1, <1>2, <1>3, <1>4, <1>5, <1>6, <1>b DEF PageInv, IsNewPage, g

\* The block table of a page, as the lemmas above want it.
LEMMA PageTable ==
  ASSUME NEW g, PageInv(g)
  PROVE  \E m \in Nat \ {0} :
           /\ g.blocks \in [0 .. m - 1 -> Block] /\ g.frames \in Nat /\ g.frames >= 1
           /\ IF g.bin = DEDICATED THEN m = 1 ELSE m = g.frames
           /\ Tiled(g.blocks, g.frames) /\ MergedIn(g.blocks)
<1> DEFINE m == IF g.bin = DEDICATED THEN 1 ELSE g.frames
<1>1. m \in Nat \ {0} /\ g.frames \in Nat /\ g.frames >= 1
  BY SizesAssumption DEF PageInv, PageOK
<1>2. g.blocks \in [0 .. m - 1 -> Block]  BY DEF PageInv, PageOK
<1>3. IF g.bin = DEDICATED THEN m = 1 ELSE m = g.frames  OBVIOUS
<1> QED BY <1>1, <1>2, <1>3 DEF PageInv, PageOK

\* The one block of a page for one allocation is as large as the page.
LEMMA DedicatedWhole ==
  ASSUME NEW g, PageInv(g), g.bin = DEDICATED
  PROVE  InUse(g.blocks) = {0} /\ g.blocks[0].base = 0 /\ g.blocks[0].size = g.frames
<1>1. g.blocks \in [{0} -> Block] /\ Tiled(g.blocks, g.frames)
  <2>1. 0 .. 0 = {0}  OBVIOUS
  <2> QED BY <2>1 DEF PageInv, PageOK
<1>2. InUse(g.blocks) = {0} /\ g.blocks[0].base = 0
  BY <1>1 DEF Tiled, InUse
<1>3. g.blocks[0].size \in Int /\ g.blocks[0].size >= 1
  BY <1>1, <1>2 DEF Tiled, Block
<1>4. g.blocks[0].succ = None
  BY <1>1, <1>2, <1>3 DEF Tiled
<1>5. g.frames \in Int  BY SizesAssumption DEF PageInv, PageOK
<1> QED BY <1>1, <1>2, <1>3, <1>4, <1>5 DEF Tiled

\* Page h is page g with another table.
SamePage(h, g) ==
  PageInv(h) /\ h.bin = g.bin /\ h.frames = g.frames /\ h.extern = g.extern

\* A page with its table replaced by another tiled and merged one.
LEMMA Retabled ==
  ASSUME NEW g, PageInv(g), NEW t \in [DOMAIN g.blocks -> Block],
         Tiled(t, g.frames), MergedIn(t)
  PROVE  SamePage([g EXCEPT !.blocks = t], g) /\ [g EXCEPT !.blocks = t].blocks = t
<1> DEFINE h == [g EXCEPT !.blocks = t]
<1>1. h = [bin |-> g.bin, frames |-> g.frames, extern |-> g.extern, blocks |-> t]
  BY DEF PageInv
<1>2. /\ h.bin = g.bin /\ h.frames = g.frames /\ h.extern = g.extern /\ h.blocks = t
      /\ h \in [bin : Bin, frames : 1 .. MaxFrames, extern : BOOLEAN, blocks : {h.blocks}]
  BY <1>1 DEF PageInv, PageOK
<1> HIDE DEF h
<1>3. PageOK(h)
  BY <1>2 DEF PageInv, PageOK
<1> QED BY <1>2, <1>3 DEF PageInv, SamePage, h

\* Allocating a free block makes its frames used, and no other.
LEMMA AllocPage ==
  ASSUME NEW p, NEW g, PageInv(g), ~g.extern, NEW i \in InUse(g.blocks), ~g.blocks[i].used,
         NEW n \in Nat, 1 <= n, n <= g.blocks[i].size, g.bin = DEDICATED => n = g.blocks[i].size
  PROVE  LET h == [g EXCEPT !.blocks = DoAllocBlock(g.blocks, i, n)] IN
         /\ SamePage(h, g)
         /\ UsedIn(p, h) = UsedIn(p, g) \cup {[page |-> p, base |-> g.blocks[i].base, size |-> n]}
<1> DEFINE blk == g.blocks
           t == DoAllocBlock(blk, i, n)
           h == [g EXCEPT !.blocks = t]
<1>1. PICK m \in Nat \ {0} :
        /\ blk \in [0 .. m - 1 -> Block] /\ g.frames \in Nat /\ g.frames >= 1
        /\ IF g.bin = DEDICATED THEN m = 1 ELSE m = g.frames
        /\ Tiled(blk, g.frames) /\ MergedIn(blk)
  BY PageTable
<1>2. Allocated(t, 0 .. m - 1, g.frames, blk, i, n)
  BY <1>1, AllocBlock
<1>3. SamePage(h, g) /\ h.blocks = t
  <2>1. t \in [DOMAIN blk -> Block] /\ Tiled(t, g.frames) /\ MergedIn(t)
    BY <1>1, <1>2 DEF Allocated
  <2> HIDE DEF t
  <2> QED BY <2>1, Retabled
<1> HIDE DEF h, t
<1>4. h.extern = FALSE /\ g.extern = FALSE  BY <1>3 DEF SamePage, PageInv, PageOK
<1>5. ASSUME NEW e PROVE e \in UsedIn(p, h) <=> \E j \in InUse(t) : t[j].used /\ e = [page |-> p, base |-> t[j].base, size |-> t[j].size]
  BY <1>3, <1>4 DEF UsedIn
<1>6. ASSUME NEW e PROVE e \in UsedIn(p, g) <=> \E j \in InUse(blk) : blk[j].used /\ e = [page |-> p, base |-> blk[j].base, size |-> blk[j].size]
  BY <1>4 DEF UsedIn
<1>7. ASSUME NEW e \in UsedIn(p, h) PROVE e \in UsedIn(p, g) \cup {[page |-> p, base |-> blk[i].base, size |-> n]}
  BY <1>2, <1>5, <1>6 DEF Allocated
<1>8. ASSUME NEW e \in UsedIn(p, g) \cup {[page |-> p, base |-> blk[i].base, size |-> n]} PROVE e \in UsedIn(p, h)
  BY <1>2, <1>5, <1>6 DEF Allocated
<1> QED BY <1>3, <1>7, <1>8 DEF h, t

\* Freeing a used block takes its extent from the used ones, and no other.
LEMMA FreePageBlock ==
  ASSUME NEW p, NEW g, PageInv(g), ~g.extern, NEW i \in InUse(g.blocks), g.blocks[i].used
  PROVE  LET h == [g EXCEPT !.blocks = DoFreeBlock(g.blocks, i)] IN
         /\ SamePage(h, g) /\ h.blocks = DoFreeBlock(g.blocks, i)
         /\ UsedIn(p, h) = UsedIn(p, g) \
              {[page |-> p, base |-> g.blocks[i].base, size |-> g.blocks[i].size]}
<1> DEFINE blk == g.blocks
           t == DoFreeBlock(blk, i)
           h == [g EXCEPT !.blocks = t]
           Ext(b, j) == [page |-> p, base |-> b[j].base, size |-> b[j].size]
<1>1. PICK m \in Nat \ {0} :
        /\ blk \in [0 .. m - 1 -> Block] /\ g.frames \in Nat /\ g.frames >= 1
        /\ IF g.bin = DEDICATED THEN m = 1 ELSE m = g.frames
        /\ Tiled(blk, g.frames) /\ MergedIn(blk)
  BY PageTable
<1>2. t \in [0 .. m - 1 -> Block] /\ Tiled(t, g.frames) /\ FreedFrom(t, blk, i) /\ MergedIn(t)
  <2> DEFINE D == 0 .. m - 1
  <2>1. D \in SUBSET Nat /\ blk \in [D -> Block]  BY <1>1
  <2> HIDE DEF D
  <2>2. t \in [D -> Block] /\ Tiled(t, g.frames) /\ FreedFrom(t, blk, i) /\ MergedIn(t)
    BY <1>1, <2>1, FreeBlock
  <2> QED BY <2>2 DEF D
<1>3. SamePage(h, g) /\ h.blocks = t
  <2>1. t \in [DOMAIN blk -> Block] /\ Tiled(t, g.frames) /\ MergedIn(t)
    BY <1>1, <1>2
  <2> HIDE DEF t
  <2> QED BY <2>1, Retabled
<1> HIDE DEF h, t
<1>4. h.extern = FALSE /\ g.extern = FALSE  BY <1>3 DEF SamePage, PageInv, PageOK
<1>5. ASSUME NEW e PROVE e \in UsedIn(p, h) <=> \E j \in InUse(t) : t[j].used /\ e = Ext(t, j)
  BY <1>3, <1>4 DEF UsedIn
<1>6. ASSUME NEW e PROVE e \in UsedIn(p, g) <=> \E j \in InUse(blk) : blk[j].used /\ e = Ext(blk, j)
  BY <1>4 DEF UsedIn
<1>7. ASSUME NEW j \in InUse(blk), j # i PROVE blk[j].base # blk[i].base
  <2>1. /\ blk[j].base \in Int /\ blk[j].size \in Int /\ blk[i].base \in Int /\ blk[i].size \in Int
    BY <1>1 DEF Block, InUse
  <2>2. blk[j].size >= 1 /\ blk[i].size >= 1
        /\ (blk[i].base + blk[i].size <= blk[j].base \/ blk[j].base + blk[j].size <= blk[i].base)
    BY <1>1, <1>7 DEF Tiled
  <2> QED BY <2>1, <2>2
<1>a. \A j \in InUse(t) : t[j].used => j \in InUse(blk) /\ j # i /\ blk[j].used /\ Ext(t, j) = Ext(blk, j)
  BY <1>2 DEF FreedFrom
<1>b. \A j \in InUse(blk) : blk[j].used /\ j # i => j \in InUse(t) /\ t[j].used /\ Ext(t, j) = Ext(blk, j)
  BY <1>2 DEF FreedFrom
<1>c. \A j \in InUse(blk) : j # i => Ext(blk, j) # Ext(blk, i)
  BY <1>7
<1> HIDE DEF Ext
<1>8. ASSUME NEW e \in UsedIn(p, h) PROVE e \in UsedIn(p, g) /\ e # Ext(blk, i)
  BY <1>5, <1>6, <1>8, <1>a, <1>c
<1>9. ASSUME NEW e \in UsedIn(p, g), e # Ext(blk, i) PROVE e \in UsedIn(p, h)
  BY <1>5, <1>6, <1>9, <1>b
<1> QED BY <1>3, <1>8, <1>9 DEF h, t, Ext

-----------------------------------------------------------------------------
(* What a step does to the extents in use. *)

Used(pgs) == UNION {UsedIn(p, pgs[p]) : p \in DOMAIN pgs}

\* Page p of pgs is new or replaced.
LEMMA UsedReplaced ==
  ASSUME NEW pgs, NEW pgs2, NEW p, DOMAIN pgs2 = DOMAIN pgs \cup {p},
         \A q \in DOMAIN pgs \ {p} : pgs2[q] = pgs[q]
  PROVE  Used(pgs2) = {e \in Used(pgs) : e.page # p} \cup UsedIn(p, pgs2[p])
<1>1. \A q : \A e \in UsedIn(q, pgs2[q]) : e.page = q
  BY DEF UsedIn
<1>2. \A q : \A e \in UsedIn(q, pgs[q]) : e.page = q
  BY DEF UsedIn
<1>3. ASSUME NEW e \in Used(pgs2)
      PROVE  e \in {x \in Used(pgs) : x.page # p} \cup UsedIn(p, pgs2[p])
  BY <1>1 DEF Used
<1>4. ASSUME NEW e \in {x \in Used(pgs) : x.page # p} \cup UsedIn(p, pgs2[p])
      PROVE  e \in Used(pgs2)
  BY <1>2 DEF Used
<1> QED BY <1>3, <1>4

\* Page p of pgs is gone.
LEMMA UsedDropped ==
  ASSUME NEW pgs, NEW pgs2, NEW p, DOMAIN pgs2 = DOMAIN pgs \ {p},
         \A q \in DOMAIN pgs \ {p} : pgs2[q] = pgs[q]
  PROVE  \A e : e \in Used(pgs2) <=> e \in Used(pgs) /\ e.page # p
<1>1. \A q : \A e \in UsedIn(q, pgs2[q]) : e.page = q
  BY DEF UsedIn
<1>2. \A q : \A e \in UsedIn(q, pgs[q]) : e.page = q
  BY DEF UsedIn
<1> QED BY <1>1, <1>2 DEF Used

\* The used extents of one page.
LEMMA UsedOfPage ==
  ASSUME NEW pgs, NEW p \in DOMAIN pgs
  PROVE  UsedIn(p, pgs[p]) = {e \in Used(pgs) : e.page = p}
<1>1. \A q : \A e \in UsedIn(q, pgs[q]) : e.page = q
  BY DEF UsedIn
<1> QED BY <1>1 DEF Used

\* An element of two lists one after the other is in one of them.
LEMMA ConcatIndex ==
  ASSUME NEW S, NEW a \in Seq(S), NEW b \in Seq(S), NEW k \in 1 .. Len(a \o b)
  PROVE  \/ k \in 1 .. Len(a) /\ (a \o b)[k] = a[k]
         \/ k - Len(a) \in 1 .. Len(b) /\ (a \o b)[k] = b[k - Len(a)]
<1>1. Len(a) \in Nat /\ Len(b) \in Nat /\ Len(a \o b) = Len(a) + Len(b)
  OBVIOUS
<1>2. CASE k <= Len(a)  BY <1>1, <1>2
<1>3. CASE Len(a) < k  BY <1>1, <1>3
<1> QED BY <1>1, <1>2, <1>3

\* A list without one of its pages.
LEMMA DeletedList ==
  ASSUME NEW S, NEW list \in Seq(S), NEW p, \E k \in 1 .. Len(list) : list[k] = p,
         \A k, l \in 1 .. Len(list) : list[k] = list[l] => k = l
  PROVE  LET d == Deleted(list, p) IN
         /\ d \in Seq(S \ {p})
         /\ \A k, l \in 1 .. Len(d) : d[k] = d[l] => k = l
         /\ \A k \in 1 .. Len(d) : \E l \in 1 .. Len(list) : d[k] = list[l]
         /\ \A l \in 1 .. Len(list) : list[l] # p => \E k \in 1 .. Len(d) : d[k] = list[l]
<1> DEFINE x == CHOOSE k \in 1 .. Len(list) : list[k] = p
           n == Len(list) - 1
           d == [j \in 1 .. n |-> IF j < x THEN list[j] ELSE list[j + 1]]
<1>1. x \in 1 .. Len(list) /\ list[x] = p /\ Len(list) \in Nat  OBVIOUS
<1> HIDE DEF x
<1>2. n \in Nat  BY <1>1
<1>3. \A j \in 1 .. n : j \in 1 .. Len(list) /\ j + 1 \in 1 .. Len(list)  BY <1>1, <1>2
<1>4. \A j \in 1 .. n : /\ d[j] = IF j < x THEN list[j] ELSE list[j + 1]
                        /\ d[j] \in S \ {p}
  <2>1. ASSUME NEW j \in 1 .. n PROVE d[j] \in S \ {p}
    <3>1. CASE j < x
      <4>1. d[j] = list[j] /\ j # x  BY <3>1
      <4> QED BY <1>1, <1>3, <4>1
    <3>2. CASE ~(j < x)
      <4>1. d[j] = list[j + 1] /\ j + 1 # x  BY <1>1, <3>2
      <4> QED BY <1>1, <1>3, <4>1
    <3> QED BY <3>1, <3>2
  <2> QED BY <2>1
<1>5. d \in Seq(S \ {p}) /\ Len(d) = n
  <2>1. d \in [1 .. n -> S \ {p}]  BY <1>4
  <2> HIDE DEF d
  <2> QED BY <1>2, <2>1
<1>6. ASSUME NEW k \in 1 .. n, NEW l \in 1 .. n, d[k] = d[l] PROVE k = l
  <2> DEFINE K == IF k < x THEN k ELSE k + 1
             L == IF l < x THEN l ELSE l + 1
  <2>1. d[k] = list[K] /\ d[l] = list[L] /\ K \in 1 .. Len(list) /\ L \in 1 .. Len(list)
    BY <1>3, <1>4
  <2>2. K = L  BY <1>6, <2>1
  <2> QED BY <1>1, <1>2, <2>2
<1>7. ASSUME NEW k \in 1 .. n PROVE \E l \in 1 .. Len(list) : d[k] = list[l]
  BY <1>3, <1>4
<1>8. ASSUME NEW l \in 1 .. Len(list), list[l] # p PROVE \E k \in 1 .. n : d[k] = list[l]
  <2> HIDE DEF d
  <2>1. CASE l < x
    <3>1. l \in 1 .. n  BY <1>1, <2>1
    <3> QED BY <1>4, <2>1, <3>1
  <2>2. CASE x < l
    <3>1. l - 1 \in 1 .. n /\ ~(l - 1 < x) /\ (l - 1) + 1 = l  BY <1>1, <2>2
    <3> QED BY <1>4, <3>1
  <2> QED BY <1>1, <1>8, <2>1, <2>2
<1>9. Deleted(list, p) = d  BY DEF Deleted, d, x
<1> HIDE DEF d
<1> QED BY <1>5, <1>6, <1>7, <1>8, <1>9

-----------------------------------------------------------------------------
(* The lists of the bins. *)

\* The lists stay right when a page gets another table.
LEMMA ListedKept ==
  ASSUME NEW bs, NEW pgs, Listed(bs, pgs), NEW pgs2, DOMAIN pgs2 = DOMAIN pgs,
         \A q \in DOMAIN pgs : pgs2[q].bin = pgs[q].bin
  PROVE  Listed(bs, pgs2)
<1>1. \A b \in Bin : \A k \in 1 .. Len(bs[b]) : bs[b][k] \in DOMAIN pgs
  BY DEF Listed
<1> QED BY <1>1 DEF Listed

\* Page p is new, in bin b and last on its list.
AddsPage(bs2, pgs2, bs, pgs, p, b) ==
  /\ p \notin DOMAIN pgs /\ DOMAIN pgs2 = DOMAIN pgs \cup {p}
  /\ b \in Bin /\ pgs2[p].bin = b /\ \A q \in DOMAIN pgs : pgs2[q] = pgs[q] /\ pgs[q].bin \in Bin
  /\ bs2 = [bs EXCEPT ![b] = Append(@, p)]

\* They stay right when a page is added, ...
LEMMA ListedNew ==
  ASSUME NEW bs, NEW pgs, Listed(bs, pgs), NEW bs2, NEW pgs2, NEW p, NEW b,
         AddsPage(bs2, pgs2, bs, pgs, p, b)
  PROVE  Listed(bs2, pgs2)
<1> USE DEF AddsPage
<1> DEFINE n == [bs EXCEPT ![b] = Append(@, p)]
           m == Len(bs[b])
<1>0. b \in Bin /\ bs2 = n  OBVIOUS
<1>1. /\ n[b] = Append(bs[b], p) /\ \A c \in Bin \ {b} : n[c] = bs[c]
      /\ n \in [Bin -> Seq(DOMAIN pgs2)]
  <2>1. \A c \in Bin : bs[c] \in Seq(DOMAIN pgs) /\ bs[c] \in Seq(DOMAIN pgs2)
    BY DEF Listed
  <2>2. Append(bs[b], p) \in Seq(DOMAIN pgs2)  BY <2>1
  <2>3. bs \in [Bin -> Seq(DOMAIN pgs)]  BY DEF Listed
  <2> QED BY <2>1, <2>2, <2>3
<1>2. /\ bs[b] \in Seq(DOMAIN pgs) /\ m \in Nat /\ Len(n[b]) = m + 1 /\ n[b][m + 1] = p
      /\ \A k \in 1 .. m : n[b][k] = bs[b][k] /\ bs[b][k] \in DOMAIN pgs
  BY <1>1 DEF Listed
<1> HIDE DEF n
<1>3. ASSUME NEW c \in Bin, NEW k \in 1 .. Len(n[c]) PROVE pgs2[n[c][k]].bin = c
  <2>1. CASE c # b
    <3>1. bs[c][k] \in DOMAIN pgs /\ n[c] = bs[c]  BY <1>1, <2>1 DEF Listed
    <3> QED BY <3>1 DEF Listed
  <2>2. CASE c = b /\ k <= m
    <3>1. k \in 1 .. m  BY <1>2, <2>2
    <3> QED BY <1>2, <2>2, <3>1 DEF Listed
  <2>3. CASE c = b /\ k = m + 1  BY <1>2, <2>3
  <2> QED BY <1>2, <2>1, <2>2, <2>3
<1>4. ASSUME NEW c \in Bin, NEW k \in 1 .. Len(n[c]), NEW l \in 1 .. Len(n[c]), n[c][k] = n[c][l]
      PROVE  k = l
  <2>1. CASE c # b
    <3>1. n[c] = bs[c]  BY <1>1, <2>1
    <3> QED BY <1>4, <3>1 DEF Listed
  <2>2. CASE c = b
    <3>1. \A j \in 1 .. m : n[b][j] # p  BY <1>2
    <3>2. CASE k \in 1 .. m /\ l \in 1 .. m
      <4>1. \A i, j \in 1 .. m : bs[b][i] = bs[b][j] => i = j  BY DEF Listed
      <4> QED BY <1>2, <1>4, <2>2, <3>2, <4>1
    <3>3. k \in 1 .. m \/ k = m + 1  BY <1>2, <2>2
    <3>4. l \in 1 .. m \/ l = m + 1  BY <1>2, <2>2
    <3> QED BY <1>2, <1>4, <2>2, <3>1, <3>2, <3>3, <3>4
  <2> QED BY <2>1, <2>2
<1>5. ASSUME NEW q \in DOMAIN pgs2 PROVE \E k \in 1 .. Len(n[pgs2[q].bin]) : n[pgs2[q].bin][k] = q
  <2>1. CASE q = p
    <3>1. m + 1 \in 1 .. Len(n[b])  BY <1>2
    <3> QED BY <1>2, <2>1, <3>1
  <2>2. CASE q # p
    <3>1. q \in DOMAIN pgs /\ pgs2[q].bin = pgs[q].bin /\ pgs[q].bin \in Bin  BY <2>2
    <3>2. PICK k \in 1 .. Len(bs[pgs[q].bin]) : bs[pgs[q].bin][k] = q  BY <3>1 DEF Listed
    <3>3. CASE pgs[q].bin = b
      <4>1. k \in 1 .. m /\ k \in 1 .. Len(n[b])  BY <1>2, <3>2, <3>3
      <4> QED BY <1>2, <3>1, <3>2, <3>3, <4>1
    <3>4. CASE pgs[q].bin # b  BY <1>1, <3>1, <3>2, <3>4
    <3> QED BY <3>3, <3>4
  <2> QED BY <2>1, <2>2
<1>6. Listed(n, pgs2)  BY <1>1, <1>3, <1>4, <1>5 DEF Listed
<1> QED BY <1>0, <1>6

\* ... and when one is deleted.
LEMMA ListedDropped ==
  ASSUME NEW bs, NEW pgs, Listed(bs, pgs), NEW pgs2, NEW p \in DOMAIN pgs,
         DOMAIN pgs2 = DOMAIN pgs \ {p},
         \A q \in DOMAIN pgs : pgs[q].bin \in Bin, \A q \in DOMAIN pgs2 : pgs2[q] = pgs[q]
  PROVE  Listed([bs EXCEPT ![pgs[p].bin] = Deleted(@, p)], pgs2)
<1> DEFINE b == pgs[p].bin
           d == Deleted(bs[b], p)
           n == [bs EXCEPT ![b] = Deleted(@, p)]
<1>0. b \in Bin /\ bs[b] \in Seq(DOMAIN pgs) /\ \E k \in 1 .. Len(bs[b]) : bs[b][k] = p
  BY DEF Listed
<1>1. /\ d \in Seq(DOMAIN pgs2)
      /\ \A k, l \in 1 .. Len(d) : d[k] = d[l] => k = l
      /\ \A k \in 1 .. Len(d) : \E l \in 1 .. Len(bs[b]) : d[k] = bs[b][l]
      /\ \A l \in 1 .. Len(bs[b]) : bs[b][l] # p => \E k \in 1 .. Len(d) : d[k] = bs[b][l]
  <2>1. \A k, l \in 1 .. Len(bs[b]) : bs[b][k] = bs[b][l] => k = l  BY <1>0 DEF Listed
  <2> HIDE DEF b
  <2> QED BY <1>0, <2>1, DeletedList
<1>2. \A c \in Bin \ {b} : bs[c] \in Seq(DOMAIN pgs2)
  <2>1. ASSUME NEW c \in Bin \ {b} PROVE bs[c] \in Seq(DOMAIN pgs2)
    <3>1. bs[c] \in Seq(DOMAIN pgs) /\ \A k \in 1 .. Len(bs[c]) : bs[c][k] \in DOMAIN pgs2
      BY DEF Listed
    <3> QED BY <3>1
  <2> QED BY <2>1
<1>3. n[b] = d /\ \A c \in Bin \ {b} : n[c] = bs[c]
  BY <1>0 DEF Listed
<1>4. n \in [Bin -> Seq(DOMAIN pgs2)]
  <2>1. bs \in [Bin -> Seq(DOMAIN pgs)]  BY DEF Listed
  <2>2. \A c \in Bin : n[c] \in Seq(DOMAIN pgs2)
    <3> HIDE DEF n
    <3> QED BY <1>1, <1>2, <1>3
  <2>3. DOMAIN n = Bin /\ n = [c \in Bin |-> n[c]]  BY <2>1
  <2> HIDE DEF n
  <2> QED BY <2>2, <2>3
<1> HIDE DEF n, d
<1>5. ASSUME NEW c \in Bin, NEW k \in 1 .. Len(n[c]) PROVE pgs2[n[c][k]].bin = c
  <2>1. n[c][k] \in DOMAIN pgs2  BY <1>4
  <2>2. CASE c # b  BY <1>3, <2>1, <2>2 DEF Listed
  <2>3. CASE c = b
    <3>1. PICK l \in 1 .. Len(bs[b]) : n[c][k] = bs[b][l]  BY <1>1, <1>3, <2>3
    <3> QED BY <1>0, <2>1, <2>3, <3>1 DEF Listed
  <2> QED BY <2>2, <2>3
<1>6. \A c \in Bin : \A k, l \in 1 .. Len(n[c]) : n[c][k] = n[c][l] => k = l
  BY <1>1, <1>3 DEF Listed
<1>7. ASSUME NEW q \in DOMAIN pgs2 PROVE \E k \in 1 .. Len(n[pgs2[q].bin]) : n[pgs2[q].bin][k] = q
  <2>1. q # p /\ q \in DOMAIN pgs /\ pgs2[q].bin = pgs[q].bin /\ pgs[q].bin \in Bin  OBVIOUS
  <2>2. PICK l \in 1 .. Len(bs[pgs[q].bin]) : bs[pgs[q].bin][l] = q  BY <2>1 DEF Listed
  <2> HIDE DEF b
  <2>3. CASE pgs[q].bin = b  BY <1>1, <1>3, <2>1, <2>2, <2>3
  <2>4. CASE pgs[q].bin # b  BY <1>3, <2>1, <2>2, <2>4
  <2> QED BY <2>3, <2>4
<1> QED BY <1>4, <1>5, <1>6, <1>7 DEF Listed, n

-----------------------------------------------------------------------------
(* The invariant is inductive. *)

\* The invariant holds before gsl_shmem_init.
LEMMA InitInv == Init => IInv
<1> SUFFICES ASSUME Init PROVE IInv
  OBVIOUS
<1>1. DOMAIN pages = {} /\ UsedExtents = {}
  BY DEF Init, UsedExtents
<1>2. Listed(bins, pages)
  <2>1. \A b \in Bin : bins[b] = <<>> /\ bins[b] \in Seq(DOMAIN pages) /\ Len(bins[b]) = 0
    BY DEF Init
  <2>2. bins \in [Bin -> Seq(DOMAIN pages)]  BY <2>1 DEF Init
  <2> QED BY <1>1, <2>1, <2>2 DEF Listed
<1> QED BY <1>1, <1>2 DEF Init, IInv, OwnersMatchBlocks, NoIdlePage

\* What holds of a page that exists.
LEMMA PageFacts ==
  ASSUME IInv, NEW p \in DOMAIN pages
  PROVE  /\ PageInv(pages[p]) /\ pages[p].bin \in Bin /\ pages[p].extern \in BOOLEAN
         /\ pages[p].extern => pages[p].bin = DEDICATED
BY DEF IInv, PageInv, PageOK

\* The clients' structs are the used extents.
LEMMA UsedIsOwned == ASSUME IInv PROVE owned = Used(pages)
BY DEF IInv, OwnersMatchBlocks, UsedExtents, Used

\* Two blocks do not have the same base.
LEMMA BaseIsOne ==
  ASSUME NEW g, PageInv(g), NEW i \in InUse(g.blocks), NEW j \in InUse(g.blocks),
         g.blocks[i].base = g.blocks[j].base
  PROVE  i = j
<1>1. PICK m \in Nat \ {0} : g.blocks \in [0 .. m - 1 -> Block] /\ Tiled(g.blocks, g.frames)
  BY PageTable
<1>2. /\ g.blocks[j].base \in Int /\ g.blocks[j].size \in Int
      /\ g.blocks[i].base \in Int /\ g.blocks[i].size \in Int
  BY <1>1 DEF Block, InUse
<1>3. g.blocks[j].size >= 1 /\ g.blocks[i].size >= 1
  BY <1>1 DEF Tiled
<1>4. i # j => \/ g.blocks[i].base + g.blocks[i].size <= g.blocks[j].base
               \/ g.blocks[j].base + g.blocks[j].size <= g.blocks[i].base
  BY <1>1 DEF Tiled
<1> QED BY <1>2, <1>3, <1>4

\* The test gsl_shmem_free makes on the block it merged (is it as large as the page?)
\* tells whether anything on the page is still used.
LEMMA IsFreeIffUnused ==
  ASSUME NEW g, PageInv(g)
  PROVE  (\E i \in InUse(g.blocks) : ~g.blocks[i].used /\ g.blocks[i].size = g.frames)
           <=> (\A i \in InUse(g.blocks) : ~g.blocks[i].used)
<1>1. PICK m \in Nat \ {0} :
        /\ g.blocks \in [0 .. m - 1 -> Block] /\ Tiled(g.blocks, g.frames) /\ MergedIn(g.blocks)
        /\ g.frames \in Nat
  BY PageTable
<1>2. \A i \in InUse(g.blocks) : g.blocks[i].base \in Int /\ g.blocks[i].size \in Int
  BY <1>1 DEF Block, InUse
<1>3. ASSUME NEW i \in InUse(g.blocks), ~g.blocks[i].used, g.blocks[i].size = g.frames,
             NEW j \in InUse(g.blocks)
      PROVE  ~g.blocks[j].used
  <2>1. CASE i = j  BY <1>3, <2>1
  <2>2. CASE i # j
    <3>1. /\ \/ g.blocks[i].base + g.blocks[i].size <= g.blocks[j].base
             \/ g.blocks[j].base + g.blocks[j].size <= g.blocks[i].base
          /\ 0 <= g.blocks[i].base /\ g.blocks[i].base + g.blocks[i].size <= g.frames
          /\ 0 <= g.blocks[j].base /\ g.blocks[j].base + g.blocks[j].size <= g.frames
          /\ g.blocks[j].size >= 1
      BY <1>1, <2>2 DEF Tiled
    <3> QED BY <1>1, <1>2, <1>3, <3>1
  <2> QED BY <2>1, <2>2
<1>4. ASSUME \A i \in InUse(g.blocks) : ~g.blocks[i].used
      PROVE  \E i \in InUse(g.blocks) : ~g.blocks[i].used /\ g.blocks[i].size = g.frames
  <2>1. 0 \in InUse(g.blocks) /\ g.blocks[0].base = 0  BY <1>1 DEF Tiled
  <2>2. g.blocks[0].succ = None
    <3> SUFFICES ASSUME g.blocks[0].succ # None PROVE FALSE
      OBVIOUS
    <3>1. g.blocks[0].succ \in InUse(g.blocks)  BY <1>1, <2>1 DEF Tiled
    <3>2. g.blocks[g.blocks[0].succ].used  BY <1>1, <1>4, <2>1 DEF MergedIn
    <3> QED BY <1>4, <3>1, <3>2
  <2>3. g.blocks[0].size = g.frames
    <3>1. g.blocks[0].base + g.blocks[0].size = g.frames  BY <1>1, <2>1, <2>2 DEF Tiled
    <3> QED BY <1>1, <1>2, <2>1, <3>1
  <2> QED BY <1>4, <2>1, <2>3
<1> QED BY <1>3, <1>4

\* gsl_shmem_init, whether it gets its first page or not.
LEMMA InitStep == IInv /\ ShmemInit => IInv'
<1> SUFFICES ASSUME IInv, NEW page_ok \in BOOLEAN, NEW p \in Page,
                    ~up, p \notin DOMAIN pages, up', UNCHANGED owned,
                    IF page_ok
                      THEN /\ pages' = With(p, NewPage(PRE, PreAlloc, FALSE))
                           /\ bins' = [bins EXCEPT ![PRE] = Append(@, p)]
                      ELSE UNCHANGED <<pages, bins>>
             PROVE  IInv'
  BY DEF ShmemInit
<1>1. CASE ~page_ok
  BY <1>1 DEF IInv, OwnersMatchBlocks, UsedExtents, NoIdlePage
<1>2. CASE page_ok
  <2> DEFINE g == NewPage(PRE, PreAlloc, FALSE)
  <2>1. /\ DOMAIN pages' = DOMAIN pages \cup {p} /\ pages'[p] = g
        /\ \A q \in DOMAIN pages : pages'[q] = pages[q]
    BY <1>2 DEF With
  <2>2. /\ PageInv(g) /\ InUse(g.blocks) = {0} /\ ~g.blocks[0].used /\ g.bin = PRE /\ g.extern = FALSE
    <3>1. PRE \in Bin /\ PreAlloc \in 1 .. MaxFrames
      BY SizesAssumption DEF Bin
    <3> QED BY <3>1, NewPageInv DEF IsNewPage
  <2> HIDE DEF g
  <2>3. \A q \in DOMAIN pages' : PageInv(pages'[q])
    BY <2>1, <2>2 DEF IInv
  <2>4. Listed(bins, pages)'
    <3>1. PRE \in Bin /\ Listed(bins, pages) /\ bins' = [bins EXCEPT ![PRE] = Append(@, p)]
      BY <1>2 DEF Bin, IInv
    <3>2. pages'[p].bin = PRE /\ \A q \in DOMAIN pages : pages'[q] = pages[q] /\ pages[q].bin \in Bin
      BY <2>1, <2>2, PageFacts
    <3>3. Listed(bins', pages')
      <4>1. AddsPage(bins', pages', bins, pages, p, PRE)
        BY <2>1, <3>1, <3>2 DEF AddsPage
      <4> QED BY <3>1, <4>1, ListedNew
    <3> QED BY <3>3
  <2>5. UsedIn(p, g) = {}
    BY <2>2 DEF UsedIn
  <2>6. OwnersMatchBlocks'
    <3>1. Used(pages') = {e \in Used(pages) : e.page # p} \cup UsedIn(p, pages'[p])
      BY <2>1, UsedReplaced
    <3>2. \A e \in Used(pages) : e.page # p
      BY DEF Used, UsedIn
    <3>3. Used(pages') = owned'  BY <2>1, <2>5, <3>1, <3>2, UsedIsOwned
    <3> QED BY <3>3 DEF OwnersMatchBlocks, UsedExtents, Used
  <2>7. NoIdlePage'
    BY <2>1, <2>2 DEF IInv, NoIdlePage
  <2> QED BY <2>1, <2>3, <2>4, <2>6, <2>7 DEF IInv
<1> QED BY <1>1, <1>2

\* gsl_shmem_deinit: the pages it does not free are gone by then.
LEMMA DeinitStep == IInv /\ ShmemDeinit => IInv'
<1> SUFFICES ASSUME IInv, ShmemDeinit PROVE IInv'
  OBVIOUS
<1>1. \A p \in DOMAIN pages : \E k \in 1 .. Len(bins[PRE]) : bins[PRE][k] = p
  <2>1. \A p \in DOMAIN pages : pages[p].bin = PRE
    BY DEF IInv, NoIdlePage, ShmemDeinit
  <2> QED BY <2>1 DEF IInv, Listed
<1>2. DOMAIN pages' = {}
  BY <1>1 DEF ShmemDeinit, Without
<1>3. Listed(bins, pages)'
  <2>1. \A b \in Bin : bins'[b] = <<>> /\ bins'[b] \in Seq(DOMAIN pages') /\ Len(bins'[b]) = 0
    BY DEF ShmemDeinit
  <2>2. bins' \in [Bin -> Seq(DOMAIN pages')]  BY <2>1 DEF ShmemDeinit
  <2> QED BY <1>2, <2>1, <2>2 DEF Listed
<1>4. OwnersMatchBlocks'
  BY <1>2 DEF OwnersMatchBlocks, UsedExtents, ShmemDeinit
<1> QED BY <1>2, <1>3, <1>4 DEF IInv, NoIdlePage, ShmemDeinit

\* A new page p with one extent in use that has an owner.
LEMMA NewPageStep ==
  ASSUME IInv, NEW p \in Page, p \notin DOMAIN pages, NEW g, PageInv(g),
         NEW e, e.page = p, UsedIn(p, g) = {e},
         pages' = With(p, g), bins' = [bins EXCEPT ![g.bin] = Append(@, p)],
         owned' = owned \cup {e}, up' = up
  PROVE  IInv'
<1>1. /\ DOMAIN pages' = DOMAIN pages \cup {p} /\ pages'[p] = g
      /\ \A q \in DOMAIN pages : pages'[q] = pages[q]
  BY DEF With
<1>2. \A q \in DOMAIN pages' : PageInv(pages'[q])
  BY <1>1 DEF IInv
<1>3. Listed(bins, pages)'
  <2> DEFINE b == g.bin
  <2>1. b \in Bin /\ Listed(bins, pages)  BY DEF PageInv, PageOK, IInv
  <2>2. pages'[p].bin = b /\ \A q \in DOMAIN pages : pages'[q] = pages[q] /\ pages[q].bin \in Bin
    BY <1>1, PageFacts
  <2>3. bins' = [bins EXCEPT ![b] = Append(@, p)]  OBVIOUS
  <2>4. Listed(bins', pages')
    <3>1. AddsPage(bins', pages', bins, pages, p, b)
      BY <1>1, <2>1, <2>2, <2>3 DEF AddsPage
    <3> QED BY <2>1, <3>1, ListedNew
  <2> QED BY <2>4
<1>4. OwnersMatchBlocks'
  <2>1. Used(pages') = {x \in Used(pages) : x.page # p} \cup UsedIn(p, pages'[p])
    BY <1>1, UsedReplaced
  <2>2. \A x \in Used(pages) : x.page # p
    BY DEF Used, UsedIn
  <2>3. Used(pages') = owned'  BY <1>1, <2>1, <2>2, UsedIsOwned
  <2> QED BY <2>3 DEF OwnersMatchBlocks, UsedExtents, Used
<1>5. NoIdlePage'
  BY <1>1 DEF IInv, NoIdlePage
<1> QED BY <1>1, <1>2, <1>3, <1>4, <1>5 DEF IInv

\* The table of page p replaced; its extents in use are given by their owners.
LEMMA SamePageStep ==
  ASSUME IInv, NEW p \in DOMAIN pages, NEW h, SamePage(h, pages[p]),
         DOMAIN pages' = DOMAIN pages, pages'[p] = h, \A q \in DOMAIN pages \ {p} : pages'[q] = pages[q],
         bins' = bins, up' = up,
         \A x : x.page # p => (x \in owned' <=> x \in owned),
         {x \in owned' : x.page = p} = UsedIn(p, h),
         (up /\ h.bin = PRE) \/ UsedIn(p, h) # {}
  PROVE  IInv'
<1>1. \A q \in DOMAIN pages' : PageInv(pages'[q])
  BY DEF IInv, SamePage
<1>2. Listed(bins, pages)'
  <2>1. Listed(bins, pages) /\ \A q \in DOMAIN pages : pages'[q].bin = pages[q].bin
    BY DEF IInv, SamePage
  <2>2. Listed(bins, pages')  BY <2>1, ListedKept
  <2> QED BY <2>2
<1>3. OwnersMatchBlocks'
  <2>1. DOMAIN pages' = DOMAIN pages \cup {p}  OBVIOUS
  <2>2. Used(pages') = {x \in Used(pages) : x.page # p} \cup UsedIn(p, pages'[p])
    BY <2>1, UsedReplaced
  <2>3. Used(pages') = owned'  BY <2>2, UsedIsOwned
  <2> QED BY <2>3 DEF OwnersMatchBlocks, UsedExtents, Used
<1>4. NoIdlePage'
  <2> SUFFICES ASSUME NEW q \in DOMAIN pages, ~(up' /\ pages'[q].bin = PRE)
               PROVE  \E a \in owned' : a.page = q
    BY DEF NoIdlePage
  <2>1. CASE q = p  BY <2>1
  <2>2. CASE q # p  BY <2>2 DEF IInv, NoIdlePage
  <2> QED BY <2>1, <2>2
<1> QED BY <1>1, <1>2, <1>3, <1>4 DEF IInv

\* Page p freed with everything in it.
LEMMA FreePageStep ==
  ASSUME IInv, NEW p \in DOMAIN pages, FreePage(p), up' = up,
         owned' = {x \in owned : x.page # p}
  PROVE  IInv'
<1>1. DOMAIN pages' = DOMAIN pages \ {p} /\ \A q \in DOMAIN pages' : pages'[q] = pages[q]
  BY DEF FreePage, Without
<1>2. Listed(bins, pages)'
  <2>1. Listed([bins EXCEPT ![pages[p].bin] = Deleted(@, p)], pages')
    <3>1. Listed(bins, pages)  BY DEF IInv
    <3> QED BY <1>1, <3>1, PageFacts, ListedDropped
  <2> QED BY <2>1 DEF FreePage
<1>3. OwnersMatchBlocks'
  <2>1. Used(pages') = {x \in Used(pages) : x.page # p}
    <3>1. \A q \in DOMAIN pages \ {p} : pages'[q] = pages[q]  BY <1>1
    <3>2. \A x : x \in Used(pages') <=> x \in Used(pages) /\ x.page # p
      BY <1>1, <3>1, UsedDropped
    <3> QED BY <3>2
  <2> QED BY <2>1, UsedIsOwned DEF OwnersMatchBlocks, UsedExtents, Used
<1>4. NoIdlePage'
  BY <1>1 DEF IInv, NoIdlePage
<1> QED BY <1>1, <1>2, <1>3, <1>4 DEF IInv

\* The extent AllocInPage gives out.
LEMMA FitExists ==
  ASSUME NEW g, PageInv(g), NEW n \in Nat, Fitting(g.blocks, n) # {}
  PROVE  FirstFit(g.blocks, n) \in Fitting(g.blocks, n)
<1> DEFINE F == Fitting(g.blocks, n)
           S == {g.blocks[i].base : i \in F}
<1>1. PICK m \in Nat \ {0} : g.blocks \in [0 .. m - 1 -> Block] /\ Tiled(g.blocks, g.frames)
  BY PageTable
<1>2. \A i \in F : g.blocks[i].base \in Nat
  BY <1>1 DEF Fitting, InUse, Tiled, Block
<1>3. S \in SUBSET Nat /\ S # {}  BY <1>2
<1>4. Lowest(S) \in S /\ \A j \in S : Lowest(S) <= j
  <2> HIDE DEF S
  <2> QED BY <1>3, LowestIn
<1>5. PICK i \in F : g.blocks[i].base = Lowest(S)  BY <1>4
<1>6. \A j \in F : g.blocks[i].base <= g.blocks[j].base  BY <1>4, <1>5
<1> QED BY <1>5, <1>6 DEF FirstFit

\* gsl_shmem_alloc_ext in a page with room.
LEMMA AllocInPageStep ==
  ASSUME IInv, NEW n \in Request, AllocInPage(n)
  PROVE  IInv' /\ \E e \in owned' : owned' = owned \cup {e}
<1> DEFINE k == Lowest(Roomy(n))
           p == Searched[k]
           g == pages[p]
           i == FirstFit(g.blocks, n)
           e == [page |-> p, base |-> g.blocks[i].base, size |-> n]
           h == [g EXCEPT !.blocks = DoAllocBlock(g.blocks, i, n)]
<1>0. n \in Nat /\ 1 <= n  BY DEF Request
<1>1. bins[PRE] \in Seq(DOMAIN pages) /\ bins[SCRATCH] \in Seq(DOMAIN pages)
  BY DEF IInv, Listed, Bin
<1>2. Searched \in Seq(DOMAIN pages)  BY <1>1 DEF Searched
<1>3. k \in Roomy(n)
  <2>1. Roomy(n) \in SUBSET Nat  BY <1>2 DEF Roomy
  <2> QED BY <2>1, LowestIn DEF AllocInPage
<1> HIDE DEF k
<1>4. p \in DOMAIN pages /\ Fitting(g.blocks, n) # {}
  BY <1>2, <1>3 DEF Roomy
<1>5. PageInv(g) /\ g.bin \in {PRE, SCRATCH} /\ ~g.extern
  <2>1. g.bin \in {PRE, SCRATCH}
    <3>1. k \in 1 .. Len(bins[PRE] \o bins[SCRATCH]) /\ p = (bins[PRE] \o bins[SCRATCH])[k]
      BY <1>3 DEF Roomy, Searched
    <3>2. \A b \in Bin : \A j \in 1 .. Len(bins[b]) : pages[bins[b][j]].bin = b
      BY DEF IInv, Listed
    <3>3. \/ k \in 1 .. Len(bins[PRE]) /\ p = bins[PRE][k]
          \/ k - Len(bins[PRE]) \in 1 .. Len(bins[SCRATCH]) /\ p = bins[SCRATCH][k - Len(bins[PRE])]
      BY <1>1, <3>1, ConcatIndex
    <3> HIDE DEF p
    <3> QED BY <3>2, <3>3 DEF Bin
  <2> QED BY <1>4, <2>1, PageFacts DEF PRE, SCRATCH, DEDICATED
<1>6. i \in InUse(g.blocks) /\ ~g.blocks[i].used /\ n <= g.blocks[i].size
  <2>1. i \in Fitting(g.blocks, n)  BY <1>0, <1>4, <1>5, FitExists
  <2> QED BY <2>1 DEF Fitting
<1>7. SamePage(h, g) /\ UsedIn(p, h) = UsedIn(p, g) \cup {e}
  <2>1. g.bin # DEDICATED  BY <1>5 DEF PRE, SCRATCH, DEDICATED
  <2> HIDE DEF i, g
  <2> QED BY <1>0, <1>5, <1>6, <2>1, AllocPage
<1>8. /\ pages' = [pages EXCEPT ![p].blocks = DoAllocBlock(@, i, n)]
      /\ owned' = owned \cup {e} /\ bins' = bins /\ up' = up
  BY DEF AllocInPage, k
<1>9. DOMAIN pages' = DOMAIN pages /\ pages'[p] = h /\ \A q \in DOMAIN pages \ {p} : pages'[q] = pages[q]
  BY <1>4, <1>8
<1> HIDE DEF h, i, p
<1>10. {x \in owned' : x.page = p} = UsedIn(p, h)
  <2>1. UsedIn(p, g) = {x \in owned : x.page = p}
    BY <1>4, UsedIsOwned, UsedOfPage
  <2>2. e.page = p  OBVIOUS
  <2> HIDE DEF e
  <2> QED BY <1>7, <1>8, <2>1, <2>2
<1>11. \A x : x.page # p => (x \in owned' <=> x \in owned)
  BY <1>8
<1>12. IInv'
  <2>1. UsedIn(p, h) # {}  BY <1>7
  <2> HIDE DEF e
  <2> QED BY <1>4, <1>7, <1>8, <1>9, <1>10, <1>11, <2>1, SamePageStep
<1>13. e \in owned'  BY <1>8
<1> QED BY <1>8, <1>12, <1>13

\* gsl_shmem_alloc_ext in a new page.
LEMMA AllocNewPageStep ==
  ASSUME IInv, NEW n \in Request, NEW own \in BOOLEAN, AllocNewPage(n, own)
  PROVE  IInv' /\ \E e \in owned' : owned' = owned \cup {e}
<1> DEFINE bin == IF OwnPage(n, own) THEN DEDICATED ELSE SCRATCH
           size == IF OwnPage(n, own) THEN RoundUp(n) ELSE n
           page == NewPage(bin, RoundUp(n), FALSE)
           h == [page EXCEPT !.blocks = DoAllocBlock(page.blocks, 0, size)]
<1>1. PICK p \in Page :
        /\ p \notin DOMAIN pages /\ up' = up
        /\ pages' = With(p, [page EXCEPT !.blocks = DoAllocBlock(@, 0, size)])
        /\ bins' = [bins EXCEPT ![bin] = Append(@, p)]
        /\ owned' = owned \cup {[page |-> p, base |-> 0, size |-> size]}
  BY DEF AllocNewPage
<1> DEFINE e == [page |-> p, base |-> 0, size |-> size]
<1>2. n \in Nat /\ 1 <= n /\ RoundUp(n) \in 1 .. MaxFrames /\ n <= RoundUp(n)
  <2>1. n \in Nat /\ 1 <= n /\ RoundUp(n) <= MaxFrames  BY DEF Request
  <2>2. RoundUp(n) \in Nat /\ n <= RoundUp(n)  BY <2>1, RoundUpBound
  <2> QED BY <2>1, <2>2, SizesAssumption
<1>3. /\ bin \in Bin /\ size \in Nat /\ 1 <= size /\ size <= RoundUp(n)
      /\ bin = DEDICATED => size = RoundUp(n)
  BY <1>2 DEF Bin, SCRATCH, DEDICATED
<1>4. /\ PageInv(page) /\ InUse(page.blocks) = {0} /\ ~page.blocks[0].used
      /\ page.blocks[0].base = 0 /\ page.blocks[0].size = RoundUp(n)
      /\ page.bin = bin /\ page.extern = FALSE
  <2> HIDE DEF bin
  <2>1. IsNewPage(page, bin, RoundUp(n), FALSE)  BY <1>2, <1>3, NewPageInv
  <2> QED BY <2>1 DEF IsNewPage
<1>5. /\ SamePage(h, page)
      /\ UsedIn(p, h) = UsedIn(p, page) \cup {[page |-> p, base |-> page.blocks[0].base, size |-> size]}
  <2>1. 0 \in InUse(page.blocks)  BY <1>4
  <2> HIDE DEF page, size, bin
  <2> QED BY <1>3, <1>4, <2>1, AllocPage
<1>6. UsedIn(p, page) = {}
  BY <1>4 DEF UsedIn
<1>7. PageInv(h) /\ h.bin = bin /\ UsedIn(p, h) = {e}
  <2> HIDE DEF page, size, bin, h
  <2> QED BY <1>4, <1>5, <1>6 DEF SamePage
<1>8. /\ pages' = With(p, h) /\ owned' = owned \cup {e} /\ up' = up
      /\ bins' = [bins EXCEPT ![h.bin] = Append(@, p)] /\ e.page = p
  BY <1>1, <1>7
<1> HIDE DEF h, e
<1>9. IInv'
  BY <1>1, <1>7, <1>8, NewPageStep
<1> QED BY <1>8, <1>9

\* gsl_shmem_map_extern_mem.
LEMMA MapExternStep ==
  ASSUME IInv, NEW n \in Request, MapExtern(n)
  PROVE  IInv' /\ \E e \in owned' : owned' = owned \cup {e}
<1> DEFINE g == NewPage(DEDICATED, RoundUp(n), TRUE)
<1>1. PICK p \in Page :
        /\ p \notin DOMAIN pages /\ up' = up
        /\ pages' = With(p, NewPage(DEDICATED, RoundUp(n), TRUE))
        /\ bins' = [bins EXCEPT ![DEDICATED] = Append(@, p)]
        /\ owned' = owned \cup {[page |-> p, base |-> 0, size |-> RoundUp(n)]}
  BY DEF MapExtern
<1> DEFINE e == [page |-> p, base |-> 0, size |-> RoundUp(n)]
<1>2. RoundUp(n) \in 1 .. MaxFrames
  <2>1. n \in Nat /\ 1 <= n /\ RoundUp(n) <= MaxFrames  BY DEF Request
  <2>2. RoundUp(n) \in Nat /\ n <= RoundUp(n)  BY <2>1, RoundUpBound
  <2> QED BY <2>1, <2>2, SizesAssumption
<1>3. /\ PageInv(g) /\ InUse(g.blocks) = {0} /\ g.blocks[0].base = 0
      /\ g.blocks[0].size = RoundUp(n) /\ g.bin = DEDICATED /\ g.extern = TRUE
  <2>1. DEDICATED \in Bin  BY DEF Bin
  <2>2. IsNewPage(g, DEDICATED, RoundUp(n), TRUE)  BY <1>2, <2>1, NewPageInv
  <2> QED BY <2>2 DEF IsNewPage
<1> HIDE DEF g
<1>4. UsedIn(p, g) = {e}
  BY <1>3 DEF UsedIn
<1>5. /\ pages' = With(p, g) /\ owned' = owned \cup {e} /\ up' = up
      /\ bins' = [bins EXCEPT ![g.bin] = Append(@, p)] /\ e.page = p
  BY <1>1, <1>3 DEF g
<1> HIDE DEF e
<1>6. IInv'
  BY <1>1, <1>3, <1>4, <1>5, NewPageStep
<1> QED BY <1>5, <1>6

\* An owner and the page it names.
LEMMA OwnerFacts ==
  ASSUME IInv, NEW a \in owned
  PROVE  /\ a.page \in DOMAIN pages
         /\ UsedIn(a.page, pages[a.page]) = {x \in owned : x.page = a.page}
         /\ a \in UsedIn(a.page, pages[a.page])
<1>1. a \in Used(pages)  BY UsedIsOwned
<1>2. a.page \in DOMAIN pages  BY <1>1 DEF Used, UsedIn
<1>3. UsedIn(a.page, pages[a.page]) = {x \in owned : x.page = a.page}
  BY <1>2, UsedOfPage, UsedIsOwned
<1> QED BY <1>2, <1>3

\* gsl_shmem_unmap_extern_mem.
LEMMA UnmapExternStep ==
  ASSUME IInv, NEW a \in owned, UnmapExtern(a)
  PROVE  IInv'
<1> DEFINE p == a.page
<1>1. p \in DOMAIN pages /\ a \in UsedIn(p, pages[p]) /\ UsedIn(p, pages[p]) = {x \in owned : x.page = p}
  BY OwnerFacts
<1>2. InUse(pages[p].blocks) = {0}
  BY <1>1, PageFacts, DedicatedWhole DEF UnmapExtern
<1>3. \A x \in UsedIn(p, pages[p]) : x = a
  BY <1>1, <1>2 DEF UsedIn
<1>4. owned' = {x \in owned : x.page # p}
  <2>1. owned' = owned \ {a}  BY DEF UnmapExtern
  <2> QED BY <1>1, <1>3, <2>1
<1>5. FreePage(p) /\ up' = up  BY DEF UnmapExtern
<1> QED BY <1>1, <1>4, <1>5, FreePageStep

\* gsl_shmem_free: the struct names a block in use, and the page goes if it was the last.
LEMMA FreeStep ==
  ASSUME IInv, NEW a \in owned, Free(a)
  PROVE  IInv'
<1> DEFINE p == a.page
           g == pages[p]
<1>1. p \in DOMAIN pages /\ a \in UsedIn(p, g) /\ UsedIn(p, g) = {x \in owned : x.page = p}
  BY OwnerFacts
<1>2. PICK i \in InUse(g.blocks) :
        /\ up /\ ~g.extern /\ g.blocks[i].base = a.base
        /\ IF g.bin # PRE /\ PageIsFree(p, DoFreeBlock(g.blocks, i))
             THEN FreePage(p)
             ELSE pages' = [pages EXCEPT ![p].blocks = DoFreeBlock(g.blocks, i)] /\ UNCHANGED bins
        /\ owned' = owned \ {a} /\ up' = up
  BY DEF Free
<1>3. PageInv(g)  BY <1>1, PageFacts
<1>4. g.blocks[i].used /\ a = [page |-> p, base |-> g.blocks[i].base, size |-> g.blocks[i].size]
  <2>1. PICK j \in InUse(g.blocks) :
          g.blocks[j].used /\ a = [page |-> p, base |-> g.blocks[j].base, size |-> g.blocks[j].size]
    BY <1>1, <1>2 DEF UsedIn
  <2>2. g.blocks[j].base = g.blocks[i].base  BY <1>2, <2>1
  <2>3. i = j
    <3> HIDE DEF g
    <3> QED BY <1>3, <2>2, BaseIsOne
  <2> QED BY <2>1, <2>3
<1> DEFINE blk == DoFreeBlock(g.blocks, i)
           h == [g EXCEPT !.blocks = blk]
<1>5. SamePage(h, g) /\ h.blocks = blk /\ UsedIn(p, h) = UsedIn(p, g) \ {a}
  <2> HIDE DEF g
  <2> QED BY <1>2, <1>3, <1>4, FreePageBlock
<1>6. PageIsFree(p, blk) <=> UsedIn(p, h) = {}
  <2>1. PageInv(h) /\ h.frames = g.frames /\ h.extern = FALSE
    BY <1>2, <1>5 DEF SamePage, PageInv, PageOK
  <2> HIDE DEF h, blk
  <2>2. PageIsFree(p, blk) <=> \A k \in InUse(h.blocks) : ~h.blocks[k].used
    BY <1>5, <2>1, IsFreeIffUnused DEF PageIsFree
  <2> QED BY <2>1, <2>2 DEF UsedIn
<1>7. a.page = p  OBVIOUS
<1> HIDE DEF blk
<1>8. CASE g.bin # PRE /\ PageIsFree(p, blk)
  <2>1. FreePage(p)  BY <1>2, <1>8 DEF blk
  <2>2. owned' = {x \in owned : x.page # p}
    <3> HIDE DEF p, g, h
    <3> QED BY <1>1, <1>2, <1>5, <1>6, <1>7, <1>8
  <2> QED BY <1>1, <1>2, <2>1, <2>2, FreePageStep
<1>9. CASE ~(g.bin # PRE /\ PageIsFree(p, blk))
  <2>1. pages' = [pages EXCEPT ![p].blocks = blk] /\ bins' = bins
    BY <1>2, <1>9 DEF blk
  <2>2. DOMAIN pages' = DOMAIN pages /\ pages'[p] = h /\ \A q \in DOMAIN pages \ {p} : pages'[q] = pages[q]
    BY <1>1, <2>1
  <2>3. (up /\ h.bin = PRE) \/ UsedIn(p, h) # {}
    BY <1>2, <1>5, <1>6, <1>9 DEF SamePage
  <2>4. /\ \A x : x.page # p => (x \in owned' <=> x \in owned)
        /\ {x \in owned' : x.page = p} = UsedIn(p, h)
    <3> HIDE DEF p, g, h
    <3> QED BY <1>1, <1>2, <1>5, <1>7
  <2> HIDE DEF h
  <2> QED BY <1>1, <1>2, <1>5, <2>1, <2>2, <2>3, <2>4, SamePageStep
<1> QED BY <1>8, <1>9

\* Every step keeps the invariant, and gives out or takes back at most one extent.
LEMMA StepInv ==
  IInv /\ [Next]_vars =>
    /\ IInv'
    /\ \/ owned' = owned
       \/ \E e \in owned' : owned' = owned \cup {e}
       \/ \E e \in owned : owned' = owned \ {e}
<1> SUFFICES ASSUME IInv, [Next]_vars
             PROVE  /\ IInv'
                    /\ \/ owned' = owned
                       \/ \E e \in owned' : owned' = owned \cup {e}
                       \/ \E e \in owned : owned' = owned \ {e}
  OBVIOUS
<1>1. CASE ShmemInit
  BY <1>1, InitStep DEF ShmemInit
<1>2. CASE ShmemDeinit
  BY <1>2, DeinitStep DEF ShmemDeinit
<1>3. ASSUME NEW n \in Request, AllocInPage(n)
      PROVE  IInv' /\ \E e \in owned' : owned' = owned \cup {e}
  BY <1>3, AllocInPageStep
<1>4. ASSUME NEW n \in Request, MapExtern(n)
      PROVE  IInv' /\ \E e \in owned' : owned' = owned \cup {e}
  BY <1>4, MapExternStep
<1>5. ASSUME NEW n \in Request, NEW own \in BOOLEAN, AllocNewPage(n, own)
      PROVE  IInv' /\ \E e \in owned' : owned' = owned \cup {e}
  BY <1>5, AllocNewPageStep
<1>6. ASSUME NEW a \in owned, Free(a)
      PROVE  IInv' /\ \E e \in owned : owned' = owned \ {e}
  BY <1>6, FreeStep DEF Free
<1>7. ASSUME NEW a \in owned, UnmapExtern(a)
      PROVE  IInv' /\ \E e \in owned : owned' = owned \ {e}
  BY <1>7, UnmapExternStep DEF UnmapExtern
<1>8. CASE UNCHANGED vars
  BY <1>8 DEF vars, IInv, OwnersMatchBlocks, UsedExtents, NoIdlePage
<1> QED BY <1>1, <1>2, <1>3, <1>4, <1>5, <1>6, <1>7, <1>8 DEF Next

\* The invariant holds of every behaviour.
THEOREM Inductive == Spec => []IInv
<1>1. Init => IInv  BY InitInv
<1>2. IInv /\ [Next]_vars => IInv'  BY StepInv
<1> QED BY <1>1, <1>2, PTL DEF Spec

-----------------------------------------------------------------------------
(* What follows from the invariant. *)

\* Blocks are apart, so the extents of their owners are.
LEMMA OwnersApart == IInv => NoOverlap
<1> SUFFICES ASSUME IInv, NEW a \in owned, NEW b \in owned, a # b, a.page = b.page
             PROVE  a.base + a.size <= b.base \/ b.base + b.size <= a.base
  BY DEF NoOverlap, Apart
<1> DEFINE g == pages[a.page]
<1>1. a.page \in DOMAIN pages /\ a \in UsedIn(a.page, g) /\ b \in UsedIn(a.page, g)
  BY OwnerFacts
<1>2. PICK i \in InUse(g.blocks) : a = [page |-> a.page, base |-> g.blocks[i].base, size |-> g.blocks[i].size]
  BY <1>1 DEF UsedIn
<1>3. PICK j \in InUse(g.blocks) : b = [page |-> a.page, base |-> g.blocks[j].base, size |-> g.blocks[j].size]
  BY <1>1 DEF UsedIn
<1>4. i # j  BY <1>2, <1>3
<1>5. Tiled(g.blocks, g.frames)  BY <1>1, PageFacts DEF PageInv
<1>6. /\ a.base = g.blocks[i].base /\ a.size = g.blocks[i].size
      /\ b.base = g.blocks[j].base /\ b.size = g.blocks[j].size
  BY <1>2, <1>3
<1> QED BY <1>4, <1>5, <1>6 DEF Tiled

\* The invariant gives every variable its type.
LEMMA InvType == IInv => TypeOK
<1> SUFFICES ASSUME IInv PROVE TypeOK
  OBVIOUS
<1>1. \A p \in DOMAIN pages : PageOK(pages[p])
  BY PageFacts DEF PageInv
<1>2. bins \in [Bin -> Seq(DOMAIN pages)]  BY DEF IInv, Listed
<1>3. ASSUME NEW a \in owned
      PROVE  a \in [page : DOMAIN pages, base : Index, size : 1 .. MaxFrames]
  <2> DEFINE g == pages[a.page]
  <2>1. a.page \in DOMAIN pages /\ a \in UsedIn(a.page, g)
    BY OwnerFacts
  <2>2. PICK i \in InUse(g.blocks) : a = [page |-> a.page, base |-> g.blocks[i].base, size |-> g.blocks[i].size]
    BY <2>1 DEF UsedIn
  <2>3. PageInv(g)  BY <2>1, PageFacts
  <2> HIDE DEF g
  <2>4. PICK m \in Nat \ {0} : g.blocks \in [0 .. m - 1 -> Block]
    BY <2>3, PageTable
  <2>5. g.blocks[i].base \in Int /\ g.blocks[i].size \in Int  BY <2>4 DEF Block, InUse
  <2>6. /\ 0 <= g.blocks[i].base /\ 1 <= g.blocks[i].size
        /\ g.blocks[i].base + g.blocks[i].size <= g.frames /\ g.frames \in 1 .. MaxFrames
    BY <2>3 DEF PageInv, PageOK, Tiled
  <2>7. g.blocks[i].base \in Index /\ g.blocks[i].size \in 1 .. MaxFrames
    BY <2>5, <2>6, SizesAssumption DEF Index
  <2> QED BY <2>1, <2>2, <2>7
<1> QED BY <1>1, <1>2, <1>3 DEF IInv, TypeOK

\* Type correctness, the numbers in handles and tables included.
THEOREM Typed == Spec => []TypeOK
BY Inductive, InvType, PTL

\* do_alloc_block's comment is right: an entry of blocks[] is always available, so no
\* frame of a page is ever lost, for every page size, request and order of frees.
THEOREM NoFrameLost == Spec => []PagesTiled
<1>1. IInv => PagesTiled  BY DEF IInv, PageInv, PagesTiled
<1> QED BY <1>1, Inductive, PTL

\* do_free_block leaves no two free neighbours.
THEOREM FreeIsMerged == Spec => []Merged
<1>1. IInv => Merged  BY DEF IInv, PageInv, Merged
<1> QED BY <1>1, Inductive, PTL

\* A block is used exactly while a client holds the struct that names it.
THEOREM UsedHaveOwners == Spec => []OwnersMatchBlocks
<1>1. IInv => OwnersMatchBlocks  BY DEF IInv
<1> QED BY <1>1, Inductive, PTL

\* gsl_shmem_alloc_ext never gives out a frame that is in use.
THEOREM AllocationsApart == Spec => []NoOverlap
BY Inductive, OwnersApart, PTL

\* gsl_shmem_free frees a page with its last allocation, so what gsl_shmem_deinit
\* drops without freeing is empty.
THEOREM IdlePagesAreFreed == Spec => []NoIdlePage
<1>1. IInv => NoIdlePage  BY DEF IInv
<1> QED BY <1>1, Inductive, PTL

\* The allocator implements the heap its clients rely on.
THEOREM ImplementsHeap == Spec => KeepsExtentsApart
<1>1. Init => UsedExtents = {}
  BY DEF Init, UsedExtents
<1>2. ASSUME IInv, IInv', TypeOK', NoOverlap', [Next]_vars PROVE [Heap!Next]_UsedExtents
  <2>1. owned = UsedExtents /\ owned' = UsedExtents'
    BY <1>2 DEF IInv, OwnersMatchBlocks
  <2>2. ASSUME NEW e \in owned', owned' = owned \cup {e} PROVE Heap!Give \/ owned' = owned
    <3>1. CASE e \in owned  BY <2>2, <3>1
    <3>2. CASE e \notin owned
      <4>1. e \in Heap!Extent
        BY <1>2, <2>2 DEF TypeOK, Heap!Extent, Index
      <4>2. \A x \in owned : Heap!Apart(e, x)
        BY <1>2, <2>2, <3>2 DEF NoOverlap, Apart, Heap!Apart
      <4> QED BY <2>1, <2>2, <4>1, <4>2 DEF Heap!Give
    <3> QED BY <3>1, <3>2
  <2>3. ASSUME NEW e \in owned, owned' = owned \ {e} PROVE Heap!TakeBack
    BY <2>1, <2>3 DEF Heap!TakeBack
  <2> QED BY <1>2, <2>1, <2>2, <2>3, StepInv DEF Heap!Next
<1> QED BY <1>1, <1>2, Inductive, Typed, AllocationsApart, PTL DEF KeepsExtentsApart, Heap!Spec, Heap!Init, Spec

-----------------------------------------------------------------------------
(* ACDB's heap of calibrations: a search tree, for every set of key vectors. *)

\* t is a search tree of the nodes S; under has the nodes of every subtree, which
\* are also those that have its root above them.
Part(under, c) == IF c = Null THEN {} ELSE under[c]

\* Every node is in its subtree, and the subtrees of the others there are parts of it.
Nested(S, under) ==
  /\ under \in [Key -> SUBSET Key]
  /\ \A x \in S : x \in under[x] /\ under[x] \subseteq S
  /\ \A x, y \in S : y \in under[x] /\ y # x => under[y] \subseteq under[x] \ {x}

\* The children divide what is below a node by the order of the key vectors.
Downward(t, S, under) ==
  \A x \in S, side \in Side : LET c == t.child[side][x] IN
    /\ c # Null => c \in S /\ t.parent[c] = x
    /\ Part(under, c) = {y \in under[x] \ {x} : Direction(y, x) = side}

Upward(t, S, under) ==
  /\ \A x \in S : LET p == t.parent[x] IN
       IF p = Null THEN under[x] = S
                   ELSE p \in S /\ t.child[Direction(x, p)][p] = x
  /\ \A x, y \in S : x # y =>
       (y \in under[x] <=> t.parent[y] # Null /\ t.parent[y] \in under[x])

SearchTree(t, S, under) ==
  Nested(S, under) /\ Downward(t, S, under) /\ Upward(t, S, under)

\* h has the heights of the subtrees.
High(h, c) == IF c = Null THEN 0 ELSE h[c]

HeightAt(t, h, x) ==
  h[x] = 1 + Deeper(High(h, t.child[Left][x]), High(h, t.child[Right][x]))
LevelAt(t, h, x) == High(h, t.child[Left][x]) - High(h, t.child[Right][x]) \in -1 .. 1

Heights(t, S, h) == h \in [Key -> Nat] /\ \A x \in S : HeightAt(t, h, x)
Level(t, S, h) == \A x \in S : LevelAt(t, h, x)

Rooted == IF saved = {} THEN tree.root = Null
          ELSE tree.root \in saved /\ tree.parent[tree.root] = Null

\* A search has gone the way of the key at every node above the cursor.
OnTheWay(under) ==
  /\ op.at \in saved /\ op.key \in Key /\ (op.key \in saved => op.key \in under[op.at])
  /\ \A x \in saved : op.at \in under[x] /\ x # op.at =>
       op.key # x /\ Direction(op.key, x) = Direction(op.at, x)

\* The new node, before it hangs.
Fresh(t, k) ==
  /\ \A side \in Side : t.child[side][k] = Null
  /\ t.parent[k] = Null /\ t.depth[k] = 1

\* Above the cursor the depths are not updated yet.
UpToDate(under, h) ==
  \A x \in saved : /\ op.up = Null \/ op.up \notin under[x]
                   /\ op.again = Null \/ op.again \notin under[x]
                   => tree.depth[x] = h[x]

\* Before the first rotation: old has the heights without the new node.  They are
\* level; those of the nodes above the new one have grown by one at most, and are
\* level up to the cursor.
Growing(under, h, old) ==
  /\ old \in [Key -> Nat] /\ old[op.key] = 0
  /\ \A side \in Side : tree.child[side][op.key] = Null
  /\ \A x \in saved \ {op.key} : HeightAt(tree, old, x) /\ LevelAt(tree, old, x)
  /\ \A x \in saved : /\ h[x] \in {old[x], old[x] + 1}
                      /\ op.key \notin under[x] => h[x] = old[x]
  /\ \A x \in saved : (op.at = Null \/ op.at \notin under[x]) => LevelAt(tree, h, x)
  /\ op.again = Null
  /\ op.pc = "depths" => op.below = op.key
  /\ op.at # Null =>
       /\ op.at \in saved /\ op.key \in under[op.at] /\ op.key \in under[op.below]
       /\ \/ op.below = op.key /\ tree.parent[op.key] = op.at
          \/ tree.parent[op.below] # Null /\ tree.parent[tree.parent[op.below]] = op.at

\* After it: everything is level.
Settled(under, h) ==
  /\ Level(tree, saved, h)
  /\ op.at # Null =>
       /\ op.at \in saved
       /\ \/ op.below \in under[op.at]
          \/ /\ tree.parent[op.at] # Null /\ op.below \in under[tree.parent[op.at]]
             /\ h[op.at] <= h[op.below] + 1

\* The walk has listed the lowest nodes; the others are below the cursor or on the
\* stack, each with what is to the right of it, in order.
Later(under, x) == {x} \cup Part(under, tree.child[Right][x])
Visited == {op.list[i] : i \in 1 .. Len(op.list)}
Ascending == \A i, j \in 1 .. Len(op.list) : i < j => op.list[i] < op.list[j]

WalkInv(under) ==
  LET n == Len(op.stack)
      on == UNION {Later(under, op.stack[i]) : i \in 1 .. n}
  IN /\ op.at \in saved \cup {Null} /\ \A i \in 1 .. n : op.stack[i] \in saved
     /\ Ascending /\ Visited \cup Part(under, op.at) \cup on = saved
     /\ \A x \in Visited, y \in Part(under, op.at) \cup on : x < y
     /\ \A i \in 1 .. n, x \in Part(under, op.at) : x < op.stack[i]
     /\ \A i, j \in 1 .. n : i < j => \A x \in Later(under, op.stack[i]) : x < op.stack[j]

Changing == op.pc \in {"depths", "balance"}

HeapInv(under, h, old) ==
  /\ SearchTree(tree, saved, under) /\ Heights(tree, saved, h)
  /\ ~Changing => Rooted /\ Level(tree, saved, h)
  /\ op.pc # "depths" => \A x \in saved : tree.depth[x] = h[x]
  /\ op.pc \in {"search", "insert"} => OnTheWay(under)
  /\ op.pc = "found" => op.key \in saved
  /\ op.pc = "absent" => op.key \in Key \ saved
  /\ op.pc = "insert" => op.key \notin saved /\ Fresh(tree, op.key)
  /\ Changing => /\ op.key \in saved /\ op.below \in saved
                 /\ Growing(under, h, old) \/ Settled(under, h)
                 /\ tree.root \in saved
                 /\ op.pc = "balance" /\ op.at = Null => tree.parent[tree.root] = Null
  /\ op.pc = "depths" => /\ {op.up, op.again} \subseteq saved \cup {Null}
                         /\ op.at # Null /\ UpToDate(under, h)
  /\ op.pc = "walk" => WalkInv(under)
  /\ op.pc = "listed" => Visited = saved /\ Ascending
-----------------------------------------------------------------------------
(* The order of the key vectors. *)

LEMMA SideFacts == /\ Left \in Side /\ Right \in Side /\ Left # Right
                   /\ \A s \in Side : Other(s) \in Side /\ Other(s) # s /\ Other(Other(s)) = s
                   /\ \A s, r \in Side : r # s => r = Other(s)
BY DEF Left, Right, Side, Other

\* Direction is a strict order and its converse.
LEMMA DirectionFacts ==
  /\ \A x, y \in Key : Direction(x, y) \in Side
  /\ \A x, y \in Key : x # y => Direction(y, x) = Other(Direction(x, y))
  /\ \A x, y, z \in Key : x # y /\ y # z /\ Direction(x, y) = Direction(y, z)
       => x # z /\ Direction(x, z) = Direction(y, z)
BY KeyAssumption DEF Direction, Left, Right, Side, Other

\* Null is not a node.
LEMMA NullIsNoKey == Null \notin Key
BY KeyAssumption

-----------------------------------------------------------------------------
(* Rotations keep the search tree (acdb_tree_rotate_right and _left). *)

\* t2 is t after b has taken the place of its parent a, whose child it was on side.
Turned(t, t2, a, b, side) ==
  LET d == t.child[Other(side)][b]
      p == t.parent[a]
  IN /\ t2 \in Tree
     /\ \A s \in Side, x \in Key :
          t2.child[s][x] = IF x = a /\ s = side THEN d
                           ELSE IF x = b /\ s = Other(side) THEN a
                           ELSE IF x = p /\ s = Direction(b, p) THEN b
                           ELSE t.child[s][x]
     /\ t2.depth = t.depth /\ t2.root = t.root
     /\ \A x \in Key : t2.parent[x] = IF x = b THEN p
                                       ELSE IF x = a THEN b
                                       ELSE IF x = d THEN a
                                       ELSE t.parent[x]

\* The subtrees then.
TurnedUnder(t, under, a, b, side) ==
  [under EXCEPT ![a] = (under[a] \ under[b]) \cup Part(under, t.child[Other(side)][b]),
                ![b] = under[a]]

\* What a search tree says of the child of x on side s.
ChildOf(t, S, under, x, s) == LET c == t.child[s][x] IN
  /\ c # Null => /\ c \in S /\ t.parent[c] = x /\ c # x /\ Direction(c, x) = s
                 /\ c \in under[x] /\ under[c] \subseteq under[x] \ {x}
                 /\ \A y \in Key : y \in under[c] <=>
                       y \in under[x] /\ y # x /\ Direction(y, x) = s
  /\ c = Null => \A y \in Key : y \in under[x] /\ y # x => Direction(y, x) # s

LEMMA ChildFacts ==
  ASSUME NEW t \in Tree, NEW S, S \subseteq Key, NEW under, SearchTree(t, S, under)
  PROVE  \A x \in S, s \in Side : ChildOf(t, S, under, x, s)
<1> SUFFICES ASSUME NEW x \in S, NEW s \in Side PROVE ChildOf(t, S, under, x, s)
  OBVIOUS
<1> DEFINE c == t.child[s][x]
<1>1. /\ c # Null => c \in S /\ t.parent[c] = x
      /\ Part(under, c) = {y \in under[x] \ {x} : Direction(y, x) = s}
  BY DEF SearchTree, Downward
<1>2. CASE c = Null
  BY <1>1, <1>2 DEF Part, ChildOf
<1>3. CASE c # Null
  <2>1. c \in under[c]  BY <1>1, <1>3 DEF SearchTree, Nested
  <2>2. under[c] = {y \in under[x] \ {x} : Direction(y, x) = s}  BY <1>1, <1>3 DEF Part
  <2> QED BY <1>1, <1>3, <2>1, <2>2 DEF ChildOf
<1> QED BY <1>2, <1>3

\* The nodes around an edge from a to its child b.
Edge(t, S, under, a, side) ==
  LET b == t.child[side][a]
      d == t.child[Other(side)][b]
      p == t.parent[a]
  IN /\ b \in S /\ b # a /\ t.parent[b] = a /\ Direction(b, a) = side
     /\ Direction(a, b) = Other(side)
     /\ a \in under[a] /\ b \in under[a] /\ b \in under[b]
     /\ under[b] \subseteq under[a] \ {a} /\ under[a] \subseteq S
     /\ d # Null => /\ d \in S /\ d # a /\ d # b /\ t.parent[d] = b /\ Direction(d, a) = side
                    /\ d \in under[d] /\ under[d] \subseteq under[b] \ {b}
     /\ p # Null => /\ p \in S /\ p # a /\ p # b /\ p \notin under[a] /\ a \in under[p]
                    /\ t.child[Direction(a, p)][p] = a /\ Direction(b, p) = Direction(a, p)
                    /\ Direction(b, p) \in Side /\ under[a] \subseteq under[p] \ {p}
     /\ p = Null => under[a] = S

LEMMA EdgeFacts ==
  ASSUME NEW t \in Tree, NEW S, S \subseteq Key, NEW under, SearchTree(t, S, under),
         NEW a \in S, NEW side \in Side, t.child[side][a] # Null
  PROVE  Edge(t, S, under, a, side)
<1> DEFINE b == t.child[side][a]
           d == t.child[Other(side)][b]
           p == t.parent[a]
<1>0. ChildOf(t, S, under, a, side)  BY ChildFacts
<1>1. /\ b \in S /\ t.parent[b] = a /\ b # a /\ Direction(b, a) = side
      /\ b \in under[a] /\ under[b] \subseteq under[a] \ {a}
      /\ \A y \in Key : y \in under[b] <=> y \in under[a] /\ y # a /\ Direction(y, a) = side
  BY <1>0 DEF ChildOf
<1>2. Direction(a, b) = Other(side)
  BY <1>1, DirectionFacts
<1>3. a \in under[a] /\ b \in under[b] /\ under[a] \subseteq S
  BY <1>1 DEF SearchTree, Nested
<1>4. ASSUME d # Null
      PROVE  /\ d \in S /\ d # a /\ d # b /\ t.parent[d] = b /\ Direction(d, a) = side
             /\ d \in under[d] /\ under[d] \subseteq under[b] \ {b}
  <2>1. Other(side) \in Side  BY SideFacts
  <2>4. ChildOf(t, S, under, b, Other(side))  BY <1>1, <2>1, ChildFacts
  <2>2. /\ d \in S /\ t.parent[d] = b /\ d # b /\ d \in under[b] /\ under[d] \subseteq under[b] \ {b}
    BY <1>4, <2>4 DEF ChildOf
  <2>3. d \in under[d]  BY <2>2 DEF SearchTree, Nested
  <2> QED BY <1>1, <2>2, <2>3
<1>5. ASSUME p # Null
      PROVE  /\ p \in S /\ p # a /\ p # b /\ p \notin under[a] /\ a \in under[p]
             /\ t.child[Direction(a, p)][p] = a /\ Direction(b, p) = Direction(a, p)
             /\ Direction(b, p) \in Side /\ under[a] \subseteq under[p] \ {p}
  <2>1. p \in S /\ t.child[Direction(a, p)][p] = a
    BY <1>5 DEF SearchTree, Upward
  <2>2. Direction(a, p) \in Side  BY <2>1, DirectionFacts
  <2>3. a # Null  BY NullIsNoKey
  <2>5. ChildOf(t, S, under, p, Direction(a, p))  BY <2>1, <2>2, ChildFacts
  <2>4. /\ a # p /\ a \in under[p] /\ under[a] \subseteq under[p] \ {p}
        /\ \A y \in Key : y \in under[a] <=> y \in under[p] /\ y # p /\ Direction(y, p) = Direction(a, p)
    BY <2>1, <2>3, <2>5 DEF ChildOf
  <2> QED BY <1>1, <2>1, <2>2, <2>4
<1>6. p = Null => under[a] = S
  BY DEF SearchTree, Upward
<1> QED BY <1>1, <1>2, <1>3, <1>4, <1>5, <1>6 DEF Edge

\* TurnedUnder, value by value.
Turns(V, t, under, a, b, side) ==
  /\ V \in [Key -> SUBSET Key]
  /\ V[a] = (under[a] \ under[b]) \cup Part(under, t.child[Other(side)][b])
  /\ V[b] = under[a] /\ V[a] \subseteq under[a] \ {b}
  /\ \A x \in Key : x # a /\ x # b => V[x] = under[x]

LEMMA TurnedUnderFacts ==
  ASSUME NEW t \in Tree, NEW S, S \subseteq Key, NEW under, SearchTree(t, S, under),
         NEW a \in S, NEW side \in Side, NEW b, b = t.child[side][a], b # Null
  PROVE  Turns(TurnedUnder(t, under, a, b, side), t, under, a, b, side)
<1> DEFINE d == t.child[Other(side)][b]
<1>1. Edge(t, S, under, a, side)  BY EdgeFacts
<1>2. /\ b \in S /\ b # a /\ b \in under[b] /\ under[b] \subseteq under[a] \ {a} /\ under[a] \subseteq S
      /\ d # Null => under[d] \subseteq under[b] \ {b}
  BY <1>1 DEF Edge
<1>3. Part(under, d) \subseteq under[b] \ {b}
  BY <1>2 DEF Part
<1>4. under \in [Key -> SUBSET Key]  BY DEF SearchTree, Nested
<1> HIDE DEF d
<1>5. Turns(TurnedUnder(t, under, a, b, side), t, under, a, b, side)
  BY <1>2, <1>3, <1>4 DEF TurnedUnder, Turns, d
<1> QED BY <1>5

\* A node below a is below b or on the other side of a.
LEMMA TurnedNested ==
  ASSUME NEW t \in Tree, NEW S, S \subseteq Key, NEW under, SearchTree(t, S, under),
         NEW a \in S, NEW side \in Side, t.child[side][a] # Null
  PROVE  Nested(S, TurnedUnder(t, under, a, t.child[side][a], side))
<1> DEFINE b == t.child[side][a]
           d == t.child[Other(side)][b]
           p == t.parent[a]
           V == TurnedUnder(t, under, a, b, side)
<1>0. Edge(t, S, under, a, side)  BY EdgeFacts
<1>1. /\ b \in S /\ b # a /\ t.parent[b] = a /\ Direction(b, a) = side
      /\ a \in under[a] /\ b \in under[a] /\ b \in under[b]
      /\ under[b] \subseteq under[a] \ {a} /\ under[a] \subseteq S
      /\ d # Null => d \in S /\ d # a /\ d # b /\ d \in under[d] /\ under[d] \subseteq under[b] \ {b}
  BY <1>0 DEF Edge
<1>2. /\ under \in [Key -> SUBSET Key]
      /\ \A x \in S : x \in under[x] /\ under[x] \subseteq S
      /\ \A x, y \in S : y \in under[x] /\ y # x => under[y] \subseteq under[x] \ {x}
  BY DEF SearchTree, Nested
<1>3. Part(under, d) \subseteq under[b] \ {b}
  BY <1>1 DEF Part
<1> HIDE DEF d, b
<1>t. Turns(V, t, under, a, b, side)  BY TurnedUnderFacts DEF b
<1>4. /\ V \in [Key -> SUBSET Key]
      /\ V[a] = (under[a] \ under[b]) \cup Part(under, d) /\ V[b] = under[a]
      /\ \A x \in Key \ {a, b} : V[x] = under[x]
  BY <1>t DEF Turns, d
<1> HIDE DEF V
\* What is on the other side of a is not below b.
<1>5. ASSUME NEW y \in under[a] \ under[b], y # a
      PROVE  under[y] \subseteq under[a] \ ({a} \cup under[b])
  <2> DEFINE o == t.child[Other(side)][a]
  <2>1. Other(side) \in Side /\ y \in S /\ y \in Key  BY SideFacts, <1>1
  <2>a. ChildOf(t, S, under, a, side) /\ ChildOf(t, S, under, a, Other(side))
    BY <2>1, ChildFacts
  <2>2. \A z \in Key : z \in under[b] <=> z \in under[a] /\ z # a /\ Direction(z, a) = side
    BY <2>a DEF ChildOf, b
  <2>3. Direction(y, a) = Other(side)
    BY <1>5, <2>1, <2>2, DirectionFacts, SideFacts
  <2>4. o # Null  BY <1>5, <2>1, <2>3, <2>a DEF ChildOf
  <2>5. /\ o \in S
        /\ \A z \in Key : z \in under[o] <=> z \in under[a] /\ z # a /\ Direction(z, a) = Other(side)
    BY <2>1, <2>4, <2>a DEF ChildOf
  <2>6. y \in under[o]  BY <1>5, <2>1, <2>3, <2>5
  <2>7. under[y] \subseteq under[o]  BY <1>2, <2>1, <2>5, <2>6
  <2>8. under[y] \subseteq Key  BY <1>2, <2>1
  <2>9. side # Other(side)  BY SideFacts
  <2> QED BY <2>2, <2>5, <2>7, <2>8, <2>9
<1>6. \A x \in S : x \in V[x] /\ V[x] \subseteq S
  BY <1>1, <1>2, <1>3, <1>4
<1>7. ASSUME NEW x \in S, NEW y \in S, y \in V[x], y # x
      PROVE  V[y] \subseteq V[x] \ {x}
  <2>1. CASE x = a
    <3>1. y # b  BY <1>1, <1>3, <1>4, <1>7, <2>1
    <3>2. V[y] = under[y]  BY <1>4, <1>7, <2>1, <3>1
    <3>3. CASE y \in under[a] \ under[b]
      BY <1>4, <1>5, <1>7, <2>1, <3>2, <3>3
    <3>4. CASE y \in Part(under, d)
      <4>1. d # Null /\ y \in under[d]  BY <3>4 DEF Part
      <4>2. under[y] \subseteq under[d]  BY <1>1, <1>2, <4>1
      <4>3. under[y] \subseteq Part(under, d)  BY <4>1, <4>2 DEF Part
      <4> QED BY <1>1, <1>3, <1>4, <2>1, <3>2, <4>3
    <3> QED BY <1>4, <1>7, <2>1, <3>3, <3>4
  <2>2. CASE x = b
    <3>1. CASE y = a  BY <1>1, <1>3, <1>4, <2>2, <3>1
    <3>2. CASE y # a
      <4>1. V[y] = under[y] /\ y \in under[a]  BY <1>4, <1>7, <2>2, <3>2
      <4>2. under[y] \subseteq under[a]  BY <1>1, <1>2, <4>1
      <4>3. b \notin under[y]
        <5>1. CASE y \in under[b]  BY <1>1, <1>2, <1>7, <2>2, <5>1
        <5>2. CASE y \notin under[b]  BY <1>1, <1>5, <3>2, <4>1, <5>2
        <5> QED BY <5>1, <5>2
      <4> QED BY <1>4, <2>2, <4>1, <4>2, <4>3
    <3> QED BY <3>1, <3>2
  <2>3. CASE x # a /\ x # b
    <3>1. V[x] = under[x]  BY <1>4, <2>3
    <3>2. CASE y = a
      <4>1. V[a] \subseteq under[a]  BY <1>1, <1>3, <1>4
      <4>2. under[a] \subseteq under[x] \ {x}  BY <1>2, <1>7, <3>1, <3>2
      <4> QED BY <3>1, <3>2, <4>1, <4>2
    <3>3. CASE y = b
      <4>1. a \in under[x]  BY <1>1, <1>7, <2>3, <3>1, <3>3 DEF SearchTree, Upward
      <4>2. under[a] \subseteq under[x] \ {x}  BY <1>2, <2>3, <4>1
      <4> QED BY <1>4, <3>1, <3>3, <4>2
    <3>4. CASE y # a /\ y # b
      BY <1>2, <1>4, <1>7, <3>1, <3>4
    <3> QED BY <3>2, <3>3, <3>4
  <2> QED BY <2>1, <2>2, <2>3
<1>8. V \in [Key -> SUBSET Key]  BY <1>4
<1> QED BY <1>6, <1>7, <1>8 DEF Nested, V, b

\* A turn keeps the parents the tree's, of the subtrees then.
LEMMA TurnedUpward ==
  ASSUME NEW t \in Tree, NEW S, S \subseteq Key, NEW under, SearchTree(t, S, under),
         NEW a \in S, NEW side \in Side, t.child[side][a] # Null,
         NEW t2, Turned(t, t2, a, t.child[side][a], side)
  PROVE  Upward(t2, S, TurnedUnder(t, under, a, t.child[side][a], side))
<1> DEFINE b == t.child[side][a]
           d == t.child[Other(side)][b]
           p == t.parent[a]
           V == TurnedUnder(t, under, a, b, side)
<1>0. Edge(t, S, under, a, side)  BY EdgeFacts
<1>1. /\ b \in S /\ b # a /\ t.parent[b] = a /\ Direction(b, a) = side /\ Direction(a, b) = Other(side)
      /\ a \in under[a] /\ b \in under[a] /\ b \in under[b]
      /\ under[b] \subseteq under[a] \ {a} /\ under[a] \subseteq S
      /\ d # Null => /\ d \in S /\ d # a /\ d # b /\ t.parent[d] = b /\ Direction(d, a) = side
                     /\ d \in under[d] /\ under[d] \subseteq under[b] \ {b}
      /\ p # Null => /\ p \in S /\ p # a /\ p # b /\ p \notin under[a]
                     /\ t.child[Direction(a, p)][p] = a /\ Direction(b, p) = Direction(a, p)
                     /\ Direction(b, p) \in Side
      /\ p = Null => under[a] = S
  BY <1>0 DEF Edge
<1>t. Turns(V, t, under, a, b, side)  BY TurnedUnderFacts
<1>3. side # Other(side) /\ Other(side) \in Side /\ Null \notin Key  BY SideFacts, NullIsNoKey
<1>4. /\ \A s \in Side, x \in Key :
           t2.child[s][x] = IF x = a /\ s = side THEN d
                            ELSE IF x = b /\ s = Other(side) THEN a
                            ELSE IF x = p /\ s = Direction(b, p) THEN b
                            ELSE t.child[s][x]
      /\ \A x \in Key : t2.parent[x] = IF x = b THEN p
                                       ELSE IF x = a THEN b
                                       ELSE IF x = d THEN a
                                       ELSE t.parent[x]
  BY DEF Turned
<1> HIDE DEF b, d, p, V
<1>2. /\ V[a] = (under[a] \ under[b]) \cup Part(under, d)
      /\ V[b] = under[a] /\ V[a] \subseteq under[a] \ {b}
      /\ \A x \in Key : x # a /\ x # b => V[x] = under[x]
  BY <1>t DEF Turns, d
<1>5. /\ \A x \in S : t.parent[x] = Null => under[x] = S
      /\ \A x \in S : t.parent[x] # Null => t.parent[x] \in S /\ t.child[Direction(x, t.parent[x])][t.parent[x]] = x
      /\ \A x, y \in S : x # y => (y \in under[x] <=> t.parent[y] # Null /\ t.parent[y] \in under[x])
  BY DEF SearchTree, Upward
<1>6. ASSUME NEW x \in S
      PROVE  IF t2.parent[x] = Null THEN V[x] = S
             ELSE t2.parent[x] \in S /\ t2.child[Direction(x, t2.parent[x])][t2.parent[x]] = x
  <2>1. CASE x = b
    <3>1. t2.parent[x] = p  BY <1>4, <2>1
    <3>2. p # Null => t2.child[Direction(b, p)][p] = b
      BY <1>1, <1>4
    <3> QED BY <1>1, <1>2, <2>1, <3>1, <3>2
  <2>2. CASE x = a
    <3>1. t2.parent[x] = b /\ b # Null BY <1>1, <1>3, <1>4, <2>2
    <3>2. t2.child[Other(side)][b] = a  BY <1>1, <1>3, <1>4
    <3> QED BY <1>1, <2>2, <3>1, <3>2
  <2>3. CASE x = d /\ x # a /\ x # b
    <3>1. t2.parent[x] = a /\ a # Null  BY <1>3, <1>4, <2>3
    <3>2. t2.child[side][a] = d  BY <1>4
    <3>3. Direction(d, a) = side  BY <1>1, <1>3, <2>3
    <3> QED BY <2>3, <3>1, <3>2, <3>3
  <2>4. CASE x # b /\ x # a /\ x # d
    <3> DEFINE q == t.parent[x]
    <3>1. t2.parent[x] = q  BY <1>4, <2>4
    <3>2. CASE q = Null  BY <1>2, <1>5, <2>4, <3>1, <3>2
    <3>3. CASE q # Null
      <4>1. q \in S /\ t.child[Direction(x, q)][q] = x  BY <1>5, <3>3
      <4>2. Direction(x, q) \in Side  BY <4>1, DirectionFacts
      <4>3. ~ (q = a /\ Direction(x, q) = side)  BY <2>4, <4>1 DEF b
      <4>4. ~ (q = b /\ Direction(x, q) = Other(side))  BY <2>4, <4>1 DEF d
      <4>5. ~ (q = p /\ Direction(x, q) = Direction(b, p))  BY <1>1, <2>4, <3>3, <4>1
      <4>6. t2.child[Direction(x, q)][q] = x
        BY <1>4, <4>1, <4>2, <4>3, <4>4, <4>5
      <4> QED BY <3>1, <3>3, <4>1, <4>6
    <3> QED BY <3>2, <3>3
  <2> QED BY <2>1, <2>2, <2>3, <2>4
<1>7. ASSUME NEW x \in S, NEW y \in S, x # y
      PROVE  y \in V[x] <=> t2.parent[y] # Null /\ t2.parent[y] \in V[x]
  <2>1. CASE y = b
    <3>1. t2.parent[y] = p  BY <1>4, <2>1
    <3>2. CASE x = a  BY <1>1, <1>2, <2>1, <3>1, <3>2
    <3>3. CASE x # a
      <4>1. V[x] = under[x]  BY <1>2, <1>7, <2>1, <3>3
      <4>2. b \in under[x] <=> a \in under[x]
        BY <1>1, <1>3, <1>5, <1>7, <2>1
      <4>3. a \in under[x] <=> p # Null /\ p \in under[x]
        BY <1>5, <3>3 DEF p
      <4> QED BY <2>1, <3>1, <4>1, <4>2, <4>3
    <3> QED BY <3>2, <3>3
  <2>2. CASE y = a
    <3>1. t2.parent[y] = b /\ b # Null  BY <1>1, <1>3, <1>4, <2>2
    <3>2. CASE x = b  BY <1>1, <1>2, <2>2, <3>1, <3>2
    <3>3. CASE x # b
      <4>1. V[x] = under[x]  BY <1>2, <1>7, <2>2, <3>3
      <4>2. b \in under[x] <=> a \in under[x]
        BY <1>1, <1>3, <1>5, <3>3
      <4> QED BY <2>2, <3>1, <4>1, <4>2
    <3> QED BY <3>2, <3>3
  <2>3. CASE y = d /\ y # a /\ y # b
    <3>1. t2.parent[y] = a /\ a # Null  BY <1>3, <1>4, <2>3
    <3>2. d # Null  BY <1>3, <2>3
    <3>3. CASE x = a
      <4>1. d \in Part(under, d)  BY <1>1, <3>2 DEF Part
      <4>2. a \in V[a]  BY <1>1, <1>2
      <4> QED BY <1>2, <2>3, <3>1, <3>3, <4>1, <4>2
    <3>4. CASE x = b  BY <1>1, <1>2, <2>3, <3>1, <3>2, <3>4
    <3>5. CASE x # a /\ x # b
      <4>1. V[x] = under[x]  BY <1>2, <3>5
      <4>2. d \in under[x] <=> b \in under[x]  BY <1>1, <1>3, <1>5, <1>7, <2>3, <3>2
      <4>3. b \in under[x] <=> a \in under[x]  BY <1>1, <1>3, <1>5, <3>5
      <4> QED BY <2>3, <3>1, <4>1, <4>2, <4>3
    <3> QED BY <3>3, <3>4, <3>5
  <2>4. CASE y # b /\ y # a /\ y # d
    <3> DEFINE q == t.parent[y]
    <3>1. t2.parent[y] = q  BY <1>4, <2>4
    <3>2. \A z \in S : z # y => (y \in under[z] <=> q # Null /\ q \in under[z])  BY <1>5
    <3> HIDE DEF q
    <3>3. CASE x = a
      <4>1. y \in under[a] <=> q # Null /\ q \in under[a]  BY <2>4, <3>2
      <4>2. y \in under[b] <=> q # Null /\ q \in under[b]  BY <1>1, <2>4, <3>2
      <4>3. y \in Part(under, d) <=> q # Null /\ q \in Part(under, d)
        BY <1>1, <2>4, <3>2 DEF Part
      <4> QED BY <1>2, <3>1, <3>3, <4>1, <4>2, <4>3
    <3>4. CASE x = b
      <4>1. y \in under[a] <=> q # Null /\ q \in under[a]  BY <2>4, <3>2
      <4> QED BY <1>2, <3>1, <3>4, <4>1
    <3>5. CASE x # a /\ x # b  BY <1>2, <1>7, <3>1, <3>2, <3>5
    <3> QED BY <3>3, <3>4, <3>5
  <2> QED BY <2>1, <2>2, <2>3, <2>4
<1>8. Upward(t2, S, V)  BY <1>6, <1>7 DEF Upward
<1> QED BY <1>8 DEF V, b

\* A turn keeps the order of what is left and right of every node.
LEMMA TurnedDownward ==
  ASSUME NEW t \in Tree, NEW S, S \subseteq Key, NEW under, SearchTree(t, S, under),
         NEW a \in S, NEW side \in Side, t.child[side][a] # Null,
         NEW t2, Turned(t, t2, a, t.child[side][a], side)
  PROVE  Downward(t2, S, TurnedUnder(t, under, a, t.child[side][a], side))
<1> DEFINE b == t.child[side][a]
           d == t.child[Other(side)][b]
           p == t.parent[a]
           V == TurnedUnder(t, under, a, b, side)
<1>0. Edge(t, S, under, a, side)  BY EdgeFacts
<1>1. /\ b \in S /\ b # a /\ t.parent[b] = a /\ Direction(b, a) = side /\ Direction(a, b) = Other(side)
      /\ a \in under[a] /\ b \in under[a] /\ b \in under[b]
      /\ under[b] \subseteq under[a] \ {a} /\ under[a] \subseteq S
      /\ d # Null => /\ d \in S /\ d # a /\ d # b /\ t.parent[d] = b /\ Direction(d, a) = side
                     /\ d \in under[d] /\ under[d] \subseteq under[b] \ {b}
      /\ p # Null => /\ p \in S /\ p # a /\ p # b /\ p \notin under[a]
                     /\ t.child[Direction(a, p)][p] = a /\ Direction(b, p) = Direction(a, p)
                     /\ Direction(b, p) \in Side
  BY <1>0 DEF Edge
<1>t. Turns(V, t, under, a, b, side)  BY TurnedUnderFacts
<1>3. side # Other(side) /\ Other(side) \in Side /\ Null \notin Key /\ \A s \in Side : s = side \/ s = Other(side)
  BY SideFacts, NullIsNoKey
<1>4. /\ \A s \in Side, x \in Key :
           t2.child[s][x] = IF x = a /\ s = side THEN d
                            ELSE IF x = b /\ s = Other(side) THEN a
                            ELSE IF x = p /\ s = Direction(b, p) THEN b
                            ELSE t.child[s][x]
      /\ \A x \in Key : t2.parent[x] = IF x = b THEN p
                                       ELSE IF x = a THEN b
                                       ELSE IF x = d THEN a
                                       ELSE t.parent[x]
  BY DEF Turned
<1>c. ChildOf(t, S, under, a, side) /\ ChildOf(t, S, under, a, Other(side))
      /\ ChildOf(t, S, under, b, side) /\ ChildOf(t, S, under, b, Other(side))
  BY <1>1, <1>3, ChildFacts
<1>5. /\ \A y \in Key : y \in under[b] <=> y \in under[a] /\ y # a /\ Direction(y, a) = side
      /\ \A y \in Key : y \in Part(under, d) <=> y \in under[b] /\ y # b /\ Direction(y, b) = Other(side)
  <2>1. \A y \in Key : y \in under[b] <=> y \in under[a] /\ y # a /\ Direction(y, a) = side
    BY <1>1, <1>3, <1>c DEF ChildOf
  <2>2. CASE d = Null
    <3>1. \A y \in Key : y \in under[b] /\ y # b => Direction(y, b) # Other(side)
      BY <1>c, <2>2 DEF ChildOf
    <3> QED BY <2>1, <2>2, <3>1 DEF Part
  <2>3. CASE d # Null
    <3>1. \A y \in Key : y \in under[d] <=> y \in under[b] /\ y # b /\ Direction(y, b) = Other(side)
      BY <1>c, <2>3 DEF ChildOf
    <3> QED BY <2>1, <2>3, <3>1 DEF Part
  <2> QED BY <2>2, <2>3
<1>6. \A x \in S, s \in Side : LET c == t.child[s][x] IN
        /\ c # Null => c \in S /\ t.parent[c] = x
        /\ Part(under, c) = {y \in under[x] \ {x} : Direction(y, x) = s}
  BY DEF SearchTree, Downward
<1>n. \A x \in S : under[x] \subseteq Key  BY DEF SearchTree, Nested
<1> HIDE DEF b, d, p, V
<1>2. /\ V[a] = (under[a] \ under[b]) \cup Part(under, d)
      /\ V[b] = under[a] /\ V[a] \subseteq under[a] \ {b}
      /\ \A x \in Key : x # a /\ x # b => V[x] = under[x]
  BY <1>t DEF Turns, d
\* What is below a but not below b is to the other side of b.
<1>7. ASSUME NEW y \in under[a], y \notin under[b] PROVE y # b /\ Direction(y, b) = Other(side)
  <2>1. y \in Key /\ a \in Key /\ b \in Key  BY <1>n, <1>1
  <2>2. CASE y = a  BY <1>1, <2>2
  <2>3. CASE y # a
    <3>1. Direction(y, a) # side  BY <1>5, <1>7, <2>1, <2>3
    <3>2. Direction(y, a) = Other(side)  BY <2>1, <3>1, <1>3, DirectionFacts
    <3>3. y # b  BY <1>1, <1>7
    <3> QED BY <1>1, <2>1, <2>3, <3>2, <3>3, DirectionFacts
  <2> QED BY <2>2, <2>3
<1>8. ASSUME NEW x \in S, NEW s \in Side
      PROVE  LET c == t2.child[s][x] IN
             /\ c # Null => c \in S /\ t2.parent[c] = x
             /\ Part(V, c) = {y \in V[x] \ {x} : Direction(y, x) = s}
  <2> DEFINE c == t.child[s][x]
  <2>0. /\ c # Null => c \in S /\ t.parent[c] = x
        /\ Part(under, c) = {y \in under[x] \ {x} : Direction(y, x) = s}
    BY <1>6
  <2>1. CASE x = a /\ s = side
    <3>1. t2.child[s][x] = d  BY <1>4, <2>1
    <3>2. d # Null => d \in S /\ t2.parent[d] = a  BY <1>1, <1>4
    <3>3. Part(V, d) = Part(under, d)  BY <1>1, <1>2 DEF Part
    <3>4. Part(under, d) = {y \in V[a] \ {a} : Direction(y, a) = side}
      <4>1. ASSUME NEW y \in Part(under, d) PROVE y \in V[a] /\ y # a /\ Direction(y, a) = side
        <5>1. y \in Key /\ y \in under[b]  BY <1>1, <1>n DEF Part
        <5> QED BY <1>2, <1>5, <4>1, <5>1
      <4>2. ASSUME NEW y \in V[a], y # a, Direction(y, a) = side PROVE y \in Part(under, d)
        <5>1. y \in under[a] /\ y \in Key  BY <1>1, <1>2, <1>n, <4>2
        <5> QED BY <1>2, <1>5, <4>2, <5>1
      <4> QED BY <4>1, <4>2
    <3> QED BY <2>1, <3>1, <3>2, <3>3, <3>4
  <2>2. CASE x = b /\ s = Other(side)
    <3>1. t2.child[s][x] = a  BY <1>1, <1>4, <2>2
    <3>2. a \in S /\ t2.parent[a] = b /\ a # Null  BY <1>1, <1>3, <1>4
    <3>3. Part(V, a) = V[a]  BY <3>2 DEF Part
    <3>4. V[a] = {y \in V[b] \ {b} : Direction(y, b) = Other(side)}
      <4>1. ASSUME NEW y \in V[a] PROVE y \in V[b] /\ y # b /\ Direction(y, b) = Other(side)
        <5>1. y \in under[a] /\ y \in Key  BY <1>1, <1>2, <1>n, <4>1
        <5>2. CASE y \notin under[b]  BY <1>2, <1>7, <5>1, <5>2
        <5>3. CASE y \in Part(under, d)  BY <1>2, <1>5, <5>1, <5>3
        <5> QED BY <1>2, <4>1, <5>2, <5>3
      <4>2. ASSUME NEW y \in V[b], y # b, Direction(y, b) = Other(side) PROVE y \in V[a]
        <5>1. y \in under[a] /\ y \in Key  BY <1>1, <1>2, <1>n, <4>2
        <5> QED BY <1>2, <1>5, <4>2, <5>1
      <4> QED BY <4>1, <4>2
    <3> QED BY <2>2, <3>1, <3>2, <3>3, <3>4
  <2>3. CASE x = p /\ s = Direction(b, p)
    <3>0. p # Null /\ p # a /\ p # b /\ p \notin under[a]  BY <1>1, <1>3, <2>3
    <3>1. t2.child[s][x] = b  BY <1>4, <2>3, <3>0
    <3>2. b \in S /\ t2.parent[b] = p /\ b # Null  BY <1>1, <1>3, <1>4
    <3>3. c = a  BY <1>1, <2>3, <3>0
    <3>4. Part(V, b) = under[a] /\ Part(under, a) = under[a] /\ V[x] = under[x]
      BY <1>1, <1>2, <1>3, <2>3, <3>0, <3>2 DEF Part
    <3>5. under[a] = {y \in V[x] \ {x} : Direction(y, x) = s}
      BY <2>0, <3>3, <3>4
    <3>6. Part(V, b) = {y \in V[x] \ {x} : Direction(y, x) = s}  BY <3>4, <3>5
    <3> QED BY <2>3, <3>1, <3>2, <3>6
  <2>4. CASE /\ ~ (x = a /\ s = side) /\ ~ (x = b /\ s = Other(side))
             /\ ~ (x = p /\ s = Direction(b, p))
    <3>1. t2.child[s][x] = c  BY <1>4, <2>4
    <3>2. c # a
      <4>1. SUFFICES ASSUME c = a PROVE FALSE  OBVIOUS
      <4>2. x = p  BY <1>1, <1>3, <2>0, <4>1 DEF p
      <4>3. a \in under[x] /\ Direction(a, x) = s
        BY <1>1, <1>3, <2>0, <4>1 DEF Part
      <4>4. x # Null  BY <1>3
      <4> QED BY <1>1, <2>4, <4>2, <4>3, <4>4
    <3>3. c # b
      <4>1. SUFFICES ASSUME c = b PROVE FALSE  OBVIOUS
      <4>2. x = a  BY <1>1, <1>3, <2>0, <4>1
      <4>3. Direction(b, x) = s
        BY <1>1, <1>3, <2>0, <4>1 DEF Part
      <4> QED BY <1>1, <2>4, <4>2, <4>3
    <3>4. c # Null => c \in S /\ t2.parent[c] = x
      <4>1. c = d /\ c # Null => x = b /\ s = Other(side)
        <5>1. SUFFICES ASSUME c = d, c # Null PROVE x = b /\ s = Other(side)  OBVIOUS
        <5>2. x = b  BY <1>1, <2>0, <5>1
        <5>3. d \in Part(under, d) /\ d \in Key  BY <1>1, <5>1 DEF Part
        <5>4. Direction(d, b) = Other(side)  BY <1>5, <5>3
        <5>5. Direction(d, b) = s  BY <2>0, <5>1, <5>2, <5>3
        <5> QED BY <5>2, <5>4, <5>5
      <4> QED BY <1>4, <2>0, <2>4, <3>2, <3>3, <4>1
    <3>5. Part(V, c) = Part(under, c)  BY <1>2, <2>0, <3>2, <3>3 DEF Part
    <3> HIDE DEF c
    <3>6. Part(under, c) = {y \in V[x] \ {x} : Direction(y, x) = s}
      <4>1. CASE x = a
        <5>1. s = Other(side)  BY <1>3, <2>4, <4>1
        <5>2. ASSUME NEW y \in under[a], y # a, Direction(y, a) = s PROVE y \in V[a]
          <6>1. y \in Key  BY <1>n
          <6> QED BY <1>2, <1>3, <1>5, <5>1, <5>2, <6>1
        <5>3. ASSUME NEW y \in V[a], y # a, Direction(y, a) = s PROVE y \in under[a]
          BY <1>2, <5>3
        <5> QED BY <2>0, <4>1, <5>2, <5>3
      <4>2. CASE x = b
        <5>1. s = side  BY <1>3, <2>4, <4>2
        <5>2. ASSUME NEW y \in under[a], y # b, Direction(y, b) = s PROVE y \in under[b]
          BY <1>3, <1>7, <5>1, <5>2
        <5> QED BY <1>1, <1>2, <2>0, <4>2, <5>2
      <4>3. CASE x # a /\ x # b  BY <1>2, <2>0, <4>3
      <4> QED BY <4>1, <4>2, <4>3
    <3> QED BY <3>1, <3>4, <3>5, <3>6
  <2> QED BY <2>1, <2>2, <2>3, <2>4
<1>9. Downward(t2, S, V)  BY <1>8 DEF Downward
<1> QED BY <1>9 DEF V, b

\* A rotation keeps the search tree.
LEMMA TurnedKeepsTree ==
  ASSUME NEW t \in Tree, NEW S, S \subseteq Key, NEW under, SearchTree(t, S, under),
         NEW a \in S, NEW side \in Side, NEW b, b = t.child[side][a], b # Null,
         NEW t2, Turned(t, t2, a, b, side)
  PROVE  SearchTree(t2, S, TurnedUnder(t, under, a, b, side))
<1>1. t.child[side][a] # Null /\ Turned(t, t2, a, t.child[side][a], side)  OBVIOUS
<1>2. Nested(S, TurnedUnder(t, under, a, t.child[side][a], side))  BY <1>1, TurnedNested
<1>3. Downward(t2, S, TurnedUnder(t, under, a, t.child[side][a], side))  BY <1>1, TurnedDownward
<1>4. Upward(t2, S, TurnedUnder(t, under, a, t.child[side][a], side))  BY <1>1, TurnedUpward
<1> QED BY <1>2, <1>3, <1>4 DEF SearchTree

-----------------------------------------------------------------------------
(* The rotations of the code are rotations. *)

\* Single, field by field (acdb_tree_rotate_right, acdb_tree_rotate_left).
LEMMA SingleTurns ==
  ASSUME NEW t \in Tree, NEW S, S \subseteq Key, NEW under, SearchTree(t, S, under),
         NEW a \in S, NEW side \in Side, t.child[side][a] # Null,
         NEW c \in Key, t.parent[c] = t.child[side][a]
  PROVE  Turned(t, Single(t, a, c, side), a, t.child[side][a], side)
<1> DEFINE b == t.child[side][a]
           d == t.child[Other(side)][b]
           p == t.parent[a]
           t1 == [t EXCEPT !.parent[b] = p, !.parent[a] = b]
           t2 == IF d = Null THEN t1 ELSE [t1 EXCEPT !.parent[d] = a]
           t3 == [t2 EXCEPT !.child[side][a] = d, !.child[Other(side)][b] = a]
           t4 == Relinked(t3, b)
<1>0. Edge(t, S, under, a, side)  BY EdgeFacts
<1>1. /\ a \in Key /\ b \in Key /\ b # a
      /\ d # Null => d \in Key /\ d # a /\ d # b
      /\ p # Null => p \in Key /\ p # a /\ p # b /\ Direction(b, p) \in Side
  BY <1>0 DEF Edge
<1>2. side # Other(side) /\ side \in Side /\ Other(side) \in Side /\ Null \notin Key  BY SideFacts, NullIsNoKey
<1>3. /\ t.child \in [Side -> [Key -> Pointer]] /\ t.parent \in [Key -> Pointer]
      /\ t.root \in Pointer /\ t.depth \in [Key -> Nat \ {0}]
      /\ d \in Pointer /\ p \in Pointer
  BY <1>1, <1>2 DEF Tree, Pointer
<1>4. Single(t, a, c, side) = t4
  BY DEF Single
<1> HIDE DEF b, d, p
<1>5. /\ t1 \in Tree /\ t1.child = t.child /\ t1.root = t.root /\ t1.depth = t.depth
      /\ \A x \in Key : t1.parent[x] = IF x = b THEN p ELSE IF x = a THEN b ELSE t.parent[x]
  BY <1>1, <1>3 DEF Tree, Pointer
<1> HIDE DEF t1
<1>6. /\ t2 \in Tree /\ t2.child = t.child /\ t2.root = t.root /\ t2.depth = t.depth
      /\ \A x \in Key : t2.parent[x] = IF x = b THEN p ELSE IF x = a THEN b
                                       ELSE IF x = d THEN a ELSE t.parent[x]
  <2>1. CASE d = Null  BY <1>2, <1>5, <2>1
  <2>2. CASE d # Null
    <3>1. t2 \in Tree /\ t2.child = t1.child /\ t2.root = t1.root /\ t2.depth = t1.depth
          /\ t2.parent = [t1.parent EXCEPT ![d] = a]
      BY <1>1, <1>5, <2>2 DEF Tree, Pointer
    <3> QED BY <1>1, <1>5, <2>2, <3>1 DEF Tree
  <2> QED BY <2>1, <2>2
<1> HIDE DEF t2
<1>7. /\ t3 \in Tree /\ t3.parent = t2.parent /\ t3.root = t.root /\ t3.depth = t.depth
      /\ \A s \in Side, x \in Key : t3.child[s][x] = IF x = a /\ s = side THEN d
                                                     ELSE IF x = b /\ s = Other(side) THEN a
                                                     ELSE t.child[s][x]
  BY <1>1, <1>2, <1>3, <1>6 DEF Tree, Pointer
<1> HIDE DEF t3
<1>8. t3.parent[b] = p  BY <1>1, <1>6, <1>7
<1>9. /\ t4 \in Tree /\ t4.parent = t3.parent /\ t4.root = t.root /\ t4.depth = t.depth
      /\ \A s \in Side, x \in Key :
           t4.child[s][x] = IF x = p /\ s = Direction(b, p) THEN b ELSE t3.child[s][x]
  <2>1. CASE p = Null  BY <1>2, <1>7, <1>8, <2>1 DEF Relinked
  <2>2. CASE p # Null
    <3>1. t4 = [t3 EXCEPT !.child[Direction(b, p)][p] = b]  BY <1>8, <2>2 DEF Relinked
    <3> HIDE DEF t4
    <3> QED BY <1>1, <1>7, <2>2, <3>1 DEF Tree, Pointer
  <2> QED BY <2>1, <2>2
<1> HIDE DEF t4
<1>10. \A s \in Side, x \in Key :
         t4.child[s][x] = IF x = a /\ s = side THEN d
                          ELSE IF x = b /\ s = Other(side) THEN a
                          ELSE IF x = p /\ s = Direction(b, p) THEN b
                          ELSE t.child[s][x]
  <2> SUFFICES ASSUME NEW s \in Side, NEW x \in Key
               PROVE t4.child[s][x] = IF x = a /\ s = side THEN d
                          ELSE IF x = b /\ s = Other(side) THEN a
                          ELSE IF x = p /\ s = Direction(b, p) THEN b
                          ELSE t.child[s][x]
    OBVIOUS
  <2>1. x = p => x # a /\ x # b  BY <1>1, <1>2
  <2> QED BY <1>7, <1>9, <2>1
<1>11. Turned(t, t4, a, b, side)
  BY <1>6, <1>7, <1>9, <1>10 DEF Turned, d, p
<1> QED BY <1>4, <1>11 DEF b

\* The first half of a double rotation turns b and c, if nothing is below c there.
Swaps(t, S, a, b, c, side) ==
  LET t2 == Swapped(t, a, c, side)
  IN /\ Turned(t, t2, b, c, Other(side))
     /\ b \in S /\ c \in S /\ a # b /\ b # c /\ a # c /\ t.parent[c] = b /\ t.parent[b] = a
     /\ t2.child[side][a] = c /\ t2.parent[b] = c

LEMMA SwappedTurns ==
  ASSUME NEW t \in Tree, NEW S, S \subseteq Key, NEW under, SearchTree(t, S, under),
         NEW a \in S, NEW side \in Side, NEW b, b = t.child[side][a], b # Null,
         NEW c, c = t.child[Other(side)][b], c # Null, t.child[side][c] = Null
  PROVE  Swaps(t, S, a, b, c, side)
<1> DEFINE t2 == Swapped(t, a, c, side)
<1>0. Edge(t, S, under, a, side)  BY EdgeFacts
<1>1. /\ a \in Key /\ b \in S /\ b # a /\ t.parent[b] = a /\ Direction(b, a) = side
      /\ c \in S /\ c # a /\ c # b /\ t.parent[c] = b /\ Direction(c, a) = side
  BY <1>0 DEF Edge
<1>2. side # Other(side) /\ side \in Side /\ Other(side) \in Side /\ Null \notin Key
      /\ Other(Other(side)) = side
  BY SideFacts, NullIsNoKey
<1>3. /\ t.child \in [Side -> [Key -> Pointer]] /\ t.parent \in [Key -> Pointer]
      /\ t.root \in Pointer /\ t.depth \in [Key -> Nat \ {0}]
  BY DEF Tree
<1>4. t2 = [t EXCEPT !.parent[c] = a, !.parent[b] = c, !.child[side][a] = c,
                     !.child[Other(side)][b] = Null, !.child[side][c] = b]
  BY <1>1 DEF Swapped
<1> HIDE DEF t2
<1> DEFINE t1 == [t EXCEPT !.parent[c] = a, !.parent[b] = c]
           t3 == [t1 EXCEPT !.child[side][a] = c, !.child[Other(side)][b] = Null]
<1>8. /\ t1 \in Tree /\ t1.root = t.root /\ t1.depth = t.depth /\ t1.child = t.child
      /\ \A x \in Key : t1.parent[x] = IF x = b THEN c ELSE IF x = c THEN a ELSE t.parent[x]
  BY <1>1, <1>2, <1>3 DEF Tree, Pointer
<1>9. t2 = [t3 EXCEPT !.child[side][c] = b]  BY <1>4
<1> HIDE DEF t1
<1>10. /\ t3 \in Tree /\ t3.root = t.root /\ t3.depth = t.depth /\ t3.parent = t1.parent
       /\ \A s \in Side, x \in Key :
            t3.child[s][x] = IF x = b /\ s = Other(side) THEN Null
                             ELSE IF x = a /\ s = side THEN c
                             ELSE t.child[s][x]
  BY <1>1, <1>2, <1>3, <1>8 DEF Tree, Pointer
<1> HIDE DEF t3
<1>11. /\ t2 \in Tree /\ t2.root = t.root /\ t2.depth = t.depth /\ t2.parent = t1.parent
       /\ \A s \in Side, x \in Key :
            t2.child[s][x] = IF x = c /\ s = side THEN b ELSE t3.child[s][x]
  BY <1>1, <1>2, <1>9, <1>10 DEF Tree, Pointer
<1>5. /\ t2 \in Tree /\ t2.root = t.root /\ t2.depth = t.depth
      /\ \A x \in Key : t2.parent[x] = IF x = b THEN c ELSE IF x = c THEN a ELSE t.parent[x]
  BY <1>8, <1>11
<1>6. \A s \in Side, x \in Key :
        t2.child[s][x] = IF x = c /\ s = side THEN b
                         ELSE IF x = b /\ s = Other(side) THEN Null
                         ELSE IF x = a /\ s = side THEN c
                         ELSE t.child[s][x]
  BY <1>10, <1>11
<1>7. Turned(t, t2, b, c, Other(side))
  <2>1. \A s \in Side, x \in Key :
        t2.child[s][x] = IF x = b /\ s = Other(side) THEN Null
                         ELSE IF x = c /\ s = Other(Other(side)) THEN b
                         ELSE IF x = a /\ s = Direction(c, a) THEN c
                         ELSE t.child[s][x]
    BY <1>1, <1>2, <1>6
  <2>2. \A x \in Key : t2.parent[x] = IF x = c THEN a ELSE IF x = b THEN c
                                      ELSE IF x = Null THEN b ELSE t.parent[x]
    BY <1>1, <1>2, <1>5
  <2>3. t.child[Other(Other(side))][c] = Null /\ t.parent[b] = a  BY <1>1, <1>2
  <2> QED BY <1>5, <2>1, <2>2, <2>3 DEF Turned
<1> QED BY <1>1, <1>2, <1>5, <1>6, <1>7 DEF t2, Swaps

-----------------------------------------------------------------------------
(* Heights. *)

\* Neither side is special.
LEMMA HeightOnSides ==
  ASSUME NEW t \in Tree, NEW h \in [Key -> Nat], NEW x \in Key, NEW side \in Side
  PROVE  LET u == High(h, t.child[side][x])
             v == High(h, t.child[Other(side)][x])
         IN /\ u \in Nat /\ v \in Nat
            /\ HeightAt(t, h, x) <=> h[x] = 1 + (IF u > v THEN u ELSE v)
            /\ LevelAt(t, h, x) <=> u <= v + 1 /\ v <= u + 1
<1> DEFINE l == High(h, t.child[Left][x])
           r == High(h, t.child[Right][x])
<1>1. \A s \in Side : t.child[s][x] \in Pointer  BY DEF Tree
<1>2. \A k \in Pointer : High(h, k) \in Nat  BY DEF High, Pointer
<1>3. l \in Nat /\ r \in Nat  BY <1>1, <1>2, SideFacts
<1>4. /\ HeightAt(t, h, x) <=> h[x] = 1 + (IF l > r THEN l ELSE r)
      /\ LevelAt(t, h, x) <=> l <= r + 1 /\ r <= l + 1
  BY <1>3 DEF HeightAt, LevelAt, Deeper
<1>5. (side = Left /\ Other(side) = Right) \/ (side = Right /\ Other(side) = Left)
  <2>1. side = Left \/ side = Right  BY DEF Side
  <2>2. Other(Left) = Right /\ Other(Right) = Left  BY SideFacts DEF Other
  <2> QED BY <2>1, <2>2
<1> HIDE DEF l, r
<1>6. CASE side = Left /\ Other(side) = Right  BY <1>3, <1>4, <1>6 DEF l, r
<1>7. CASE side = Right /\ Other(side) = Left
  <2>1. High(h, t.child[side][x]) = r /\ High(h, t.child[Other(side)][x]) = l  BY <1>7 DEF l, r
  <2>2. (IF l > r THEN l ELSE r) = (IF r > l THEN r ELSE l)  BY <1>3
  <2> QED BY <1>3, <1>4, <2>1, <2>2
<1> QED BY <1>5, <1>6, <1>7

\* Two trees where x has children of the same heights.
LEMMA SameHeights ==
  ASSUME NEW t, NEW h, NEW t2, NEW h2, NEW x,
         \A s \in Side : High(h2, t2.child[s][x]) = High(h, t.child[s][x]), h2[x] = h[x]
  PROVE  /\ HeightAt(t, h, x) => HeightAt(t2, h2, x)
         /\ LevelAt(t, h, x) => LevelAt(t2, h2, x)
BY SideFacts DEF HeightAt, LevelAt

\* A subtree under a has become one under n, as high as the one under a once was
\* (old): where only h was different from old above a, everything is as in old there
\* again, and as in h elsewhere.  X has the nodes that are turned.
Elsewhere(t, t2, S, under, h, old, h2, a, n, X) ==
  /\ a \in X /\ a \in S /\ n \in X /\ n # Null /\ h2[n] = old[a]
  /\ \A x \in S \ X, s \in Side :
       /\ t2.child[s][x] = IF t.child[s][x] = a THEN n ELSE t.child[s][x]
       /\ t.child[s][x] \notin X \ {a}
  /\ \E key \in under[a] : \A x \in S : key \notin under[x] => h[x] = old[x]
  /\ \A x \in S \ X : h2[x] = IF a \in under[x] THEN old[x] ELSE h[x]

MoreLevel(t, t2, under, h, old, h2, a, x) ==
  /\ a \in under[x] => /\ HeightAt(t, old, x) => HeightAt(t2, h2, x)
                       /\ LevelAt(t, old, x) => LevelAt(t2, h2, x)
  /\ a \notin under[x] => /\ HeightAt(t, h, x) => HeightAt(t2, h2, x)
                          /\ LevelAt(t, h, x) => LevelAt(t2, h2, x)

\* Heights are right away from the nodes that are turned.
LEMMA HeightsElsewhere ==
  ASSUME NEW t \in Tree, NEW S, S \subseteq Key, NEW under, SearchTree(t, S, under),
         NEW h, NEW old, NEW t2, NEW h2, NEW a, NEW n, NEW X,
         Elsewhere(t, t2, S, under, h, old, h2, a, n, X),
         NEW x \in S \ X
  PROVE  MoreLevel(t, t2, under, h, old, h2, a, x)
<1>1. /\ a \in X /\ a \in S /\ n \in X /\ n # Null /\ h2[n] = old[a]
      /\ \A s \in Side :
           /\ t2.child[s][x] = IF t.child[s][x] = a THEN n ELSE t.child[s][x]
           /\ t.child[s][x] \notin X \ {a}
      /\ \A y \in S \ X : h2[y] = IF a \in under[y] THEN old[y] ELSE h[y]
      /\ x \in S /\ x # a
  BY DEF Elsewhere
<1>k. PICK key \in under[a] : \A y \in S : key \notin under[y] => h[y] = old[y]
  BY DEF Elsewhere
<1>2. Null \notin Key /\ a \in Key /\ a # Null /\ key \in Key /\ under[a] \subseteq S
  BY <1>1, NullIsNoKey DEF SearchTree, Nested
<1>3. \A s \in Side : ChildOf(t, S, under, x, s)  BY <1>1, ChildFacts
<1>4. ASSUME a \in under[x], NEW s \in Side
      PROVE  High(h2, t2.child[s][x]) = High(old, t.child[s][x])
  <2> DEFINE k == t.child[s][x]
  <2>0. t2.child[s][x] = (IF k = a THEN n ELSE k) /\ k \notin X \ {a}  BY <1>1
  <2>1. CASE k = Null  BY <1>2, <2>0, <2>1 DEF High
  <2>2. CASE k = a
    BY <1>1, <1>2, <2>0, <2>2 DEF High
  <2>3. CASE k # Null /\ k # a
    <3>1. /\ k \in S /\ k \notin X
          /\ \A y \in Key : y \in under[k] <=> y \in under[x] /\ y # x /\ Direction(y, x) = s
      BY <1>3, <2>0, <2>3 DEF ChildOf
    <3>2. High(old, k) = old[k] /\ High(h2, t2.child[s][x]) = h2[k]  BY <2>0, <2>3 DEF High
    <3>3. CASE a \in under[k]  BY <1>1, <3>1, <3>2, <3>3
    <3>4. CASE a \notin under[k]
      <4> DEFINE r == Direction(a, x)
                 l == t.child[r][x]
      <4>1. r \in Side /\ r # s  BY <1>1, <1>2, <1>4, <3>1, <3>4, DirectionFacts
      <4>2. l # Null  BY <1>1, <1>2, <1>3, <1>4, <4>1 DEF ChildOf
      <4>3. /\ l \in S
            /\ \A y \in Key : y \in under[l] <=> y \in under[x] /\ y # x /\ Direction(y, x) = r
        BY <1>3, <4>1, <4>2 DEF ChildOf
      <4> HIDE DEF l, r
      <4>4. a \in under[l]  BY <1>1, <1>2, <1>4, <4>3 DEF r
      <4>5. under[a] \subseteq under[l]  BY <1>1, <4>3, <4>4 DEF SearchTree, Nested
      <4>6. key \notin under[k]  BY <1>2, <3>1, <4>1, <4>3, <4>5
      <4>7. h[k] = old[k]  BY <1>k, <3>1, <4>6
      <4> QED BY <1>1, <3>1, <3>2, <3>4, <4>7
    <3> QED BY <3>3, <3>4
  <2> QED BY <2>1, <2>2, <2>3
<1>5. ASSUME a \notin under[x], NEW s \in Side
      PROVE  High(h2, t2.child[s][x]) = High(h, t.child[s][x])
  <2> DEFINE k == t.child[s][x]
  <2>0. t2.child[s][x] = (IF k = a THEN n ELSE k) /\ k \notin X \ {a}  BY <1>1
  <2>1. CASE k = Null  BY <1>2, <2>0, <2>1 DEF High
  <2>2. CASE k # Null
    <3>1. k \in S /\ k \in under[x] /\ under[k] \subseteq under[x]
      BY <1>3, <2>2 DEF ChildOf
    <3>2. k # a /\ a \notin under[k]  BY <1>5, <3>1
    <3> QED BY <1>1, <2>0, <2>2, <3>1, <3>2 DEF High
  <2> QED BY <2>1, <2>2
<1>6. h2[x] = IF a \in under[x] THEN old[x] ELSE h[x]  BY <1>1
<1>7. CASE a \in under[x]  BY <1>4, <1>6, <1>7, SameHeights DEF MoreLevel
<1>8. CASE a \notin under[x]  BY <1>5, <1>6, <1>8, SameHeights DEF MoreLevel
<1> QED BY <1>7, <1>8

-----------------------------------------------------------------------------
(* Where acdb_heap_insert rotates. *)

\* What acdb_heap_insert finds where it rotates: of the child b of a the subtree that
\* the new node has made higher, under c, is two higher than the other child of a and
\* one higher than the other child of b, and b is now as high as a was.
HeavyPath(under, h, old, side, b) ==
  LET a == op.at  c == op.below  r == Direction(c, b)
  IN /\ a \in saved /\ side \in Side /\ b = tree.child[side][a] /\ b # Null /\ b \in saved
     /\ r \in Side /\ tree.child[r][b] = c /\ tree.parent[c] = b
     /\ h[c] \in Nat \ {0} /\ h[b] = h[c] + 1 /\ old[a] = h[b]
     /\ High(h, tree.child[Other(side)][a]) = h[c] - 1
     /\ High(h, tree.child[Other(r)][b]) = h[c] - 1
     /\ op.key \in under[c] /\ op.key \in under[a]

LEMMA HeavyFacts ==
  ASSUME AcdbTypeOK, NEW under, NEW h, NEW old,
         SearchTree(tree, saved, under), Heights(tree, saved, h), Growing(under, h, old),
         \A x \in saved : tree.depth[x] = h[x], op.at # Null, ~ IsBalanced(tree, op.at),
         op.key \in saved, op.below \in saved
  PROVE  HeavyPath(under, h, old, HeavySide(tree, op.at), tree.parent[op.below])
<1> DEFINE a == op.at
           c == op.below
           key == op.key
           side == HeavySide(tree, a)
           b == tree.child[side][a]
           o == tree.child[Other(side)][a]
<1>1. /\ a \in saved /\ key \in under[a] /\ key \in under[c] /\ c \in saved /\ key \in saved
      /\ (c = key /\ tree.parent[key] = a) \/ (tree.parent[c] # Null /\ tree.parent[tree.parent[c]] = a)
      /\ old[key] = 0 /\ \A s \in Side : tree.child[s][key] = Null
      /\ \A x \in saved \ {key} : HeightAt(tree, old, x) /\ LevelAt(tree, old, x)
      /\ \A x \in saved : h[x] \in {old[x], old[x] + 1} /\ (key \notin under[x] => h[x] = old[x])
      /\ \A x \in saved : a \notin under[x] => LevelAt(tree, h, x)
  BY DEF Growing
<1>2. /\ tree \in Tree /\ saved \subseteq Key /\ Null \notin Key
      /\ old \in [Key -> Nat] /\ h \in [Key -> Nat]
      /\ \A x \in saved : HeightAt(tree, h, x)
  BY NullIsNoKey DEF AcdbTypeOK, Growing, Heights
<1>3. side \in Side /\ Other(side) \in Side /\ side # Other(side) /\ Other(Other(side)) = side
  BY SideFacts DEF HeavySide
<1>t. \A s \in Side, x \in Key : tree.child[s][x] \in Pointer  BY <1>2 DEF Tree
<1>h. /\ \A k \in Pointer : High(h, k) \in Nat /\ High(old, k) \in Nat
      /\ \A k \in Key : High(h, k) = h[k] /\ High(old, k) = old[k]
      /\ High(h, Null) = 0 /\ High(old, Null) = 0
  BY <1>2 DEF High, Pointer
<1>c. ChildOf(tree, saved, under, a, side) /\ ChildOf(tree, saved, under, a, Other(side))
  BY <1>1, <1>2, <1>3, ChildFacts
<1>4. High(h, b) >= High(h, o) + 2
  <2> DEFINE l == tree.child[Left][a]
             r == tree.child[Right][a]
  <2>1. l \in saved \cup {Null} /\ r \in saved \cup {Null}
    <3>1. \A s \in Side : ChildOf(tree, saved, under, a, s)  BY <1>1, <1>2, ChildFacts
    <3>2. ChildOf(tree, saved, under, a, Left) /\ ChildOf(tree, saved, under, a, Right)
      BY <3>1, SideFacts
    <3> QED BY <3>2 DEF ChildOf
  <2>2. Depth(tree, l) = High(h, l) /\ Depth(tree, r) = High(h, r)
    BY <2>1 DEF Depth, High
  <2>3. High(h, l) \in Nat /\ High(h, r) \in Nat
    BY <1>2, <2>1, <1>h DEF Pointer
  <2>4. /\ Factor(tree, a) = High(h, r) - High(h, l)
        /\ side = IF Factor(tree, a) < 0 THEN Left ELSE Right
    BY <2>2 DEF Factor, HeavySide
  <2>5. Factor(tree, a) \notin -1 .. 1  BY DEF IsBalanced
  <2>6. Other(Left) = Right /\ Other(Right) = Left  BY SideFacts DEF Other
  <2>7. CASE Factor(tree, a) < 0
    <3>1. b = l /\ o = r  BY <2>4, <2>6, <2>7
    <3> HIDE DEF b, o, l, r, side
    <3> QED BY <2>3, <2>4, <2>5, <2>7, <3>1
  <2>8. CASE ~ (Factor(tree, a) < 0)
    <3>1. b = r /\ o = l  BY <2>4, <2>6, <2>8
    <3> HIDE DEF b, o, l, r, side
    <3> QED BY <2>3, <2>4, <2>5, <2>8, <3>1
  <2> QED BY <2>7, <2>8
<1> HIDE DEF side, a, c, key
<1>5. b \in Key /\ b # Null /\ b \in saved /\ tree.parent[b] = a
      /\ b # a /\ a \notin under[b]
      /\ \A y \in Key : y \in under[b] <=> y \in under[a] /\ y # a /\ Direction(y, a) = side
  <2>1. b # Null
    <3>1. High(h, o) \in Nat /\ High(h, b) \in Nat  BY <1>1, <1>2, <1>3, <1>t, <1>h
    <3> HIDE DEF b, o
    <3> QED BY <1>4, <1>h, <3>1
  <2> QED BY <1>1, <1>2, <1>c, <2>1 DEF ChildOf
<1>6. a # key
  BY <1>1, <1>3, <1>5
<1>7. o # Null => /\ o \in saved /\ o \in Key
                  /\ \A y \in Key : y \in under[o] <=> y \in under[a] /\ y # a /\ Direction(y, a) = Other(side)
  BY <1>2, <1>c DEF ChildOf
<1>8. High(old, b) <= High(old, o) + 1 /\ HeightAt(tree, old, a)
  <2>1. HeightAt(tree, old, a) /\ LevelAt(tree, old, a)  BY <1>1, <1>6
  <2> QED BY <1>1, <1>2, <1>3, <2>1, HeightOnSides
<1>9. High(h, o) \in {High(old, o), High(old, o) + 1}
  <2>1. CASE o = Null  BY <1>h, <2>1
  <2>2. CASE o # Null  BY <1>1, <1>7, <1>h, <2>2
  <2> QED BY <2>1, <2>2
<1>10. h[b] = old[b] + 1 /\ old[b] = High(old, o) + 1 /\ High(h, o) = High(old, o)
  <2>1. High(h, o) \in Nat /\ High(old, o) \in Nat /\ h[b] \in Nat /\ old[b] \in Nat
    BY <1>1, <1>2, <1>3, <1>5, <1>t, <1>h
  <2>2. h[b] >= High(h, o) + 2 /\ old[b] <= High(old, o) + 1
    BY <1>4, <1>5, <1>8, <1>h
  <2>3. h[b] = old[b] \/ h[b] = old[b] + 1  BY <1>1, <1>5
  <2> HIDE DEF b, o
  <2> QED BY <1>9, <2>1, <2>2, <2>3
<1>11. key \in under[b]
  <2>1. h[b] # old[b]  BY <1>2, <1>5, <1>10
  <2> QED BY <1>1, <1>5, <2>1
<1>12. tree.parent[c] # Null /\ tree.parent[tree.parent[c]] = a
  <2>1. SUFFICES ASSUME c = key, tree.parent[key] = a PROVE FALSE  BY <1>1
  <2>2. key = b
    BY <1>1, <1>5, <1>11, <2>1 DEF SearchTree, Upward
  <2>3. h[key] = 1
    <3>1. HeightAt(tree, h, key)  BY <1>1, <1>2
    <3>2. High(h, tree.child[Left][key]) = 0 /\ High(h, tree.child[Right][key]) = 0
      BY <1>1, <1>h, SideFacts
    <3> QED BY <3>1, <3>2 DEF HeightAt, Deeper
  <2>4. High(old, o) \in Nat  BY <1>1, <1>2, <1>3, <1>t, <1>h
  <2> QED BY <1>1, <1>10, <2>2, <2>3, <2>4
<1> DEFINE q == tree.parent[c]
           r == Direction(c, q)
           d == tree.child[Other(r)][q]
<1>13. q \in saved /\ tree.child[r][q] = c /\ r \in Side
  <2>1. q \in saved /\ tree.child[r][q] = c  BY <1>1, <1>12 DEF SearchTree, Upward
  <2> QED BY <1>1, <1>2, <2>1, DirectionFacts
<1>14. key \in under[q]
  <2>1. ChildOf(tree, saved, under, q, r)  BY <1>2, <1>13, ChildFacts
  <2>2. c # Null  BY <1>1, <1>2
  <2> QED BY <1>1, <1>13, <2>1, <2>2 DEF ChildOf
<1>15. q = b
  <2>1. a # Null  BY <1>1, <1>2
  <2>2. tree.child[Direction(q, a)][a] = q /\ Direction(q, a) \in Side
    <3>1. tree.parent[q] = a  BY <1>12
    <3> QED BY <1>1, <1>2, <1>13, <2>1, <3>1, DirectionFacts DEF SearchTree, Upward
  <2>3. CASE Direction(q, a) = side  BY <2>2, <2>3
  <2>4. CASE Direction(q, a) # side
    <3>1. Direction(q, a) = Other(side)  BY <1>3, <2>2, <2>4, SideFacts
    <3>2. q = o /\ o # Null  BY <1>2, <1>13, <2>2, <3>1
    <3> QED BY <1>1, <1>2, <1>3, <1>5, <1>7, <1>11, <1>14, <3>2
  <2> QED BY <2>3, <2>4
<1>16. b # key
  <2>1. c # Null  BY <1>1, <1>2
  <2> QED BY <1>1, <1>13, <1>15, <2>1
<1> HIDE DEF q, r, b, o
<1>17. High(h, d) = High(old, d) /\ d \in Pointer
  <2>0. Other(r) \in Side /\ Other(r) # r  BY <1>13, SideFacts
  <2>1. CASE d = Null  BY <1>h, <2>1 DEF Pointer
  <2>2. CASE d # Null
    <3>1. ChildOf(tree, saved, under, q, r) /\ ChildOf(tree, saved, under, q, Other(r))
      BY <1>2, <1>13, <2>0, ChildFacts
    <3>2. c # Null  BY <1>1, <1>2
    <3>3. /\ d \in saved
          /\ \A y \in Key : y \in under[d] <=> y \in under[q] /\ y # q /\ Direction(y, q) = Other(r)
      BY <2>2, <3>1 DEF ChildOf
    <3>4. \A y \in Key : y \in under[c] <=> y \in under[q] /\ y # q /\ Direction(y, q) = r
      BY <1>13, <3>1, <3>2 DEF ChildOf
    <3>5. key \notin under[d]  BY <1>1, <1>2, <2>0, <3>3, <3>4
    <3> QED BY <1>1, <1>2, <1>h, <3>3, <3>5 DEF Pointer
  <2> QED BY <2>1, <2>2
<1>18. /\ h[b] = 1 + (IF h[c] > High(h, d) THEN h[c] ELSE High(h, d))
       /\ old[b] = 1 + (IF old[c] > High(old, d) THEN old[c] ELSE High(old, d))
       /\ h[c] <= High(h, d) + 1
  <2>1. HeightAt(tree, h, b) /\ HeightAt(tree, old, b) /\ LevelAt(tree, h, b)
    BY <1>1, <1>2, <1>5, <1>16
  <2>2. tree.child[r][b] = c /\ tree.child[Other(r)][b] = d  BY <1>13, <1>15
  <2>3. High(h, c) = h[c] /\ High(old, c) = old[c]  BY <1>1, <1>2, <1>h
  <2> HIDE DEF d
  <2> QED BY <1>2, <1>5, <1>13, <2>1, <2>2, <2>3, HeightOnSides
<1>19. High(h, d) \in Nat /\ h[c] \in Nat /\ old[c] \in Nat /\ h[b] \in Nat /\ old[b] \in Nat
       /\ High(old, o) \in Nat
  <2>1. o \in Pointer  BY <1>1, <1>2, <1>3, <1>t DEF o
  <2> QED BY <1>1, <1>2, <1>5, <1>17, <1>h, <2>1
<1> HIDE DEF d
<1>20. h[c] = old[c] \/ h[c] = old[c] + 1  BY <1>1
<1>21. /\ h[c] # 0 /\ h[b] = h[c] + 1 /\ High(h, d) = h[c] - 1
  BY <1>10, <1>17, <1>18, <1>19, <1>20
<1>22. High(h, o) = h[c] - 1  BY <1>10, <1>19, <1>21
<1>23. old[a] = h[b]
  <2>1. old[a] = 1 + (IF High(old, b) > High(old, o) THEN High(old, b) ELSE High(old, o))
    BY <1>1, <1>2, <1>3, <1>8, HeightOnSides DEF b, o
  <2>2. High(old, b) = old[b]  BY <1>5, <1>h
  <2> QED BY <1>10, <1>19, <2>1, <2>2
<1>24. tree.child[side][a] = b  BY DEF b
<1>25. h[c] \in Nat \ {0}  BY <1>19, <1>21
<1> QED BY <1>1, <1>3, <1>5, <1>13, <1>15, <1>21, <1>22, <1>23, <1>24, <1>25 DEF HeavyPath, side, a, c, key, o, d, r, q

\* Elsewhere a rotation only puts b where a was.
PutUp(t, t2, a, b, s, x) ==
  /\ t2.child[s][x] = (IF t.child[s][x] = a THEN b ELSE t.child[s][x])
  /\ t.child[s][x] # b

LEMMA TurnedElsewhere ==
  ASSUME NEW t \in Tree, NEW S, S \subseteq Key, NEW under, SearchTree(t, S, under),
         NEW a \in S, NEW side \in Side, NEW b, b = t.child[side][a], b # Null,
         NEW t2, Turned(t, t2, a, b, side),
         NEW x \in S, x # a, x # b, NEW s \in Side
  PROVE  PutUp(t, t2, a, b, s, x)
<1> DEFINE p == t.parent[a]
           k == t.child[s][x]
<1>1. Edge(t, S, under, a, side)  BY EdgeFacts
<1>2. /\ b \in S /\ t.parent[b] = a
      /\ p # Null => t.child[Direction(a, p)][p] = a /\ Direction(b, p) = Direction(a, p)
  BY <1>1 DEF Edge
<1>3. ChildOf(t, S, under, x, s)  BY ChildFacts
<1>4. k # Null => t.parent[k] = x /\ Direction(k, x) = s  BY <1>3 DEF ChildOf
<1>5. a # Null /\ b # Null /\ x # Null  BY NullIsNoKey, <1>2
<1>6. k # b  BY <1>2, <1>4, <1>5
<1>7. t2.child[s][x] = IF x = p /\ s = Direction(b, p) THEN b ELSE k
  BY <1>2 DEF Turned
<1>8. k = a => x = p /\ s = Direction(b, p)
  BY <1>2, <1>4, <1>5
<1>9. x = p /\ s = Direction(b, p) => k = a
  BY <1>2, <1>5
<1> QED BY <1>6, <1>7, <1>8, <1>9 DEF PutUp

\* The heights after a rotation with n on top.
RestoredHeights(under, h, old, b, n) ==
  [x \in Key |-> IF x = n THEN h[b]
                 ELSE IF x = op.at \/ x = b THEN h[op.below]
                 ELSE IF op.at \in under[x] THEN old[x] ELSE h[x]]

\* A rotation with n on top makes everything level again.
Rotated(t2, u2, h2, h, n, again) ==
  /\ t2 \in Tree /\ t2.depth = tree.depth /\ t2.root = tree.root
  /\ SearchTree(t2, saved, u2) /\ h2 \in [Key -> Nat]
  /\ \A x \in saved : HeightAt(t2, h2, x) /\ LevelAt(t2, h2, x)
  /\ n \in saved /\ t2.parent[op.at] = n
  /\ op.below \in u2[n] /\ h2[op.at] <= h2[op.below] + 1
  /\ \A x \in saved : op.at \notin u2[x] /\ again \notin u2[x] => h2[x] = h[x]

\* What the two kinds of rotation start from.
LEMMA BeforeRotation ==
  ASSUME AcdbTypeOK, NEW under, NEW h, NEW old, NEW side, NEW b,
         SearchTree(tree, saved, under), Heights(tree, saved, h), Growing(under, h, old),
         HeavyPath(under, h, old, side, b), op.below \in saved
  PROVE  LET a == op.at  c == op.below IN
         /\ tree \in Tree /\ saved \subseteq Key /\ Null \notin Key
         /\ old \in [Key -> Nat] /\ h \in [Key -> Nat]
         /\ a \in saved /\ a # Null /\ b # Null /\ b # a /\ c # Null /\ c # b /\ c # a
         /\ side \in Side /\ Other(side) \in Side /\ Other(Other(side)) = side /\ Other(side) # side
         /\ a \in under[a] /\ b \in under[a] /\ c \in under[a]
         /\ \A x \in saved : op.key \notin under[x] => h[x] = old[x]
         /\ \A x \in saved : HeightAt(tree, h, x)
         /\ \A x \in saved : a \notin under[x] => LevelAt(tree, h, x)
         /\ \A x \in saved : a \in under[x] => HeightAt(tree, old, x) /\ LevelAt(tree, old, x)
<1> DEFINE a == op.at
           c == op.below
           key == op.key
<1>1. /\ tree \in Tree /\ saved \subseteq Key /\ Null \notin Key
      /\ old \in [Key -> Nat] /\ h \in [Key -> Nat]
      /\ \A x \in saved : HeightAt(tree, h, x)
  BY NullIsNoKey DEF AcdbTypeOK, Growing, Heights
<1>2. /\ side \in Side /\ Other(side) \in Side /\ Other(Other(side)) = side /\ Other(side) # side
  BY SideFacts DEF HeavyPath
<1>3. /\ a \in saved /\ b = tree.child[side][a] /\ b # Null
      /\ tree.child[Direction(c, b)][b] = c /\ Direction(c, b) \in Side
  BY DEF HeavyPath
<1>e. Edge(tree, saved, under, a, side)  BY <1>1, <1>2, <1>3, EdgeFacts
<1>4. /\ b \in saved /\ b # a /\ a \in under[a] /\ b \in under[a]
      /\ under[b] \subseteq under[a] \ {a}
  BY <1>3, <1>e DEF Edge
<1>c. ChildOf(tree, saved, under, b, Direction(c, b))
  BY <1>1, <1>3, <1>4, ChildFacts
<1>5. c # Null /\ a # Null  BY <1>1, <1>3
<1>6. c \in under[b] /\ c # b
  <2>1. tree.child[Direction(c, b)][b] # Null  BY <1>3, <1>5
  <2> QED BY <1>3, <1>c, <2>1 DEF ChildOf
<1>7. ASSUME NEW x \in saved, a \in under[x]
      PROVE  HeightAt(tree, old, x) /\ LevelAt(tree, old, x)
  <2>1. /\ \A s \in Side : tree.child[s][key] = Null
        /\ \A y \in saved \ {key} : HeightAt(tree, old, y) /\ LevelAt(tree, old, y)
    BY DEF Growing
  <2>2. x # key
    <3>1. SUFFICES ASSUME x = key PROVE FALSE  OBVIOUS
    <3>2. a # key  BY <1>2, <1>3, <2>1
    <3>3. Direction(a, key) \in Side  BY <1>1, <1>3, <3>1, DirectionFacts
    <3>4. ChildOf(tree, saved, under, key, Direction(a, key))
      BY <1>1, <3>1, <3>3, ChildFacts
    <3> QED BY <1>1, <1>3, <1>7, <2>1, <3>1, <3>2, <3>3, <3>4 DEF ChildOf
  <2> QED BY <2>1, <2>2
<1>8. /\ \A x \in saved : key \notin under[x] => h[x] = old[x]
      /\ \A x \in saved : a \notin under[x] => LevelAt(tree, h, x)
  BY DEF Growing
<1> QED BY <1>1, <1>2, <1>3, <1>4, <1>5, <1>6, <1>7, <1>8

\* What hangs below a does not have a below it.
HangsBelow(t, under, a, x, s) == LET k == t.child[s][x] IN
  k # Null => k \in Key /\ k \in under[a] /\ k # a /\ a \notin under[k] /\ t.parent[k] = x /\ k # x

LEMMA BelowIt ==
  ASSUME NEW t \in Tree, NEW S, S \subseteq Key, NEW under, SearchTree(t, S, under),
         NEW a \in S, NEW x \in under[a], NEW s \in Side
  PROVE  HangsBelow(t, under, a, x, s)
<1>1. under[a] \subseteq S /\ x \in S  BY DEF SearchTree, Nested
<1>2. ChildOf(t, S, under, x, s)  BY <1>1, ChildFacts
<1>3. under[x] \subseteq under[a] /\ (x # a => a \notin under[x])
  BY <1>1 DEF SearchTree, Nested
<1>4. CASE x = a  BY <1>2, <1>4 DEF ChildOf, HangsBelow
<1>5. CASE x # a  BY <1>2, <1>3, <1>5 DEF ChildOf, HangsBelow
<1> QED BY <1>4, <1>5

\* Single makes everything level again.
LEMMA SingleLevels ==
  ASSUME AcdbTypeOK, NEW under, NEW h, NEW old, NEW side, NEW b,
         SearchTree(tree, saved, under), Heights(tree, saved, h), Growing(under, h, old),
         HeavyPath(under, h, old, side, b), op.below \in saved, Direction(op.below, b) = side
  PROVE  Rotated(Single(tree, op.at, op.below, side), TurnedUnder(tree, under, op.at, b, side),
                 RestoredHeights(under, h, old, b, b), h, b, op.below)
<1> DEFINE a == op.at
           c == op.below
           d == tree.child[Other(side)][b]
           o == tree.child[Other(side)][a]
           t2 == Single(tree, a, c, side)
           u2 == TurnedUnder(tree, under, a, b, side)
           h2 == RestoredHeights(under, h, old, b, b)
           X == {a, b}
<1>1. /\ tree \in Tree /\ saved \subseteq Key /\ Null \notin Key
      /\ old \in [Key -> Nat] /\ h \in [Key -> Nat]
      /\ a \in saved /\ a # Null /\ b # Null /\ b # a /\ c # Null /\ c # b /\ c # a
      /\ side \in Side /\ Other(side) \in Side /\ Other(Other(side)) = side /\ Other(side) # side
      /\ a \in under[a] /\ b \in under[a] /\ c \in under[a]
      /\ \A x \in saved : op.key \notin under[x] => h[x] = old[x]
      /\ \A x \in saved : a \notin under[x] => LevelAt(tree, h, x)
      /\ \A x \in saved : HeightAt(tree, h, x)
      /\ \A x \in saved : a \in under[x] => HeightAt(tree, old, x) /\ LevelAt(tree, old, x)
  BY BeforeRotation
<1>2. /\ b = tree.child[side][a] /\ b \in saved
      /\ tree.child[side][b] = c /\ tree.parent[c] = b
      /\ h[c] \in Nat \ {0} /\ h[b] = h[c] + 1 /\ old[a] = h[b]
      /\ High(h, o) = h[c] - 1 /\ High(h, d) = h[c] - 1
      /\ op.key \in under[a] /\ c \in saved
  BY DEF HeavyPath
<1>3. Turned(tree, t2, a, b, side)
  BY <1>1, <1>2, SingleTurns
<1>4. SearchTree(t2, saved, u2)
  BY <1>1, <1>2, <1>3, TurnedKeepsTree
<1>5. Turns(u2, tree, under, a, b, side)
  BY <1>1, <1>2, TurnedUnderFacts
<1>6. /\ t2 \in Tree /\ t2.depth = tree.depth /\ t2.root = tree.root
      /\ t2.parent[a] = b
      /\ t2.child[side][a] = d /\ t2.child[Other(side)][b] = a
      /\ t2.child[Other(side)][a] = o /\ t2.child[side][b] = c
  <2>1. \A s \in Side : ~ (a = tree.parent[a] /\ s = Direction(b, tree.parent[a]))
                        /\ ~ (b = tree.parent[a] /\ s = Direction(b, tree.parent[a]))
    <3>1. Edge(tree, saved, under, a, side)  BY <1>1, <1>2, EdgeFacts
    <3>2. tree.parent[a] # Null => tree.parent[a] # a /\ tree.parent[a] # b  BY <1>2, <3>1 DEF Edge
    <3> QED BY <1>1, <3>2
  <2> QED BY <1>1, <1>2, <1>3, <2>1 DEF Turned
<1>7. /\ h2 \in [Key -> Nat]
      /\ h2[b] = h[b] /\ h2[a] = h[c]
      /\ \A x \in Key : x # a /\ x # b => h2[x] = IF a \in under[x] THEN old[x] ELSE h[x]
  BY <1>1, <1>2 DEF RestoredHeights
<1> HIDE DEF t2, u2, h2, a, c
<1>8. Elsewhere(tree, t2, saved, under, h, old, h2, a, b, X)
  <2>1. \A x \in saved \ X, s \in Side :
          /\ t2.child[s][x] = IF tree.child[s][x] = a THEN b ELSE tree.child[s][x]
          /\ tree.child[s][x] # b
    <3> TAKE x \in saved \ X, s \in Side
    <3>1. x \in saved /\ x # a /\ x # b  OBVIOUS
    <3>2. PutUp(tree, t2, a, b, s, x)  BY <1>1, <1>2, <1>3, <3>1, TurnedElsewhere
    <3> QED BY <3>2 DEF PutUp
  <2>2. \E key \in under[a] : \A x \in saved : key \notin under[x] => h[x] = old[x]  BY <1>1, <1>2
  <2> QED BY <1>1, <1>2, <1>7, <2>1, <2>2 DEF Elsewhere
<1>9. \A x \in saved \ X : HeightAt(t2, h2, x) /\ LevelAt(t2, h2, x)
  <2> TAKE x \in saved \ X
  <2>1. x \in saved  OBVIOUS
  <2>6. MoreLevel(tree, t2, under, h, old, h2, a, x)
    BY <1>1, <1>8, HeightsElsewhere
  <2>3. /\ a \in under[x] => /\ HeightAt(tree, old, x) => HeightAt(t2, h2, x)
                             /\ LevelAt(tree, old, x) => LevelAt(t2, h2, x)
        /\ a \notin under[x] => /\ HeightAt(tree, h, x) => HeightAt(t2, h2, x)
                                /\ LevelAt(tree, h, x) => LevelAt(t2, h2, x)
    BY <2>6 DEF MoreLevel
  <2>4. CASE a \in under[x]
    <3>1. HeightAt(tree, old, x) /\ LevelAt(tree, old, x)  BY <1>1, <2>1, <2>4
    <3> QED BY <2>3, <2>4, <3>1
  <2>5. CASE a \notin under[x]
    <3>1. HeightAt(tree, h, x) /\ LevelAt(tree, h, x)  BY <1>1, <2>1, <2>5
    <3> QED BY <2>3, <2>5, <3>1
  <2> QED BY <2>4, <2>5
<1>10. ASSUME NEW k, k = Null \/ (k \in Key /\ k # a /\ k # b /\ a \notin under[k])
       PROVE  High(h2, k) = High(h, k)
  BY <1>7, <1>10 DEF High
<1>11. High(h2, d) = h[c] - 1 /\ High(h2, o) = h[c] - 1 /\ High(h2, c) = h[c] /\ High(h2, a) = h[c]
  <2>h. /\ HangsBelow(tree, under, a, b, Other(side)) /\ HangsBelow(tree, under, a, a, Other(side))
        /\ HangsBelow(tree, under, a, b, side)
    BY <1>1, BelowIt
  <2>1. d # Null => d \in Key /\ d # a /\ a \notin under[d] /\ tree.parent[d] = b /\ d # b
    BY <2>h DEF HangsBelow
  <2>2. o # Null => o \in Key /\ o # a /\ a \notin under[o] /\ tree.parent[o] = a
    BY <2>h DEF HangsBelow
  <2>3. c \in Key /\ c # a /\ a \notin under[c]
    BY <1>1, <1>2, <2>h DEF HangsBelow
  <2>4. d # b  BY <1>1, <2>1
  <2>5. o # b
    <3>1. ChildOf(tree, saved, under, a, side) /\ ChildOf(tree, saved, under, a, Other(side))
      BY <1>1, ChildFacts
    <3> QED BY <1>1, <1>2, <3>1 DEF ChildOf
  <2>6. High(h2, d) = High(h, d) /\ High(h2, o) = High(h, o) /\ High(h2, c) = High(h, c)
    BY <1>1, <1>10, <2>1, <2>2, <2>3, <2>4, <2>5
  <2> QED BY <1>1, <1>2, <1>7, <2>6 DEF High
<1> HIDE DEF d, o
<1>12. HeightAt(t2, h2, a) /\ LevelAt(t2, h2, a)
  <2>1. High(h2, t2.child[side][a]) = h[c] - 1 /\ High(h2, t2.child[Other(side)][a]) = h[c] - 1
    BY <1>6, <1>11
  <2> QED BY <1>1, <1>2, <1>6, <1>7, <2>1, HeightOnSides
<1>13. HeightAt(t2, h2, b) /\ LevelAt(t2, h2, b)
  <2>1. High(h2, t2.child[side][b]) = h[c] /\ High(h2, t2.child[Other(side)][b]) = h[c]
    BY <1>6, <1>11
  <2> QED BY <1>1, <1>2, <1>6, <1>7, <2>1, HeightOnSides
<1>14. \A x \in saved : HeightAt(t2, h2, x) /\ LevelAt(t2, h2, x)
  BY <1>9, <1>12, <1>13
<1>15. \A x \in saved : a \notin u2[x] => h2[x] = h[x]
  <2>1. a \in u2[a]  BY <1>4, <1>1 DEF SearchTree, Nested
  <2>2. a \in u2[b]  BY <1>1, <1>5 DEF Turns
  <2>3. \A x \in Key : x # a /\ x # b => u2[x] = under[x]  BY <1>5 DEF Turns
  <2> QED BY <1>1, <1>7, <2>1, <2>2, <2>3
<1>16. c \in u2[b]  BY <1>1, <1>5 DEF Turns
<1>17. h2[a] <= h2[c] + 1
  <2>1. h2[c] = h[c]  BY <1>1, <1>11 DEF High
  <2> QED BY <1>2, <1>7, <2>1
<1> QED BY <1>2, <1>4, <1>6, <1>7, <1>14, <1>15, <1>16, <1>17 DEF Rotated, t2, u2, h2, a, c

\* So does Double, unless it moves a subtree.
LEMMA DoubleLevels ==
  ASSUME AcdbTypeOK, NEW under, NEW h, NEW old, NEW side, NEW b,
         SearchTree(tree, saved, under), Heights(tree, saved, h), Growing(under, h, old),
         HeavyPath(under, h, old, side, b), op.below \in saved, Direction(op.below, b) # side,
         tree.child[side][op.below] = Null
  PROVE  Rotated(Double(tree, op.at, op.below, side),
                 TurnedUnder(Swapped(tree, op.at, op.below, side),
                             TurnedUnder(tree, under, b, op.below, Other(side)), op.at, op.below, side),
                 RestoredHeights(under, h, old, b, op.below), h, op.below, b)
<1> DEFINE a == op.at
           c == op.below
           d == tree.child[side][b]
           e == tree.child[Other(side)][c]
           o == tree.child[Other(side)][a]
           t1 == Swapped(tree, a, c, side)
           u1 == TurnedUnder(tree, under, b, c, Other(side))
           t2 == Double(tree, a, c, side)
           u2 == TurnedUnder(t1, u1, a, c, side)
           h2 == RestoredHeights(under, h, old, b, c)
           X == {a, b, c}
<1>1. /\ tree \in Tree /\ saved \subseteq Key /\ Null \notin Key
      /\ old \in [Key -> Nat] /\ h \in [Key -> Nat]
      /\ a \in saved /\ a # Null /\ b # Null /\ b # a /\ c # Null /\ c # b /\ c # a
      /\ side \in Side /\ Other(side) \in Side /\ Other(Other(side)) = side /\ Other(side) # side
      /\ a \in under[a] /\ b \in under[a] /\ c \in under[a]
      /\ \A x \in saved : op.key \notin under[x] => h[x] = old[x]
      /\ \A x \in saved : a \notin under[x] => LevelAt(tree, h, x)
      /\ \A x \in saved : HeightAt(tree, h, x)
      /\ \A x \in saved : a \in under[x] => HeightAt(tree, old, x) /\ LevelAt(tree, old, x)
  BY BeforeRotation
<1>2. /\ b = tree.child[side][a] /\ b \in saved
      /\ tree.child[Other(side)][b] = c /\ tree.parent[c] = b
      /\ h[c] \in Nat \ {0} /\ h[b] = h[c] + 1 /\ old[a] = h[b]
      /\ High(h, o) = h[c] - 1 /\ High(h, d) = h[c] - 1
      /\ op.key \in under[a] /\ c \in saved
  <2>1. Direction(c, b) \in Side  BY DEF HeavyPath
  <2>2. Direction(c, b) = Other(side)  BY <1>1, <2>1, SideFacts
  <2> QED BY <1>1, <2>2 DEF HeavyPath
<1>3. /\ Turned(tree, t1, b, c, Other(side)) /\ t1.child[side][a] = c /\ t1.parent[b] = c
  <2>1. tree.child[side][c] = Null  OBVIOUS
  <2>2. Swaps(tree, saved, a, b, c, side)  BY <1>1, <1>2, <2>1, SwappedTurns
  <2> QED BY <2>2 DEF Swaps
<1>4. t1 \in Tree /\ t1.depth = tree.depth /\ t1.root = tree.root  BY <1>3 DEF Turned
<1>5. SearchTree(t1, saved, u1)
  BY <1>1, <1>2, <1>3, TurnedKeepsTree
<1>6. Turns(u1, tree, under, b, c, Other(side))
  BY <1>1, <1>2, TurnedUnderFacts
<1>7. t2 = Single(t1, a, b, side)  BY <1>2 DEF Double
<1>8. Turned(t1, t2, a, c, side)
  <2>1. b \in Key /\ t1.parent[b] = t1.child[side][a] /\ t1.child[side][a] # Null
    BY <1>1, <1>2, <1>3
  <2>2. Turned(t1, Single(t1, a, b, side), a, t1.child[side][a], side)
    BY <1>1, <1>4, <1>5, <2>1, SingleTurns
  <2> QED BY <1>3, <1>7, <2>2
<1>9. SearchTree(t2, saved, u2)
  BY <1>1, <1>3, <1>4, <1>5, <1>8, TurnedKeepsTree
<1>10. Turns(u2, t1, u1, a, c, side)
  BY <1>1, <1>3, <1>4, <1>5, TurnedUnderFacts
<1>11. /\ h2 \in [Key -> Nat]
       /\ h2[c] = h[b] /\ h2[a] = h[c] /\ h2[b] = h[c]
       /\ \A x \in Key : x # a /\ x # b /\ x # c => h2[x] = IF a \in under[x] THEN old[x] ELSE h[x]
  BY <1>1, <1>2 DEF RestoredHeights
<1> HIDE DEF t1, t2, u1, u2, h2, a, c
<1>p. tree.parent[b] = a /\ Direction(c, a) = side
  <2>1. Edge(tree, saved, under, a, side)  BY <1>1, <1>2, EdgeFacts
  <2> QED BY <1>1, <1>2, <2>1 DEF Edge
<1>12. /\ t1.child[side][c] = b /\ t1.child[Other(side)][b] = Null /\ t1.child[side][b] = d
       /\ t1.child[Other(side)][c] = e /\ t1.child[Other(side)][a] = o
  <2>1. \A s \in Side, x \in Key :
          t1.child[s][x] = IF x = b /\ s = Other(side) THEN tree.child[side][c]
                           ELSE IF x = c /\ s = side THEN b
                           ELSE IF x = a /\ s = Direction(c, a) THEN c
                           ELSE tree.child[s][x]
    <3>1. \A s \in Side, x \in Key :
            t1.child[s][x] = IF x = b /\ s = Other(side) THEN tree.child[Other(Other(side))][c]
                             ELSE IF x = c /\ s = Other(Other(side)) THEN b
                             ELSE IF x = tree.parent[b] /\ s = Direction(c, tree.parent[b]) THEN c
                             ELSE tree.child[s][x]
      BY <1>3 DEF Turned
    <3> QED BY <1>1, <1>p, <3>1
  <2>2. tree.child[side][c] = Null  BY DEF c
  <2> QED BY <1>1, <1>2, <1>p, <2>1, <2>2
<1>13. /\ t2 \in Tree /\ t2.depth = tree.depth /\ t2.root = tree.root /\ t2.parent[a] = c
       /\ t2.child[side][a] = e /\ t2.child[Other(side)][a] = o
       /\ t2.child[side][b] = d /\ t2.child[Other(side)][b] = Null
       /\ t2.child[side][c] = b /\ t2.child[Other(side)][c] = a
  <2> DEFINE p == t1.parent[a]
  <2>1. p # a /\ p # b /\ p # c
    <3>1. Edge(t1, saved, u1, a, side)  BY <1>1, <1>3, <1>4, <1>5, EdgeFacts
    <3>2. p # Null => p # a /\ p # c  BY <1>3, <3>1 DEF Edge
    <3>3. p # b
      <4>1. SUFFICES ASSUME p = b PROVE FALSE  OBVIOUS
      <4>2. t1.child[Direction(a, b)][b] = a /\ Direction(a, b) \in Side
        <5>1. a \in Key /\ b \in Key /\ Direction(a, b) \in Side  BY <1>1, <1>2, DirectionFacts
        <5> QED BY <1>1, <1>5, <4>1, <5>1 DEF SearchTree, Upward
      <4>3. Direction(a, b) = Other(side)
        <5>1. Edge(tree, saved, under, a, side)  BY <1>1, <1>2, EdgeFacts
        <5> QED BY <1>2, <5>1 DEF Edge
      <4> QED BY <1>1, <1>12, <4>2, <4>3
    <3> QED BY <1>1, <3>2, <3>3
  <2> HIDE DEF p
  <2>2. /\ \A s \in Side, x \in Key :
             t2.child[s][x] = IF x = a /\ s = side THEN t1.child[Other(side)][c]
                              ELSE IF x = c /\ s = Other(side) THEN a
                              ELSE IF x = p /\ s = Direction(c, p) THEN c
                              ELSE t1.child[s][x]
        /\ t2 \in Tree /\ t2.depth = t1.depth /\ t2.root = t1.root
        /\ \A x \in Key : t2.parent[x] = IF x = c THEN p ELSE IF x = a THEN c
                                         ELSE IF x = t1.child[Other(side)][c] THEN a ELSE t1.parent[x]
    BY <1>8 DEF Turned, p
  <2> QED BY <1>1, <1>2, <1>4, <1>12, <2>1, <2>2
<1>14. Elsewhere(tree, t2, saved, under, h, old, h2, a, c, X)
  <2>1. \A x \in saved \ X, s \in Side :
          /\ t2.child[s][x] = IF tree.child[s][x] = a THEN c ELSE tree.child[s][x]
          /\ tree.child[s][x] # b /\ tree.child[s][x] # c
    <3> TAKE x \in saved \ X, s \in Side
    <3>1. x \in saved /\ x # a /\ x # b /\ x # c  OBVIOUS
    <3>2. PutUp(tree, t1, b, c, s, x)
      BY <1>1, <1>2, <1>3, <3>1, TurnedElsewhere
    <3>3. PutUp(t1, t2, a, c, s, x)
      BY <1>1, <1>3, <1>4, <1>5, <1>8, <3>1, TurnedElsewhere
    <3>4. tree.child[s][x] # b
      <4>1. ChildOf(tree, saved, under, x, s)  BY <1>1, <3>1, ChildFacts
      <4> QED BY <1>1, <1>p, <3>1, <4>1 DEF ChildOf
    <3> QED BY <3>2, <3>3, <3>4 DEF PutUp
  <2>2. \E key \in under[a] : \A x \in saved : key \notin under[x] => h[x] = old[x]  BY <1>1, <1>2
  <2>3. \A x \in saved \ X, s \in Side : tree.child[s][x] \notin X \ {a}  BY <2>1
  <2> QED BY <1>1, <1>2, <1>11, <2>1, <2>2, <2>3 DEF Elsewhere
<1>15. \A x \in saved \ X : HeightAt(t2, h2, x) /\ LevelAt(t2, h2, x)
  <2> TAKE x \in saved \ X
  <2>1. x \in saved  OBVIOUS
  <2>2. MoreLevel(tree, t2, under, h, old, h2, a, x)
    BY <1>1, <1>14, HeightsElsewhere
  <2>3. CASE a \in under[x]
    <3>1. HeightAt(tree, old, x) /\ LevelAt(tree, old, x)  BY <1>1, <2>1, <2>3
    <3> QED BY <2>2, <2>3, <3>1 DEF MoreLevel
  <2>4. CASE a \notin under[x]
    <3>1. HeightAt(tree, h, x) /\ LevelAt(tree, h, x)  BY <1>1, <2>1, <2>4
    <3> QED BY <2>2, <2>4, <3>1 DEF MoreLevel
  <2> QED BY <2>3, <2>4
<1>16. ASSUME NEW k, k = Null \/ (k \in Key /\ k # a /\ k # b /\ k # c /\ a \notin under[k])
       PROVE  High(h2, k) = High(h, k)
  BY <1>11, <1>16 DEF High
\* c is a leaf, or its only child is one.
<1>17. High(h, e) = h[c] - 1 /\ h[c] <= 2
  <2>1. a \notin under[c]
    <3>1. HangsBelow(tree, under, a, b, Other(side))  BY <1>1, BelowIt
    <3> QED BY <1>1, <1>2, <3>1 DEF HangsBelow
  <2>2. HeightAt(tree, h, c) /\ LevelAt(tree, h, c)  BY <1>1, <1>2, <2>1
  <2>3. tree.child[side][c] = Null  BY DEF c
  <2>4. High(h, Null) = 0  BY DEF High
  <2>5. /\ High(h, e) \in Nat
        /\ h[c] = 1 + (IF 0 > High(h, e) THEN 0 ELSE High(h, e))
        /\ High(h, e) <= 0 + 1
    BY <1>1, <1>2, <2>2, <2>3, <2>4, HeightOnSides
  <2> QED BY <2>5
<1>18. /\ High(h2, d) = h[c] - 1 /\ High(h2, e) = h[c] - 1 /\ High(h2, o) = h[c] - 1
       /\ High(h2, a) = h[c] /\ High(h2, b) = h[c] /\ High(h2, Null) = 0
  <2>h. /\ HangsBelow(tree, under, a, b, side) /\ HangsBelow(tree, under, a, a, Other(side))
        /\ HangsBelow(tree, under, a, c, Other(side))
    BY <1>1, BelowIt
  <2>1. d # Null => d \in Key /\ d # a /\ d # b /\ a \notin under[d] /\ d # c
    <3>1. ChildOf(tree, saved, under, b, side) /\ ChildOf(tree, saved, under, b, Other(side))
      BY <1>1, <1>2, ChildFacts
    <3>2. d # Null => d # c  BY <1>1, <1>2, <3>1 DEF ChildOf
    <3> QED BY <2>h, <3>2 DEF HangsBelow
  <2>2. o # Null => o \in Key /\ o # a /\ o # b /\ a \notin under[o] /\ o # c
    <3>1. ChildOf(tree, saved, under, a, side) /\ ChildOf(tree, saved, under, a, Other(side))
      BY <1>1, ChildFacts
    <3>2. o # Null => o # b /\ tree.parent[o] = a  BY <1>1, <1>2, <3>1 DEF ChildOf
    <3> QED BY <1>1, <1>2, <2>h, <3>2 DEF HangsBelow
  <2>3. e # Null => e \in Key /\ e # a /\ e # b /\ a \notin under[e] /\ e # c
    BY <1>1, <1>2, <1>p, <2>h DEF HangsBelow
  <2>4. High(h2, d) = High(h, d) /\ High(h2, o) = High(h, o) /\ High(h2, e) = High(h, e)
    BY <1>16, <2>1, <2>2, <2>3
  <2> QED BY <1>1, <1>2, <1>11, <1>17, <2>4 DEF High
<1> HIDE DEF d, e, o
<1>19. HeightAt(t2, h2, a) /\ LevelAt(t2, h2, a)
  <2>1. High(h2, t2.child[side][a]) = h[c] - 1 /\ High(h2, t2.child[Other(side)][a]) = h[c] - 1
    BY <1>13, <1>18
  <2> QED BY <1>1, <1>2, <1>11, <1>13, <2>1, HeightOnSides
<1>20. HeightAt(t2, h2, b) /\ LevelAt(t2, h2, b)
  <2>1. High(h2, t2.child[side][b]) = h[c] - 1 /\ High(h2, t2.child[Other(side)][b]) = 0
    BY <1>13, <1>18
  <2> QED BY <1>1, <1>2, <1>11, <1>13, <1>17, <2>1, HeightOnSides
<1>21. HeightAt(t2, h2, c) /\ LevelAt(t2, h2, c)
  <2>1. High(h2, t2.child[side][c]) = h[c] /\ High(h2, t2.child[Other(side)][c]) = h[c]
    BY <1>13, <1>18
  <2> QED BY <1>1, <1>2, <1>11, <1>13, <2>1, HeightOnSides
<1>22. \A x \in saved : HeightAt(t2, h2, x) /\ LevelAt(t2, h2, x)
  BY <1>15, <1>19, <1>20, <1>21
<1>23. u1[a] = under[a] /\ u2[c] = under[a]
  BY <1>1, <1>6, <1>10 DEF Turns
<1>24. \A x \in saved : a \notin u2[x] /\ b \notin u2[x] => h2[x] = h[x]
  <2>1. a \in u2[a] /\ b \in u2[b]  BY <1>1, <1>2, <1>9 DEF SearchTree, Nested
  <2>2. a \in u2[c]  BY <1>1, <1>23
  <2>3. \A x \in Key : x # a /\ x # b /\ x # c => u2[x] = under[x]
    BY <1>6, <1>10 DEF Turns
  <2> QED BY <1>1, <1>11, <2>1, <2>2, <2>3
<1>25. c \in u2[c]  BY <1>1, <1>23
<1>26. h2[a] <= h2[c] + 1  BY <1>2, <1>11
<1> QED BY <1>2, <1>9, <1>11, <1>13, <1>22, <1>24, <1>25, <1>26 DEF Rotated, t1, t2, u1, u2, h2, a, c

-----------------------------------------------------------------------------
(* Types. *)

LEMMA CreatedType ==
  ASSUME NEW t \in Tree, NEW k \in Key
  PROVE  /\ Created(t, k) \in Tree /\ Created(t, k).root = t.root
         /\ \A s \in Side, x \in Key : Created(t, k).child[s][x] = IF x = k THEN Null ELSE t.child[s][x]
         /\ \A x \in Key : Created(t, k).parent[x] = IF x = k THEN Null ELSE t.parent[x]
         /\ \A x \in Key : Created(t, k).depth[x] = IF x = k THEN 1 ELSE t.depth[x]
<1> DEFINE t2 == Created(t, k)
           c2 == [s \in Side |-> [t.child[s] EXCEPT ![k] = Null]]
<1>1. /\ t.child \in [Side -> [Key -> Pointer]] /\ t.parent \in [Key -> Pointer]
      /\ t.root \in Pointer /\ t.depth \in [Key -> Nat \ {0}]
  BY DEF Tree
<1>2. t2 = [t EXCEPT !.child = c2, !.parent[k] = Null, !.depth[k] = 1]  BY DEF Created
<1>3. c2 \in [Side -> [Key -> Pointer]]  BY <1>1 DEF Pointer
<1>4. \A s \in Side, x \in Key : c2[s][x] = IF x = k THEN Null ELSE t.child[s][x]  BY <1>1
<1> HIDE DEF c2, t2
<1>5. /\ t2 = [root |-> t.root, child |-> c2, parent |-> [t.parent EXCEPT ![k] = Null],
               depth |-> [t.depth EXCEPT ![k] = 1]]
  <2>1. t = [root |-> t.root, child |-> t.child, parent |-> t.parent, depth |-> t.depth]
    BY DEF Tree
  <2> QED BY <1>2, <2>1
<1>6. t2 \in Tree  BY <1>1, <1>3, <1>5 DEF Tree, Pointer
<1> QED BY <1>1, <1>4, <1>5, <1>6 DEF t2

\* A child linked to a node, or not.
LEMMA RelinkedType ==
  ASSUME NEW t \in Tree, NEW x \in Key
  PROVE  Relinked(t, x) \in Tree
<1>1. CASE t.parent[x] = Null  BY <1>1 DEF Relinked
<1>2. CASE t.parent[x] # Null
  <2> DEFINE p == t.parent[x]
             s == Direction(x, p)
             child == [t.child EXCEPT ![s][p] = x]
  <2>1. p \in Key /\ s \in Side
    BY <1>2, DirectionFacts DEF Tree, Pointer
  <2>2. Relinked(t, x) = [t EXCEPT !.child[s][p] = x]  BY <1>2 DEF Relinked
  <2> HIDE DEF s, p
  <2>3. child \in [Side -> [Key -> Pointer]]
    <3>1. t.child \in [Side -> [Key -> Pointer]] /\ x \in Pointer  BY DEF Tree, Pointer
    <3> QED BY <2>1, <3>1
  <2>4. Relinked(t, x) = [t EXCEPT !.child = child]
    <3>1. t.child \in [Side -> [Key -> Pointer]]  BY DEF Tree
    <3> QED BY <2>1, <2>2, <3>1 DEF Tree
  <2> HIDE DEF child
  <2> QED BY <2>3, <2>4 DEF Tree
<1> QED BY <1>1, <1>2

\* Rotations, of whatever three nodes, leave links that are pointers.
LEMMA SingleType ==
  ASSUME NEW t \in Tree, NEW a \in Key, NEW c \in Key, t.parent[c] \in Key, NEW side \in Side
  PROVE  Single(t, a, c, side) \in Tree /\ Single(t, a, c, side).root \in Pointer
<1> DEFINE b == t.parent[c]
           middle == t.child[Other(side)][b]
           t1 == [t EXCEPT !.parent[b] = t.parent[a], !.parent[a] = b]
           t2 == IF middle = Null THEN t1 ELSE [t1 EXCEPT !.parent[middle] = a]
           t3 == [t2 EXCEPT !.child[side][a] = middle, !.child[Other(side)][b] = a]
<1>1. Other(side) \in Side /\ b \in Key  BY SideFacts
<1>2. middle \in Pointer /\ t.parent[a] \in Pointer  BY <1>1 DEF Tree
<1>3. Single(t, a, c, side) = Relinked(t3, b)  BY DEF Single
<1> HIDE DEF b, middle
<1>4. t1 \in Tree  BY <1>1, <1>2 DEF Tree, Pointer
<1> HIDE DEF t1
<1>5. t2 \in Tree  BY <1>1, <1>2, <1>4 DEF Tree, Pointer
<1> HIDE DEF t2
<1>6. t3 \in Tree  BY <1>1, <1>2, <1>5 DEF Tree, Pointer
<1> HIDE DEF t3
<1>7. Relinked(t3, b) \in Tree  BY <1>1, <1>6, RelinkedType
<1> QED BY <1>3, <1>7 DEF Tree

LEMMA DoubleType ==
  ASSUME NEW t \in Tree, NEW a \in Key, NEW c \in Key, t.parent[c] \in Key, NEW side \in Side
  PROVE  Double(t, a, c, side) \in Tree
<1> DEFINE b == t.parent[c]
           t1 == [t EXCEPT !.parent[c] = t.parent[b], !.parent[b] = c]
           t2 == [t1 EXCEPT !.child[side][a] = c, !.child[Other(side)][b] = t.child[side][c]]
           t3 == Swapped(t, a, c, side)
<1>1. Other(side) \in Side /\ b \in Key  BY SideFacts
<1>2. t.child[side][c] \in Pointer /\ t.parent[b] \in Pointer  BY <1>1 DEF Tree
<1>3. t3 = [t2 EXCEPT !.child[side][c] = b]  BY DEF Swapped
<1>4. Double(t, a, c, side) = Single(t3, a, b, side)  BY DEF Double
<1> HIDE DEF b
<1>5. t1 \in Tree /\ t1.parent[b] = c  BY <1>1, <1>2 DEF Tree, Pointer
<1> HIDE DEF t1
<1>6. t2 \in Tree /\ t2.parent = t1.parent  BY <1>1, <1>2, <1>5 DEF Tree, Pointer
<1> HIDE DEF t2, t3
<1>7. t3 \in Tree /\ t3.parent = t2.parent  BY <1>1, <1>3, <1>6 DEF Tree, Pointer
<1>8. t3.parent[b] \in Key  BY <1>5, <1>6, <1>7
<1> QED BY <1>1, <1>4, <1>7, <1>8, SingleType

\* The call, as a record.
Op == [pc : {"idle", "search", "found", "absent", "insert", "depths", "balance", "walk", "listed"},
       task : {"none", "get", "save", "list", "clear"},
       key : Pointer, at : Pointer, below : Pointer, up : Pointer,
       again : Pointer, stack : Seq(Key), list : Seq(Key)]

LEMMA RestType == Rest \in Op
BY DEF Rest, Op, Pointer

LEMMA EmptyTreeType == EmptyTree \in Tree
BY DEF EmptyTree, Tree, Pointer

\* The cursors that are followed are nodes.
Cursors ==
  /\ op.pc \in {"search", "found", "absent", "insert"} => op.key \in Key
  /\ op.pc \in {"search", "insert"} => op.at \in Key

\* Types are kept, whatever the shape of the tree.
LEMMA AcdbTypeStep == AcdbTypeOK /\ Cursors /\ [AcdbNext]_acdb_vars => AcdbTypeOK' /\ Cursors'
<1> SUFFICES ASSUME AcdbTypeOK, Cursors, [AcdbNext]_acdb_vars PROVE AcdbTypeOK' /\ Cursors'
  OBVIOUS
<1>0. tree \in Tree /\ op \in Op /\ saved \subseteq Key /\ moved \in BOOLEAN
  BY DEF AcdbTypeOK, Op
<1> DEFINE AllTyped == tree' \in Tree /\ op' \in Op /\ saved' \subseteq Key /\ moved' \in BOOLEAN
<1> SUFFICES AllTyped /\ Cursors'
  BY DEF AcdbTypeOK, Op
<1>t. /\ tree.root \in Pointer /\ \A x \in Key : tree.parent[x] \in Pointer
      /\ \A s \in Side, x \in Key : tree.child[s][x] \in Pointer
  BY <1>0 DEF Tree
<1>n. Null \in Pointer /\ Key \subseteq Pointer /\ Null \notin Key /\ \A x \in Pointer : x # Null => x \in Key
  BY NullIsNoKey DEF Pointer
<1>o. /\ op.at \in Pointer /\ op.key \in Pointer /\ op.below \in Pointer /\ op.up \in Pointer
      /\ op.again \in Pointer /\ op.stack \in Seq(Key) /\ op.list \in Seq(Key)
  BY <1>0 DEF Op
<1>r. Rest \in Op /\ Rest.pc = "idle"  BY RestType DEF Rest
<1>w. op.pc \in {"search", "insert"} => /\ op.at \in Key /\ op.key \in Key
                                        /\ Direction(op.key, op.at) \in Side /\ Way \in Pointer
  <2>1. SUFFICES ASSUME op.at \in Key, op.key \in Key PROVE Direction(op.key, op.at) \in Side /\ Way \in Pointer
    BY DEF Cursors
  <2>2. Direction(op.key, op.at) \in Side  BY <2>1, DirectionFacts
  <2> QED BY <1>t, <2>1, <2>2 DEF Way
<1>g. \A pc \in {"found", "absent", "balance", "listed"} : Goto(pc) \in Op /\ Goto(pc).pc = pc /\ Goto(pc).key = op.key
  BY <1>0 DEF Goto, Op
<1>1. ASSUME NEW k \in Key, NEW task \in {"get", "save"}, GetBin(task, k) PROVE AllTyped /\ Cursors'
  <2>1. op' \in Op /\ op'.key = k /\ op'.at = tree.root
        /\ op'.pc = IF tree.root = Null THEN "absent" ELSE "search"
    BY <1>1, <1>t, <1>n, <1>r DEF GetBin, Op
  <2> QED BY <1>0, <1>1, <1>t, <1>n, <2>1 DEF GetBin, Cursors
<1>2. ASSUME NEW task \in {"list", "clear"}, Walk(task) PROVE AllTyped /\ Cursors'
  <2>1. op' \in Op /\ op'.pc = "walk"  BY <1>2, <1>t, <1>r DEF Walk, Op
  <2> QED BY <1>0, <1>2, <2>1 DEF Walk, Cursors
<1>3. CASE Search
  <2>0. op.pc = "search"  BY <1>3 DEF Search, Steps
  <2>1. CASE op' = Goto("found") \/ op' = Goto("absent")
    BY <1>0, <1>3, <1>g, <1>w, <2>0, <2>1 DEF Search, Cursors
  <2>2. CASE op' = [op EXCEPT !.at = Way] /\ Way # Null
    <3>1. op' \in Op /\ op'.pc = op.pc /\ op'.key = op.key /\ op'.at = Way
      BY <1>0, <1>w, <2>0, <2>2 DEF Op
    <3> QED BY <1>0, <1>3, <1>n, <1>w, <2>0, <2>2, <3>1 DEF Search, Cursors
  <2> QED BY <1>3, <2>1, <2>2 DEF Search
<1>4. CASE Create
  <2>0. op.pc = "absent" /\ op.key \in Key  BY <1>4 DEF Create, IsNew, Steps, Cursors
  <2>1. Created(tree, op.key) \in Tree  BY <1>0, <2>0, CreatedType
  <2>2. CASE tree.root = Null
    <3>1. tree' = [Created(tree, op.key) EXCEPT !.root = op.key] /\ op' = Rest
          /\ saved' = saved \cup {op.key} /\ moved' = moved
      BY <1>4, <2>2 DEF Create
    <3>2. tree' \in Tree  BY <1>n, <2>0, <2>1, <3>1 DEF Tree
    <3> QED BY <1>0, <1>r, <2>0, <3>1, <3>2 DEF Cursors
  <2>3. CASE tree.root # Null
    <3>1. tree' = Created(tree, op.key) /\ op' = [op EXCEPT !.pc = "insert", !.at = tree.root]
          /\ saved' = saved /\ moved' = moved
      BY <1>4, <2>3 DEF Create
    <3>2. op' \in Op /\ op'.pc = "insert" /\ op'.key = op.key /\ op'.at = tree.root
      BY <1>0, <1>t, <3>1 DEF Op
    <3> QED BY <1>0, <1>n, <1>t, <2>0, <2>1, <2>3, <3>1, <3>2 DEF Cursors
  <2> QED BY <2>2, <2>3
<1>5. CASE Descend
  <2>0. op.pc = "insert" /\ op' = [op EXCEPT !.at = Way] /\ Way # Null  BY <1>5 DEF Descend, Steps
  <2>1. op' \in Op /\ op'.pc = op.pc /\ op'.key = op.key /\ op'.at = Way
    BY <1>0, <1>w, <2>0 DEF Op
  <2> QED BY <1>0, <1>5, <1>n, <1>w, <2>0, <2>1 DEF Descend, Cursors
<1>6. CASE Hang
  <2>0. op.pc = "insert" /\ op' = [op EXCEPT !.pc = "depths", !.below = op.key, !.up = op.at]
    BY <1>6 DEF Hang, Steps
  <2>1. op' \in Op /\ op'.pc = "depths"  BY <1>0, <1>o, <2>0 DEF Op
  <2>2. tree' \in Tree
    <3>1. tree' = [tree EXCEPT !.child[Direction(op.key, op.at)][op.at] = op.key, !.parent[op.key] = op.at]
      BY <1>6 DEF Hang
    <3> QED BY <1>0, <1>n, <1>w, <2>0, <3>1 DEF Tree
  <2> QED BY <1>0, <1>6, <1>w, <2>0, <2>1, <2>2 DEF Hang, Cursors
<1>7. CASE UpdateDepth
  <2>0. op.pc = "depths" /\ op.up \in Key /\ op' = [op EXCEPT !.up = tree.parent[op.up]]
    BY <1>7, <1>n, <1>o DEF UpdateDepth, Steps
  <2>1. op' \in Op /\ op'.pc = "depths"  BY <1>0, <1>t, <2>0 DEF Op
  <2>2. tree' \in Tree
    <3>1. \A x \in Pointer : Depth(tree, x) \in Nat  BY <1>0, <1>n DEF Depth, Tree
    <3>2. Depth(tree, tree.child[Left][op.up]) \in Nat /\ Depth(tree, tree.child[Right][op.up]) \in Nat
      BY <1>t, <2>0, <3>1, SideFacts
    <3>3. NewDepth(tree, op.up) \in Nat \ {0}
      <4> DEFINE l == Depth(tree, tree.child[Left][op.up])
                 r == Depth(tree, tree.child[Right][op.up])
      <4>1. NewDepth(tree, op.up) = 1 \/ NewDepth(tree, op.up) = 1 + Deeper(l, r)
        BY DEF NewDepth
      <4>2. Deeper(l, r) \in Nat  BY <3>2 DEF Deeper
      <4> HIDE DEF l, r
      <4> QED BY <4>1, <4>2
    <3>4. tree' = [tree EXCEPT !.depth[op.up] = NewDepth(tree, op.up)]  BY <1>7 DEF UpdateDepth
    <3> QED BY <1>0, <2>0, <3>3, <3>4 DEF Tree
  <2> QED BY <1>0, <1>7, <2>1, <2>2 DEF UpdateDepth, Cursors
<1>8. CASE DepthsUpdated
  <2>0. op.pc = "depths" /\ op' = IF op.again = Null THEN Goto("balance")
                                  ELSE [op EXCEPT !.up = op.again, !.again = Null]
    BY <1>8 DEF DepthsUpdated, Steps
  <2>1. op' \in Op /\ op'.pc \in {"depths", "balance"}
    BY <1>0, <1>g, <1>n, <1>o, <2>0 DEF Op
  <2> QED BY <1>0, <1>8, <2>1 DEF DepthsUpdated, Cursors
<1>9. CASE StepUp
  <2>0. /\ op.pc = "balance" /\ op.at \in Key /\ op.below \in Key
        /\ op' = [op EXCEPT !.at = tree.parent[op.at],
                    !.below = IF tree.depth[op.at] - tree.depth[op.below] >= 2
                              THEN tree.parent[op.below] ELSE op.below]
        /\ tree' = IF tree.parent[op.at] = Null THEN [tree EXCEPT !.root = op.at] ELSE tree
        /\ saved' = saved /\ moved' = moved
    BY <1>9, <1>n, <1>o DEF StepUp, Steps
  <2>1. op' \in Op /\ op'.pc = "balance"
    <3>1. tree.parent[op.at] \in Pointer /\ tree.parent[op.below] \in Pointer  BY <1>t, <2>0
    <3> QED BY <1>0, <1>n, <2>0, <3>1 DEF Op
  <2>2. tree' \in Tree  BY <1>0, <1>n, <2>0 DEF Tree
  <2> QED BY <1>0, <2>0, <2>1, <2>2 DEF Cursors
<1>10. CASE Rotate
  <2> DEFINE x == op.at  c == op.below  side == HeavySide(tree, op.at)
  <2>0. op.pc = "balance" /\ x \in Key /\ c \in Key /\ tree.parent[c] \in Key /\ side \in Side
    <3>1. x \in Key /\ c \in Key  BY <1>10, <1>n, <1>o DEF Rotate
    <3> QED BY <1>10, <1>n, <1>t, <3>1, SideFacts DEF Rotate, Steps, HeavySide
  <2>1. CASE IsSingle(tree, x, c)
    <3>1. tree' = Single(tree, x, c, side) /\ moved' = moved /\ saved' = saved
          /\ op' = [op EXCEPT !.pc = "depths", !.up = x, !.again = c]
      BY <1>10, <2>1 DEF Rotate
    <3> HIDE DEF side
    <3>2. tree' \in Tree  BY <1>0, <2>0, <3>1, SingleType
    <3>3. op' \in Op /\ op'.pc = "depths"  BY <1>0, <1>n, <2>0, <3>1 DEF Op
    <3> QED BY <1>0, <3>1, <3>2, <3>3 DEF Cursors
  <2>2. CASE ~ IsSingle(tree, x, c)
    <3>1. tree' = Double(tree, x, c, side) /\ moved' = (moved \/ tree.child[side][c] # Null) /\ saved' = saved
          /\ op' = [op EXCEPT !.pc = "depths", !.up = x, !.again = tree.parent[c]]
      BY <1>10, <2>2 DEF Rotate
    <3> HIDE DEF side
    <3>2. tree' \in Tree  BY <1>0, <2>0, <3>1, DoubleType
    <3>3. op' \in Op /\ op'.pc = "depths"  BY <1>0, <1>n, <2>0, <3>1 DEF Op
    <3> QED BY <1>0, <3>1, <3>2, <3>3 DEF Cursors
  <2> QED BY <2>1, <2>2
<1>11. CASE Balanced  BY <1>0, <1>11, <1>r DEF Balanced, Cursors
<1>12. CASE Push
  <2>0. op.pc = "walk" /\ op.at \in Key
        /\ op' = [op EXCEPT !.stack = <<op.at>> \o @, !.at = tree.child[Left][op.at]]
    BY <1>12, <1>n, <1>o DEF Push, Steps
  <2>1. op' \in Op /\ op'.pc = "walk"
    <3>1. <<op.at>> \o op.stack \in Seq(Key)  BY <1>o, <2>0
    <3>2. tree.child[Left][op.at] \in Pointer  BY <1>t, <2>0, SideFacts
    <3> QED BY <1>0, <2>0, <3>1, <3>2 DEF Op
  <2> QED BY <1>0, <1>12, <2>1 DEF Push, Cursors
<1>13. CASE Visit
  <2>0. op.pc = "walk" /\ op.stack # <<>>
        /\ op' = [op EXCEPT !.stack = Tail(@), !.list = Append(@, Head(op.stack)),
                            !.at = tree.child[Right][Head(op.stack)]]
    BY <1>13 DEF Visit, Steps
  <2>1. op' \in Op /\ op'.pc = "walk"
    <3>1. Head(op.stack) \in Key /\ Tail(op.stack) \in Seq(Key)  BY <1>o, <2>0
    <3>2. Append(op.list, Head(op.stack)) \in Seq(Key)  BY <1>o, <3>1
    <3>3. tree.child[Right][Head(op.stack)] \in Pointer  BY <1>t, <3>1, SideFacts
    <3> QED BY <1>0, <2>0, <3>1, <3>2, <3>3 DEF Op
  <2> QED BY <1>0, <1>13, <2>1 DEF Visit, Cursors
<1>14. CASE Walked  BY <1>0, <1>14, <1>g DEF Walked, Cursors
<1>15. CASE Return
  <2>1. (tree' = EmptyTree /\ saved' = {} /\ moved' = FALSE) \/ UNCHANGED <<tree, saved, moved>>
    BY <1>15 DEF Return
  <2>2. op' = Rest  BY <1>15 DEF Return
  <2> QED BY <1>0, <1>r, <2>1, <2>2, EmptyTreeType DEF Cursors
<1>16. CASE UNCHANGED acdb_vars  BY <1>0, <1>16 DEF acdb_vars, Cursors
<1> QED BY <1>1, <1>2, <1>3, <1>4, <1>5, <1>6, <1>7, <1>8, <1>9, <1>10, <1>11, <1>12,
           <1>13, <1>14, <1>15, <1>16 DEF AcdbNext

-----------------------------------------------------------------------------
(* Look-ups (acdb_heap_get_bin, and the descent of acdb_heap_insert). *)

\* At the root a search has all of the tree before it.
LEMMA SearchFromRoot ==
  ASSUME NEW under, SearchTree(tree, saved, under), tree.root \in saved, saved \subseteq Key,
         tree.parent[tree.root] = Null
  PROVE  /\ under[tree.root] = saved
         /\ \A x \in saved : tree.root \in under[x] => x = tree.root
BY DEF SearchTree, Upward

LEMMA GetBinStep ==
  ASSUME AcdbTypeOK, NEW under, NEW h, NEW old, HeapInv(under, h, old),
         NEW task \in {"get", "save"}, NEW k \in Key, GetBin(task, k)
  PROVE  HeapInv(under, h, old)'
<1>1. /\ op.pc = "idle" /\ tree' = tree /\ saved' = saved
      /\ op'.pc = (IF tree.root = Null THEN "absent" ELSE "search")
      /\ op'.key = k /\ op'.at = tree.root
  BY DEF GetBin, Steps, Rest
<1>2. /\ SearchTree(tree, saved, under) /\ Heights(tree, saved, h)
      /\ Rooted /\ Level(tree, saved, h)
      /\ \A x \in saved : tree.depth[x] = h[x]
  BY <1>1 DEF HeapInv, Changing
<1>3. Rooted' /\ saved \subseteq Key /\ Null \notin Key
  BY <1>1, <1>2, NullIsNoKey DEF Rooted, AcdbTypeOK
<1>4. CASE tree.root = Null
  <2>1. saved = {} /\ op'.pc = "absent"  BY <1>1, <1>2, <1>3, <1>4 DEF Rooted
  <2> QED BY <1>1, <1>2, <1>3, <2>1 DEF HeapInv, Changing
<1>5. CASE tree.root # Null
  <2>1. tree.root \in saved /\ tree.parent[tree.root] = Null /\ op'.pc = "search"
    BY <1>1, <1>2, <1>5 DEF Rooted
  <2>2. OnTheWay(under)'
    BY <1>1, <1>2, <1>3, <2>1, SearchFromRoot DEF OnTheWay
  <2> QED BY <1>1, <1>2, <1>3, <2>1, <2>2 DEF HeapInv, Changing
<1> QED BY <1>4, <1>5

\* One step down towards the key.
DownTheWay(under, c) ==
  /\ c \in saved /\ (op.key \in saved => op.key \in under[c])
  /\ \A x \in saved : c \in under[x] /\ x # c =>
       op.key # x /\ Direction(op.key, x) = Direction(c, x)

LEMMA WayDown ==
  ASSUME AcdbTypeOK, NEW under, SearchTree(tree, saved, under), OnTheWay(under),
         op.at # op.key
  PROVE  /\ Way = Null => op.key \notin saved
         /\ Way # Null => DownTheWay(under, Way)
<1> DEFINE a == op.at
           k == op.key
           s == Direction(k, a)
           c == tree.child[s][a]
<1>1. /\ a \in saved /\ k \in Key /\ (k \in saved => k \in under[a])
      /\ \A x \in saved : a \in under[x] /\ x # a => k # x /\ Direction(k, x) = Direction(a, x)
  BY DEF OnTheWay
<1>2. tree \in Tree /\ saved \subseteq Key /\ s \in Side /\ c = Way /\ a # k
  BY <1>1, DirectionFacts DEF AcdbTypeOK, Way
<1>3. ChildOf(tree, saved, under, a, s)  BY <1>1, <1>2, ChildFacts
<1> HIDE DEF a, k, s
<1>4. CASE c = Null
  BY <1>1, <1>2, <1>3, <1>4 DEF ChildOf, s, k
<1>5. CASE c # Null
  <2>1. /\ c \in saved /\ tree.parent[c] = a /\ c # a /\ Direction(c, a) = s
        /\ \A y \in Key : y \in under[c] <=> y \in under[a] /\ y # a /\ Direction(y, a) = s
        /\ c \in under[a]
    BY <1>3, <1>5 DEF ChildOf
  <2>2. k \in saved => k \in under[c]  BY <1>1, <1>2, <2>1 DEF s
  <2>3. ASSUME NEW x \in saved, c \in under[x], x # c
        PROVE  k # x /\ Direction(k, x) = Direction(c, x)
    <3>1. a \in under[x]  BY <2>1, <2>3 DEF SearchTree, Upward
    <3>2. CASE x = a  BY <1>2, <2>1, <3>2 DEF s
    <3>3. CASE x # a
      <4> DEFINE r == Direction(a, x)
                 l == tree.child[r][x]
      <4>1. r \in Side /\ a \in Key  BY <1>1, <1>2, DirectionFacts
      <4>2. ChildOf(tree, saved, under, x, r)  BY <1>2, <4>1, ChildFacts
      <4>3. l # Null  BY <3>1, <3>3, <4>1, <4>2 DEF ChildOf
      <4>4. /\ l \in saved /\ tree.parent[l] = x
            /\ \A y \in Key : y \in under[l] <=> y \in under[x] /\ y # x /\ Direction(y, x) = r
        BY <4>2, <4>3 DEF ChildOf
      <4> HIDE DEF l, r
      <4>5. a \in under[l]  BY <3>1, <3>3, <4>1, <4>4 DEF r
      <4>6. c # l  BY <2>1, <3>3, <4>4
      <4>7. a # Null  BY <1>1, <1>2, NullIsNoKey
      <4>8. c \in under[l]  BY <2>1, <4>4, <4>5, <4>6, <4>7 DEF SearchTree, Upward
      <4>9. Direction(c, x) = r  BY <1>2, <2>1, <4>4, <4>8
      <4> QED BY <1>1, <3>1, <3>3, <4>9 DEF r
    <3> QED BY <3>2, <3>3
  <2> QED BY <1>2, <1>5, <2>1, <2>2, <2>3 DEF DownTheWay, k
<1> QED BY <1>2, <1>4, <1>5 DEF k

LEMMA SearchStep ==
  ASSUME AcdbTypeOK, NEW under, NEW h, NEW old, HeapInv(under, h, old), Search
  PROVE  HeapInv(under, h, old)'
<1>1. op \in Op /\ op.pc = "search" /\ tree' = tree /\ saved' = saved
  BY DEF Search, Steps, AcdbTypeOK, Op
<1>2. /\ SearchTree(tree, saved, under) /\ Heights(tree, saved, h)
      /\ Rooted /\ Level(tree, saved, h)
      /\ \A x \in saved : tree.depth[x] = h[x]
      /\ OnTheWay(under)
  BY <1>1 DEF HeapInv, Changing
<1>3. Rooted'  BY <1>1, <1>2 DEF Rooted
<1>4. CASE op.at = op.key /\ op' = Goto("found")
  <2>1. op'.pc = "found" /\ op'.key = op.key  BY <1>1, <1>4 DEF Goto, Op
  <2>2. op.key \in saved  BY <1>2, <1>4 DEF OnTheWay
  <2> QED BY <1>1, <1>2, <1>3, <2>1, <2>2 DEF HeapInv, Changing
<1>5. CASE op.at # op.key /\ Way = Null /\ op' = Goto("absent")
  <2>1. op'.pc = "absent" /\ op'.key = op.key  BY <1>1, <1>5 DEF Goto, Op
  <2>2. op.key \in Key \ saved  BY <1>2, <1>5, WayDown DEF OnTheWay
  <2> QED BY <1>1, <1>2, <1>3, <2>1, <2>2 DEF HeapInv, Changing
<1>6. CASE op.at # op.key /\ Way # Null /\ op' = [op EXCEPT !.at = Way]
  <2>1. op'.pc = "search" /\ op'.key = op.key /\ op'.at = Way  BY <1>1, <1>6 DEF Op
  <2>2. DownTheWay(under, Way)  BY <1>2, <1>6, WayDown
  <2>3. OnTheWay(under)'  BY <1>1, <1>2, <2>1, <2>2 DEF OnTheWay, DownTheWay
  <2> QED BY <1>1, <1>2, <1>3, <2>1, <2>3 DEF HeapInv, Changing
<1> QED BY <1>4, <1>5, <1>6 DEF Search

LEMMA DescendStep ==
  ASSUME AcdbTypeOK, NEW under, NEW h, NEW old, HeapInv(under, h, old), Descend
  PROVE  HeapInv(under, h, old)'
<1>1. /\ op \in Op /\ op.pc = "insert" /\ tree' = tree /\ saved' = saved
      /\ Way # Null /\ op' = [op EXCEPT !.at = Way]
  BY DEF Descend, Steps, AcdbTypeOK, Op
<1>2. /\ SearchTree(tree, saved, under) /\ Heights(tree, saved, h)
      /\ Rooted /\ Level(tree, saved, h)
      /\ \A x \in saved : tree.depth[x] = h[x]
      /\ OnTheWay(under) /\ op.key \notin saved /\ Fresh(tree, op.key)
  BY <1>1 DEF HeapInv, Changing
<1>3. Rooted'  BY <1>1, <1>2 DEF Rooted
<1>4. op.at # op.key  BY <1>2 DEF OnTheWay
<1>5. op'.pc = "insert" /\ op'.key = op.key /\ op'.at = Way  BY <1>1 DEF Op
<1>6. DownTheWay(under, Way)  BY <1>1, <1>2, <1>4, WayDown
<1>7. OnTheWay(under)'  BY <1>1, <1>2, <1>5, <1>6 DEF OnTheWay, DownTheWay
<1> QED BY <1>1, <1>2, <1>3, <1>5, <1>7 DEF HeapInv, Changing

-----------------------------------------------------------------------------
(* Insertion (acdb_heap_insert). *)

\* Trees that have the same links between the nodes in S.
SameLinks(t, t2, S) ==
  \A x \in S : t2.parent[x] = t.parent[x] /\ \A s \in Side : t2.child[s][x] = t.child[s][x]

LEMMA SameTree ==
  ASSUME NEW t, NEW t2, NEW S, SameLinks(t, t2, S), NEW under, SearchTree(t, S, under)
  PROVE  SearchTree(t2, S, under)
<1>1. \A x \in S : t2.parent[x] = t.parent[x] /\ \A s \in Side : t2.child[s][x] = t.child[s][x]
  BY DEF SameLinks
<1>2. Nested(S, under)  BY DEF SearchTree
<1>3. Downward(t2, S, under)
  <2> SUFFICES ASSUME NEW x \in S, NEW s \in Side
               PROVE  LET c == t2.child[s][x] IN
                      /\ c # Null => c \in S /\ t2.parent[c] = x
                      /\ Part(under, c) = {y \in under[x] \ {x} : Direction(y, x) = s}
    BY DEF Downward
  <2>1. LET c == t.child[s][x] IN
        /\ c # Null => c \in S /\ t.parent[c] = x
        /\ Part(under, c) = {y \in under[x] \ {x} : Direction(y, x) = s}
    BY DEF SearchTree, Downward
  <2>2. t2.child[s][x] = t.child[s][x]  BY <1>1
  <2>3. t.child[s][x] # Null => t2.parent[t.child[s][x]] = x  BY <1>1, <2>1
  <2> QED BY <2>1, <2>2, <2>3
<1>4. Upward(t2, S, under)
  <2>1. \A x \in S : LET p == t2.parent[x] IN
          IF p = Null THEN under[x] = S ELSE p \in S /\ t2.child[Direction(x, p)][p] = x
    <3> SUFFICES ASSUME NEW x \in S
                 PROVE  LET p == t.parent[x] IN
                        IF p = Null THEN under[x] = S ELSE p \in S /\ t2.child[Direction(x, p)][p] = x
      BY <1>1
    <3>1. LET p == t.parent[x] IN
          IF p = Null THEN under[x] = S ELSE p \in S /\ t.child[Direction(x, p)][p] = x
      BY DEF SearchTree, Upward
    <3>2. \A p \in S : Direction(x, p) \in Side  BY DEF Direction, Side
    <3> QED BY <1>1, <3>1, <3>2
  <2>2. \A x, y \in S : x # y =>
          (y \in under[x] <=> t.parent[y] # Null /\ t.parent[y] \in under[x])
    BY DEF SearchTree, Upward
  <2> QED BY <1>1, <2>1, <2>2 DEF Upward
<1> QED BY <1>2, <1>3, <1>4 DEF SearchTree

LEMMA SameAsHigh ==
  ASSUME NEW t, NEW t2, NEW S, SameLinks(t, t2, S), NEW h
  PROVE  \A x \in S : /\ HeightAt(t, h, x) <=> HeightAt(t2, h, x)
                      /\ LevelAt(t, h, x) <=> LevelAt(t2, h, x)
BY SideFacts DEF SameLinks, HeightAt, LevelAt

\* A tree of one node.
LEMMA OneNode ==
  ASSUME NEW t \in Tree, NEW k \in Key, Fresh(t, k),
         NEW under \in [Key -> SUBSET Key], NEW h \in [Key -> Nat]
  PROVE  LET S == {k}  V == [under EXCEPT ![k] = {k}]  g == [h EXCEPT ![k] = 1] IN
         /\ SearchTree(t, S, V) /\ Heights(t, S, g) /\ Level(t, S, g)
         /\ t.depth[k] = g[k] /\ t.parent[k] = Null
<1> DEFINE S == {k}  V == [under EXCEPT ![k] = {k}]  g == [h EXCEPT ![k] = 1]
<1>1. /\ \A side \in Side : t.child[side][k] = Null
      /\ t.parent[k] = Null /\ t.depth[k] = 1
  BY DEF Fresh
<1>2. V[k] = {k} /\ V \in [Key -> SUBSET Key] /\ g[k] = 1 /\ g \in [Key -> Nat]
  OBVIOUS
<1> HIDE DEF V, g
<1>3. Nested(S, V)  BY <1>2 DEF Nested
<1>4. Downward(t, S, V)  BY <1>1, <1>2 DEF Downward, Part
<1>5. Upward(t, S, V)  BY <1>1, <1>2 DEF Upward
<1>6. HeightAt(t, g, k) /\ LevelAt(t, g, k)
  <2>1. High(g, t.child[Left][k]) = 0 /\ High(g, t.child[Right][k]) = 0
    BY <1>1, SideFacts DEF High
  <2> QED BY <1>2, <2>1 DEF HeightAt, LevelAt, Deeper
<1>7. SearchTree(t, S, V)  BY <1>3, <1>4, <1>5 DEF SearchTree
<1> QED BY <1>1, <1>2, <1>6, <1>7 DEF Heights, Level, V, g

LEMMA CreateStep ==
  ASSUME AcdbTypeOK, NEW under, NEW h, NEW old, HeapInv(under, h, old), Create
  PROVE  \E V, g, o : HeapInv(V, g, o)'
<1> DEFINE k == op.key
           t == Created(tree, k)
<1>1. op \in Op /\ op.pc = "absent"  BY DEF Create, IsNew, Steps, AcdbTypeOK, Op
<1>2. /\ SearchTree(tree, saved, under) /\ Heights(tree, saved, h)
      /\ Rooted /\ Level(tree, saved, h)
      /\ \A x \in saved : tree.depth[x] = h[x]
      /\ k \in Key \ saved /\ tree \in Tree /\ saved \subseteq Key
  BY <1>1 DEF HeapInv, Changing, AcdbTypeOK
<1>3. /\ t \in Tree /\ t.root = tree.root
      /\ \A s \in Side, x \in Key : t.child[s][x] = IF x = k THEN Null ELSE tree.child[s][x]
      /\ \A x \in Key : t.parent[x] = IF x = k THEN Null ELSE tree.parent[x]
      /\ \A x \in Key : t.depth[x] = IF x = k THEN 1 ELSE tree.depth[x]
  BY <1>2, CreatedType
<1>4. Fresh(t, k)  BY <1>2, <1>3 DEF Fresh
<1>5. under \in [Key -> SUBSET Key] /\ h \in [Key -> Nat]  BY <1>2 DEF SearchTree, Nested, Heights
<1>6. CASE tree.root = Null
  <2>1. saved = {} /\ tree' = [t EXCEPT !.root = k] /\ saved' = {k} /\ op' = Rest
    <3>1. saved = {}  BY <1>2, <1>6, NullIsNoKey DEF Rooted
    <3>2. tree' = [t EXCEPT !.root = k] /\ saved' = saved \cup {k} /\ op' = Rest
      BY <1>6 DEF Create
    <3> QED BY <3>1, <3>2
  <2>2. tree' \in Tree /\ Fresh(tree', k) /\ tree'.root = k
    BY <1>2, <1>3, <1>4, <2>1 DEF Tree, Fresh, Pointer
  <2>0. PICK V, g : V = [under EXCEPT ![k] = {k}] /\ g = [h EXCEPT ![k] = 1]  OBVIOUS
  <2>3. /\ SearchTree(tree', {k}, V) /\ Heights(tree', {k}, g) /\ Level(tree', {k}, g)
        /\ tree'.depth[k] = g[k] /\ tree'.parent[k] = Null
    BY <1>2, <1>5, <2>0, <2>2, OneNode
  <2> HIDE DEF k, t
  <2>4. Rooted' /\ op'.pc = "idle"
    <3>1. tree'.root \in saved' /\ tree'.parent[tree'.root] = Null  BY <2>1, <2>2, <2>3
    <3> QED BY <2>1, <3>1 DEF Rooted, Rest
  <2>5. \A x \in saved' : tree'.depth[x] = g[x]  BY <2>1, <2>3
  <2>6. SearchTree(tree', saved', V) /\ Heights(tree', saved', g) /\ Level(tree', saved', g)
    BY <2>1, <2>3
  <2>7. HeapInv(V, g, old)'
    BY <2>4, <2>5, <2>6 DEF HeapInv, Changing
  <2> QED BY <2>7
<1>7. CASE tree.root # Null
  <2>1. tree' = t /\ op' = [op EXCEPT !.pc = "insert", !.at = tree.root] /\ saved' = saved
    BY <1>7 DEF Create
  <2>2. op'.pc = "insert" /\ op'.at = tree.root /\ op'.key = k  BY <1>1, <2>1 DEF Op
  <2> HIDE DEF t, k
  <2>3. SameLinks(tree, t, saved)  BY <1>2, <1>3 DEF SameLinks
  <2>4. SearchTree(t, saved, under)  BY <1>2, <2>3, SameTree
  <2>5. Heights(t, saved, h) /\ Level(t, saved, h)
    BY <1>2, <2>3, SameAsHigh DEF Heights, Level
  <2>6. \A x \in saved : t.depth[x] = h[x]  BY <1>2, <1>3
  <2>7. tree.root \in saved /\ t.parent[tree.root] = Null  BY <1>2, <1>3, <1>7 DEF Rooted
  <2>8. Rooted'  BY <1>3, <2>1, <2>7 DEF Rooted
  <2>9. OnTheWay(under)'
    <3>1. /\ under[tree.root] = saved
          /\ \A x \in saved : tree.root \in under[x] => x = tree.root
      <4>1. tree.parent[tree.root] = Null  BY <1>2, <1>7 DEF Rooted
      <4> QED BY <1>2, <2>7, <4>1, SearchFromRoot
    <3> QED BY <1>2, <2>1, <2>2, <2>7, <3>1 DEF OnTheWay
  <2>10. HeapInv(under, h, old)'
    BY <1>2, <1>4, <2>1, <2>2, <2>4, <2>5, <2>6, <2>8, <2>9 DEF HeapInv, Changing
  <2> QED BY <2>10
<1> QED BY <1>6, <1>7

\* The node to start the depths from again is forgotten when they are updated.
NotAgain == op.pc # "depths" => op.again = Null

LEMMA NotAgainStep == AcdbTypeOK /\ NotAgain /\ [AcdbNext]_acdb_vars => NotAgain'
<1> SUFFICES ASSUME AcdbTypeOK, NotAgain, [AcdbNext]_acdb_vars PROVE NotAgain'
  OBVIOUS
<1>0. op \in Op  BY DEF AcdbTypeOK, Op
<1>1. Rest.again = Null  BY DEF Rest
<1>2. ASSUME op.again = Null, op'.again = op.again PROVE NotAgain'
  BY <1>2 DEF NotAgain
<1>3. \A pc \in STRING : Goto(pc).again = op.again  BY <1>0 DEF Goto, Op
<1>4. ASSUME NEW k \in Key, NEW task \in {"get", "save"}, GetBin(task, k) PROVE NotAgain'
  BY <1>4 DEF GetBin, Rest, NotAgain
<1>5. ASSUME NEW task \in {"list", "clear"}, Walk(task) PROVE NotAgain'
  BY <1>5 DEF Walk, Rest, NotAgain
<1>6. CASE Search \/ Descend \/ Push \/ Visit \/ Walked
  BY <1>0, <1>2, <1>6 DEF Search, Descend, Push, Visit, Walked, Goto, Steps, NotAgain, Op
<1>7. CASE Create
  <2>1. op.pc = "absent"  BY <1>7 DEF Create, IsNew, Steps
  <2>2. op' = Rest \/ op' = [op EXCEPT !.pc = "insert", !.at = tree.root]
    BY <1>7 DEF Create
  <2>3. op'.again = Null  BY <1>0, <1>1, <2>1, <2>2 DEF NotAgain, Op
  <2> QED BY <2>3 DEF NotAgain
<1>8. CASE Hang \/ UpdateDepth \/ Rotate
  <2>1. op'.pc = "depths"
    BY <1>0, <1>8 DEF Hang, UpdateDepth, Rotate, Steps, Op
  <2> QED BY <2>1 DEF NotAgain
<1>9. CASE DepthsUpdated
  BY <1>0, <1>9 DEF DepthsUpdated, Goto, NotAgain, Op
<1>10. CASE StepUp  BY <1>0, <1>2, <1>10 DEF StepUp, Steps, NotAgain, Op
<1>11. CASE Balanced \/ Return  BY <1>1, <1>11 DEF Balanced, Return, NotAgain
<1>12. CASE UNCHANGED acdb_vars  BY <1>12 DEF acdb_vars, NotAgain
<1> QED BY <1>4, <1>5, <1>6, <1>7, <1>8, <1>9, <1>10, <1>11, <1>12 DEF AcdbNext

\* t2 is t after the new node k has been hung under a, where its way has ended.
Hung(t, t2, S, under, k, a) ==
  /\ t2 \in Tree /\ k \in Key \ S /\ a \in S /\ Fresh(t, k) /\ t.child[Direction(k, a)][a] = Null
  /\ \A r \in Side, x \in Key :
       t2.child[r][x] = IF x = a /\ r = Direction(k, a) THEN k ELSE t.child[r][x]
  /\ \A x \in Key : t2.parent[x] = IF x = k THEN a ELSE t.parent[x]
  /\ t2.depth = t.depth /\ t2.root = t.root
  /\ \A x \in S : a \in under[x] /\ x # a => Direction(k, x) = Direction(a, x)

HungUnder(S, under, k, a) ==
  [x \in Key |-> IF x = k THEN {k} ELSE IF x \in S /\ a \in under[x] THEN under[x] \cup {k}
                 ELSE under[x]]

LEMMA HungTree ==
  ASSUME NEW t \in Tree, NEW S, S \subseteq Key, NEW under, SearchTree(t, S, under),
         NEW t2, NEW k, NEW a, Hung(t, t2, S, under, k, a)
  PROVE  SearchTree(t2, S \cup {k}, HungUnder(S, under, k, a))
<1> DEFINE V == HungUnder(S, under, k, a)
           s == Direction(k, a)
           S2 == S \cup {k}
<1>1. /\ t2 \in Tree /\ k \in Key \ S /\ a \in S /\ t.child[s][a] = Null
      /\ \A r \in Side, x \in Key : t2.child[r][x] = IF x = a /\ r = s THEN k ELSE t.child[r][x]
      /\ \A x \in Key : t2.parent[x] = IF x = k THEN a ELSE t.parent[x]
      /\ \A x \in S : a \in under[x] /\ x # a => Direction(k, x) = Direction(a, x)
      /\ \A side \in Side : t.child[side][k] = Null
  BY DEF Hung, Fresh
<1>2. /\ under \in [Key -> SUBSET Key]
      /\ \A x \in S : x \in under[x] /\ under[x] \subseteq S
      /\ \A x, y \in S : y \in under[x] /\ y # x => under[y] \subseteq under[x] \ {x}
  BY DEF SearchTree, Nested
<1>3. /\ V \in [Key -> SUBSET Key] /\ V[k] = {k}
      /\ \A x \in S : V[x] = IF a \in under[x] THEN under[x] \cup {k} ELSE under[x]
  BY <1>1, <1>2 DEF HungUnder
<1>4. Null \notin Key /\ s \in Side /\ k # a /\ a \in Key  BY <1>1, NullIsNoKey, DirectionFacts
<1>5. /\ \A x \in S : LET p == t.parent[x] IN
           IF p = Null THEN under[x] = S ELSE p \in S /\ t.child[Direction(x, p)][p] = x
      /\ \A x, y \in S : x # y => (y \in under[x] <=> t.parent[y] # Null /\ t.parent[y] \in under[x])
  BY DEF SearchTree, Upward
<1> HIDE DEF V, s
<1>6. Nested(S2, V)
  <2>1. ASSUME NEW x \in S2 PROVE x \in V[x] /\ V[x] \subseteq S2
    <3>1. CASE x = k  BY <1>3, <3>1
    <3>2. CASE x \in S
      <4>1. x \in under[x] /\ under[x] \subseteq S  BY <1>2, <3>2
      <4>2. V[x] = under[x] \cup {k} \/ V[x] = under[x]  BY <1>3, <3>2
      <4> QED BY <4>1, <4>2
    <3> QED BY <3>1, <3>2
  <2>2. ASSUME NEW x \in S2, NEW y \in S2, y \in V[x], y # x
        PROVE  V[y] \subseteq V[x] \ {x}
    <3>1. x \in S  BY <1>1, <1>3, <2>2
    <3>2. CASE y = k  BY <1>1, <1>3, <2>2, <3>1, <3>2
    <3>3. CASE y \in S
      <4>1. y \in under[x]  BY <1>1, <1>3, <2>2, <3>1, <3>3
      <4>2. under[y] \subseteq under[x] \ {x}  BY <1>2, <2>2, <3>1, <3>3, <4>1
      <4> QED BY <1>1, <1>3, <3>1, <3>3, <4>2
    <3> QED BY <3>2, <3>3
  <2> QED BY <1>3, <2>1, <2>2 DEF Nested
<1>7. ASSUME NEW x \in S2, NEW r \in Side
      PROVE  LET c == t2.child[r][x] IN
             /\ c # Null => c \in S2 /\ t2.parent[c] = x
             /\ Part(V, c) = {y \in V[x] \ {x} : Direction(y, x) = r}
  <2>1. CASE x = k
    <3>1. t2.child[r][x] = Null  BY <1>1, <1>4, <2>1
    <3> QED BY <1>3, <2>1, <3>1 DEF Part
  <2>2. CASE x = a /\ r = s
    <3>1. t2.child[r][x] = k /\ k # Null /\ t2.parent[k] = a  BY <1>1, <1>4, <2>2
    <3>2. ChildOf(t, S, under, a, s)  BY <1>1, <1>4, ChildFacts
    <3>3. \A y \in Key : y \in under[a] /\ y # a => Direction(y, a) # s
      BY <1>1, <3>2 DEF ChildOf
    <3>4. V[a] = under[a] \cup {k}  BY <1>1, <1>2, <1>3
    <3>5. {y \in V[a] \ {a} : Direction(y, a) = s} = {k}
      BY <1>1, <1>2, <1>4, <3>3, <3>4 DEF s
    <3> QED BY <1>3, <2>2, <3>1, <3>5 DEF Part
  <2>3. CASE x \in S /\ ~ (x = a /\ r = s)
    <3> DEFINE c == t.child[r][x]
    <3>1. t2.child[r][x] = c  BY <1>1, <2>3
    <3>2. ChildOf(t, S, under, x, r)  BY <2>3, ChildFacts
    <3>3. a \in under[x] /\ Direction(k, x) = r => x # a /\ Direction(a, x) = r
      BY <1>1, <2>3 DEF s
    <3>4. CASE c = Null
      <4>1. \A y \in Key : y \in under[x] /\ y # x => Direction(y, x) # r
        BY <3>2, <3>4 DEF ChildOf
      <4> HIDE DEF c
      <4>2. \A y \in V[x] : y \in under[x] \/ (y = k /\ a \in under[x])  BY <1>3, <2>3
      <4>3. ASSUME NEW y \in V[x] \ {x} PROVE Direction(y, x) # r
        <5>1. CASE y \in under[x]
          <6>1. y \in Key  BY <1>2, <2>3, <5>1
          <6> QED BY <4>1, <4>3, <5>1, <6>1
        <5>2. CASE y = k /\ a \in under[x]  BY <1>4, <3>3, <4>1, <5>2
        <5> QED BY <4>2, <4>3, <5>1, <5>2
      <4> QED BY <3>1, <3>4, <4>3 DEF Part
    <3>5. CASE c # Null
      <4>1. /\ c \in S /\ t.parent[c] = x
            /\ \A y \in Key : y \in under[c] <=> y \in under[x] /\ y # x /\ Direction(y, x) = r
        BY <3>2, <3>5 DEF ChildOf
      <4> HIDE DEF c
      <4>2. t2.parent[c] = x  BY <1>1, <4>1
      <4>3. a \in under[c] <=> a \in under[x] /\ Direction(k, x) = r
        BY <1>1, <1>4, <2>3, <3>3, <4>1
      <4>4. \A y \in Key : y \in V[c] <=> y \in under[c] \/ (y = k /\ a \in under[c])
        BY <1>1, <1>3, <4>1
      <4>5. \A y \in Key : y \in V[x] <=> y \in under[x] \/ (y = k /\ a \in under[x])
        BY <1>1, <1>3, <2>3
      <4>6. k # x  BY <1>1, <2>3
      <4>7. \A y \in Key : y \in V[c] <=> y \in V[x] /\ y # x /\ Direction(y, x) = r
        BY <4>1, <4>3, <4>4, <4>5, <4>6
      <4>8. V[c] = {y \in V[x] \ {x} : Direction(y, x) = r}
        <5>1. V[c] \subseteq Key /\ V[x] \subseteq Key  BY <1>3, <2>3, <4>1
        <5> QED BY <4>7, <5>1
      <4> QED BY <3>1, <3>5, <4>1, <4>2, <4>8 DEF Part
    <3> QED BY <3>4, <3>5
  <2> QED BY <2>1, <2>2, <2>3
<1>8. Upward(t2, S2, V)
  <2>1. ASSUME NEW x \in S2
        PROVE  LET p == t2.parent[x] IN
               IF p = Null THEN V[x] = S2 ELSE p \in S2 /\ t2.child[Direction(x, p)][p] = x
    <3>1. CASE x = k
      <4>1. t2.parent[x] = a /\ a # Null  BY <1>1, <1>4, <3>1
      <4>2. t2.child[Direction(x, a)][a] = x  BY <1>1, <1>4, <3>1 DEF s
      <4> QED BY <1>1, <4>1, <4>2
    <3>2. CASE x \in S
      <4> DEFINE p == t.parent[x]
      <4>1. t2.parent[x] = p  BY <1>1, <3>2
      <4>2. IF p = Null THEN under[x] = S ELSE p \in S /\ t.child[Direction(x, p)][p] = x
        BY <1>5, <3>2
      <4> HIDE DEF p
      <4>3. CASE p = Null  BY <1>1, <1>3, <3>2, <4>1, <4>2, <4>3
      <4>4. CASE p # Null
        <5>1. Direction(x, p) \in Side /\ x # Null  BY <1>4, <3>2, <4>2, <4>4, DirectionFacts
        <5>2. t2.child[Direction(x, p)][p] = x  BY <1>1, <4>2, <4>4, <5>1
        <5> QED BY <4>1, <4>2, <4>4, <5>2
      <4> QED BY <4>3, <4>4
    <3> QED BY <3>1, <3>2
  <2>2. ASSUME NEW x \in S2, NEW y \in S2, x # y
        PROVE  y \in V[x] <=> t2.parent[y] # Null /\ t2.parent[y] \in V[x]
    <3>1. CASE y = k
      <4>1. x \in S /\ t2.parent[y] = a /\ a # Null /\ k \notin under[x]  BY <1>1, <1>2, <1>4, <2>2, <3>1
      <4> QED BY <1>1, <1>3, <1>4, <3>1, <4>1
    <3>2. CASE y \in S
      <4>1. t2.parent[y] = t.parent[y] /\ t.parent[y] \in S \cup {Null}  BY <1>1, <1>5, <3>2
      <4>2. CASE x = k  BY <1>1, <1>3, <1>4, <2>2, <4>1, <4>2
      <4>3. CASE x \in S
        <5>1. y \in under[x] <=> t.parent[y] # Null /\ t.parent[y] \in under[x]
          BY <1>5, <2>2, <3>2, <4>3
        <5>2. y # k /\ t.parent[y] # k  BY <1>1, <1>4, <3>2, <4>1
        <5> QED BY <1>3, <4>1, <4>3, <5>1, <5>2
      <4> QED BY <4>2, <4>3
    <3> QED BY <3>1, <3>2
  <2> QED BY <2>1, <2>2 DEF Upward
<1>9. Downward(t2, S2, V)  BY <1>7 DEF Downward
<1> QED BY <1>6, <1>8, <1>9 DEF SearchTree, V

\* The nodes above a, and a, that the new one makes higher: no other subtree is higher
\* than the way to it, from there down.
Longer(t, S, under, h, k, a) ==
  {x \in S : /\ a \in under[x]
             /\ \A y \in S : a \in under[y] /\ y \in under[x] =>
                  High(h, t.child[Other(Direction(k, y))][y]) <= High(h, t.child[Direction(k, y)][y])}

HungHeights(t, S, under, h, k, a) ==
  [x \in Key |-> IF x = k THEN 1 ELSE IF x \in Longer(t, S, under, h, k, a) THEN h[x] + 1 ELSE h[x]]

HeightsHung(t2, S, V, h, old, g, k, a) ==
  /\ g \in [Key -> Nat] /\ old \in [Key -> Nat] /\ g[k] = 1 /\ old[k] = 0
  /\ \A x \in S \cup {k} : /\ HeightAt(t2, g, x)
                           /\ g[x] \in {old[x], old[x] + 1}
                           /\ k \notin V[x] => g[x] = old[x]
                           /\ a \notin V[x] => LevelAt(t2, g, x)
  /\ \A x \in S : /\ HeightAt(t2, old, x) /\ LevelAt(t2, old, x)
                  /\ a \notin V[x] => g[x] = h[x]

LEMMA HungLevels ==
  ASSUME NEW t \in Tree, NEW S, S \subseteq Key, NEW under, SearchTree(t, S, under),
         NEW t2, NEW k, NEW a, Hung(t, t2, S, under, k, a),
         NEW h, Heights(t, S, h), Level(t, S, h)
  PROVE  HeightsHung(t2, S, HungUnder(S, under, k, a), h, [h EXCEPT ![k] = 0],
                     HungHeights(t, S, under, h, k, a), k, a)
<1> DEFINE V == HungUnder(S, under, k, a)
           s == Direction(k, a)
           G == Longer(t, S, under, h, k, a)
           g == HungHeights(t, S, under, h, k, a)
           old == [h EXCEPT ![k] = 0]
<1>1. /\ t2 \in Tree /\ k \in Key \ S /\ a \in S /\ t.child[s][a] = Null
      /\ \A r \in Side, x \in Key : t2.child[r][x] = IF x = a /\ r = s THEN k ELSE t.child[r][x]
      /\ \A x \in S : a \in under[x] /\ x # a => Direction(k, x) = Direction(a, x)
      /\ \A side \in Side : t.child[side][k] = Null
  BY DEF Hung, Fresh
<1>2. /\ under \in [Key -> SUBSET Key]
      /\ \A x \in S : x \in under[x] /\ under[x] \subseteq S
      /\ \A x, y \in S : y \in under[x] /\ y # x => under[y] \subseteq under[x] \ {x}
  BY DEF SearchTree, Nested
<1>3. /\ V \in [Key -> SUBSET Key] /\ V[k] = {k}
      /\ \A x \in S : V[x] = IF a \in under[x] THEN under[x] \cup {k} ELSE under[x]
  BY <1>1, <1>2 DEF HungUnder
<1>4. Null \notin Key /\ s \in Side /\ Other(s) \in Side /\ k # a /\ a \in Key /\ k # Null
  BY <1>1, NullIsNoKey, DirectionFacts, SideFacts
<1>5. h \in [Key -> Nat] /\ \A x \in S : HeightAt(t, h, x) /\ LevelAt(t, h, x)
  BY DEF Heights, Level
<1>6. /\ g \in [Key -> Nat] /\ g[k] = 1
      /\ \A x \in S : g[x] = IF x \in G THEN h[x] + 1 ELSE h[x]
  <2>1. g = [x \in Key |-> IF x = k THEN 1 ELSE IF x \in G THEN h[x] + 1 ELSE h[x]]
    BY DEF HungHeights
  <2> HIDE DEF g, G
  <2>2. \A x \in Key : (IF x = k THEN 1 ELSE IF x \in G THEN h[x] + 1 ELSE h[x]) \in Nat
    BY <1>5
  <2> QED BY <1>1, <2>1, <2>2
<1>7. old \in [Key -> Nat] /\ old[k] = 0 /\ \A x \in S : old[x] = h[x]
  BY <1>1, <1>5
<1>8. \A x \in S : x \in G <=>
        /\ a \in under[x]
        /\ \A y \in S : a \in under[y] /\ y \in under[x] =>
             High(h, t.child[Other(Direction(k, y))][y]) <= High(h, t.child[Direction(k, y)][y])
  BY DEF Longer
<1> HIDE DEF V, s, G, g, old
\* Heights without the new node.
<1>9. ASSUME NEW x \in S, NEW r \in Side
      PROVE  High(old, t2.child[r][x]) = High(h, t.child[r][x])
  <2>1. CASE x = a /\ r = s
    BY <1>1, <1>4, <1>7, <2>1 DEF High
  <2>2. CASE ~ (x = a /\ r = s)
    <3>1. t2.child[r][x] = t.child[r][x]  BY <1>1, <2>2
    <3>2. ChildOf(t, S, under, x, r)  BY ChildFacts
    <3>3. t.child[r][x] # Null => t.child[r][x] \in S  BY <3>2 DEF ChildOf
    <3> QED BY <1>7, <3>1, <3>3 DEF High
  <2> QED BY <2>1, <2>2
<1>10. \A x \in S : HeightAt(t2, old, x) /\ LevelAt(t2, old, x)
  <2> SUFFICES ASSUME NEW x \in S PROVE HeightAt(t2, old, x) /\ LevelAt(t2, old, x)
    OBVIOUS
  <2>1. \A r \in Side : High(old, t2.child[r][x]) = High(h, t.child[r][x])  BY <1>9
  <2>2. old[x] = h[x]  BY <1>7
  <2>3. HeightAt(t, h, x) /\ LevelAt(t, h, x)  BY <1>5
  <2> QED BY <2>1, <2>2, <2>3, SameHeights
\* Where the new node is not below.
<1>11. ASSUME NEW x \in S, NEW r \in Side, ~ (x = a /\ r = s),
              t.child[r][x] # Null => a \notin under[t.child[r][x]]
       PROVE  High(g, t2.child[r][x]) = High(h, t.child[r][x])
  <2>1. t2.child[r][x] = t.child[r][x]  BY <1>1, <1>11
  <2>2. ChildOf(t, S, under, x, r)  BY ChildFacts
  <2>3. t.child[r][x] # Null => t.child[r][x] \in S  BY <2>2 DEF ChildOf
  <2>4. t.child[r][x] # Null => t.child[r][x] \notin G  BY <1>8, <1>11, <2>3
  <2> QED BY <1>6, <2>1, <2>3, <2>4 DEF High
<1>12. ASSUME NEW x \in S, a \notin under[x]
       PROVE  /\ HeightAt(t2, g, x) /\ LevelAt(t2, g, x)
              /\ g[x] = h[x]
  <2>1. \A r \in Side : High(g, t2.child[r][x]) = High(h, t.child[r][x])
    <3> SUFFICES ASSUME NEW r \in Side PROVE High(g, t2.child[r][x]) = High(h, t.child[r][x])
      OBVIOUS
    <3>1. x # a  BY <1>1, <1>2, <1>12
    <3>2. ChildOf(t, S, under, x, r)  BY ChildFacts
    <3>3. t.child[r][x] # Null => a \notin under[t.child[r][x]]
      BY <1>4, <1>12, <3>2 DEF ChildOf
    <3> QED BY <1>11, <3>1, <3>3
  <2>2. g[x] = h[x]  BY <1>6, <1>8, <1>12
  <2>3. HeightAt(t, h, x) /\ LevelAt(t, h, x)  BY <1>5
  <2> QED BY <2>1, <2>2, <2>3, SameHeights
\* Above the new node.
<1>13. ASSUME NEW x \in S, a \in under[x]
       PROVE  HeightAt(t2, g, x)
  <2> DEFINE r == Direction(k, x)
             c == t.child[r][x]
             o == t.child[Other(r)][x]
  <2>1. r \in Side /\ Other(r) \in Side /\ Other(r) # r /\ x \in Key  BY <1>1, DirectionFacts, SideFacts
  <2>2. ChildOf(t, S, under, x, r) /\ ChildOf(t, S, under, x, Other(r))  BY <2>1, ChildFacts
  <2>3. x # a => Direction(a, x) = r  BY <1>1, <1>13
  <2>4. x = a => r = s  BY DEF s
  <2>5. o # Null => a \notin under[o]
    BY <1>4, <2>1, <2>2, <2>3 DEF ChildOf
  <2> DEFINE u == High(h, c)  v == High(h, o)
  <2>6. /\ u \in Nat /\ v \in Nat /\ h[x] = 1 + (IF u > v THEN u ELSE v)
    <3>1. HeightAt(t, h, x)  BY <1>5
    <3> QED BY <1>5, <2>1, <3>1, HeightOnSides
  <2> HIDE DEF r
  <2>7. High(g, t2.child[Other(r)][x]) = v  BY <1>11, <2>1, <2>4, <2>5
  <2> HIDE DEF u, v, c, o
  <2>8. /\ High(g, t2.child[r][x]) \in Nat
        /\ HeightAt(t2, g, x) <=> g[x] = 1 + (IF High(g, t2.child[r][x]) > v
                                              THEN High(g, t2.child[r][x]) ELSE v)
    <3> DEFINE w == High(g, t2.child[r][x])
               z == High(g, t2.child[Other(r)][x])
    <3>1. w \in Nat /\ z \in Nat /\ (HeightAt(t2, g, x) <=> g[x] = 1 + (IF w > z THEN w ELSE z))
      BY <1>1, <1>6, <2>1, HeightOnSides
    <3> QED BY <2>7, <3>1
  <2>9. CASE x = a
    <3>1. High(g, t2.child[r][x]) = 1 /\ u = 0
      BY <1>1, <1>4, <1>6, <2>4, <2>9 DEF High, u, c
    <3>2. x \in G <=> v <= u
      <4>1. ASSUME NEW y \in S, a \in under[y], y \in under[x] PROVE y = a
        BY <1>1, <1>2, <2>9, <4>1
      <4> QED BY <1>1, <1>2, <1>8, <2>9, <4>1 DEF u, v, c, o, r
    <3> QED BY <1>6, <2>6, <2>8, <3>1, <3>2
  <2>10. CASE x # a
    <3>1. c # Null  BY <1>4, <1>13, <2>2, <2>3, <2>10 DEF ChildOf, c
    <3>2. /\ c \in S /\ c # x /\ under[c] \subseteq under[x] \ {x}
          /\ \A y \in Key : y \in under[c] <=> y \in under[x] /\ y # x /\ Direction(y, x) = r
      BY <2>2, <3>1 DEF ChildOf, c
    <3>3. a \in under[c]  BY <1>4, <1>13, <2>3, <2>10, <3>2
    <3>4. x \in G <=> c \in G /\ v <= u
      <4>1. ASSUME NEW y \in S, a \in under[y], y \in under[x], y # x PROVE y \in under[c]
        <5>1. under[y] \subseteq under[x] \ {x}  BY <1>2, <4>1
        <5> DEFINE q == Direction(y, x)
                   d == t.child[q][x]
        <5>2. q \in Side /\ y \in Key  BY <2>1, DirectionFacts
        <5>3. ChildOf(t, S, under, x, q)  BY <5>2, ChildFacts
        <5>4. /\ d \in S
              /\ \A z \in Key : z \in under[d] <=> z \in under[x] /\ z # x /\ Direction(z, x) = q
          BY <4>1, <5>2, <5>3 DEF ChildOf
        <5> HIDE DEF d
        <5>5. y \in under[d]  BY <4>1, <5>2, <5>4
        <5>6. a \in under[d]  BY <1>2, <4>1, <5>4, <5>5
        <5>7. q = r  BY <1>4, <2>3, <2>10, <5>4, <5>6
        <5> QED BY <3>2, <4>1, <5>2, <5>7
      <4>2. x \in under[x] /\ \A y \in under[c] : y \in under[x]  BY <1>2, <3>2
      <4>3. c \in G <=> \A y \in S : a \in under[y] /\ y \in under[c] =>
              High(h, t.child[Other(Direction(k, y))][y]) <= High(h, t.child[Direction(k, y)][y])
        BY <1>8, <3>2, <3>3
      <4>4. x \in G <=> \A y \in S : a \in under[y] /\ y \in under[x] =>
              High(h, t.child[Other(Direction(k, y))][y]) <= High(h, t.child[Direction(k, y)][y])
        BY <1>8, <1>13
      <4>5. v = High(h, t.child[Other(Direction(k, x))][x]) /\ u = High(h, t.child[Direction(k, x)][x])
        BY DEF u, v, c, o, r
      <4> QED BY <1>13, <4>1, <4>2, <4>3, <4>4, <4>5
    <3>5. High(g, t2.child[r][x]) = IF c \in G THEN u + 1 ELSE u
      <4>1. t2.child[r][x] = c  BY <1>1, <2>1, <2>10 DEF c
      <4>2. High(g, c) = g[c] /\ High(h, c) = h[c]  BY <3>1 DEF High
      <4> QED BY <1>6, <3>2, <4>1, <4>2 DEF u
    <3> QED BY <1>6, <2>6, <2>8, <3>4, <3>5
  <2> QED BY <2>9, <2>10
<1>14. HeightAt(t2, g, k) /\ LevelAt(t2, g, k)
  <2>1. High(g, t2.child[Left][k]) = 0 /\ High(g, t2.child[Right][k]) = 0
    BY <1>1, <1>4, SideFacts DEF High
  <2> QED BY <1>6, <2>1 DEF HeightAt, LevelAt, Deeper
<1>15. ASSUME NEW x \in S \cup {k}
       PROVE  /\ HeightAt(t2, g, x) /\ g[x] \in {old[x], old[x] + 1}
              /\ k \notin V[x] => g[x] = old[x]
              /\ a \notin V[x] => LevelAt(t2, g, x)
  <2>1. CASE x = k  BY <1>3, <1>6, <1>7, <1>14, <2>1
  <2>2. CASE x \in S /\ a \in under[x]
    <3>1. k \in V[x] /\ a \in V[x]  BY <1>3, <2>2
    <3> QED BY <1>6, <1>7, <1>13, <2>2, <3>1
  <2>3. CASE x \in S /\ a \notin under[x]
    BY <1>6, <1>7, <1>12, <2>3
  <2> QED BY <2>1, <2>2, <2>3
<1>16. \A x \in S : a \notin V[x] => g[x] = h[x]
  BY <1>3, <1>12
<1>17. HeightsHung(t2, S, V, h, old, g, k, a)
  BY <1>6, <1>7, <1>10, <1>15, <1>16 DEF HeightsHung
<1> QED BY <1>17 DEF V, g, old

\* The new node hangs: heights grow above it, and a walk up begins at its parent.
LEMMA HangStep ==
  ASSUME AcdbTypeOK, NotAgain, NEW under, NEW h, NEW old, HeapInv(under, h, old), Hang
  PROVE  \E V, g, o : HeapInv(V, g, o)'
<1>1. /\ op \in Op /\ op.pc = "insert" /\ Way = Null /\ op.again = Null
      /\ tree' = [tree EXCEPT !.child[Direction(op.key, op.at)][op.at] = op.key,
                              !.parent[op.key] = op.at]
      /\ saved' = saved \cup {op.key}
      /\ op' = [op EXCEPT !.pc = "depths", !.below = op.key, !.up = op.at]
  BY DEF Hang, Steps, AcdbTypeOK, NotAgain, Op
<1>2. /\ SearchTree(tree, saved, under) /\ Heights(tree, saved, h)
      /\ Rooted /\ Level(tree, saved, h)
      /\ \A x \in saved : tree.depth[x] = h[x]
      /\ OnTheWay(under) /\ op.key \notin saved /\ Fresh(tree, op.key)
      /\ tree \in Tree /\ saved \subseteq Key
  BY <1>1 DEF HeapInv, Changing, AcdbTypeOK
<1>k. PICK k, a, V, g, o : /\ k = op.key /\ a = op.at
        /\ V = HungUnder(saved, under, k, a) /\ o = [h EXCEPT ![k] = 0]
        /\ g = HungHeights(tree, saved, under, h, k, a)
  OBVIOUS
<1>3. /\ a \in saved /\ k \in Key \ saved
      /\ \A x \in saved : a \in under[x] /\ x # a => Direction(k, x) = Direction(a, x)
  BY <1>2, <1>k DEF OnTheWay
<1>4. k # Null /\ a # Null /\ k # a /\ Direction(k, a) \in Side /\ a \in Key
  BY <1>2, <1>3, NullIsNoKey, DirectionFacts
<1>5. Hung(tree, tree', saved, under, k, a)
  <2>1. tree' = [tree EXCEPT !.child[Direction(k, a)][a] = k, !.parent[k] = a]  BY <1>1, <1>k
  <2>2. tree' \in Tree
    BY <1>2, <1>3, <1>4, <2>1 DEF Tree, Pointer
  <2>3. /\ \A r \in Side, x \in Key :
             tree'.child[r][x] = IF x = a /\ r = Direction(k, a) THEN k ELSE tree.child[r][x]
        /\ \A x \in Key : tree'.parent[x] = IF x = k THEN a ELSE tree.parent[x]
        /\ tree'.depth = tree.depth /\ tree'.root = tree.root
    BY <1>2, <1>3, <1>4, <2>1 DEF Tree
  <2>4. tree.child[Direction(k, a)][a] = Null  BY <1>1, <1>k DEF Way
  <2> QED BY <1>2, <1>3, <1>k, <2>2, <2>3, <2>4 DEF Hung
<1>6. SearchTree(tree', saved', V)
  <2>1. SearchTree(tree', saved \cup {k}, HungUnder(saved, under, k, a))  BY <1>2, <1>5, HungTree
  <2> QED BY <1>1, <1>k, <2>1
<1>7. HeightsHung(tree', saved, V, h, o, g, k, a)
  <2>1. HeightsHung(tree', saved, HungUnder(saved, under, k, a), h, [h EXCEPT ![k] = 0],
                    HungHeights(tree, saved, under, h, k, a), k, a)
    BY <1>2, <1>5, HungLevels
  <2> QED BY <1>k, <2>1
<1>8. /\ op'.pc = "depths" /\ op'.below = k /\ op'.up = a /\ op'.at = a /\ op'.key = k
      /\ op'.again = Null
  BY <1>1, <1>k DEF Op
<1>9. /\ saved' = saved \cup {k}
      /\ \A side \in Side : tree'.child[side][k] = Null
      /\ tree'.parent[k] = a /\ tree'.depth = tree.depth /\ tree'.root = tree.root
      /\ tree.depth[k] = 1
  BY <1>1, <1>2, <1>3, <1>4, <1>5, <1>k DEF Hung, Fresh
<1>10. /\ g \in [Key -> Nat] /\ o \in [Key -> Nat] /\ g[k] = 1 /\ o[k] = 0
       /\ \A x \in saved' : /\ HeightAt(tree', g, x)
                            /\ g[x] \in {o[x], o[x] + 1}
                            /\ k \notin V[x] => g[x] = o[x]
                            /\ a \notin V[x] => LevelAt(tree', g, x)
       /\ \A x \in saved : /\ HeightAt(tree', o, x) /\ LevelAt(tree', o, x)
                           /\ a \notin V[x] => g[x] = h[x]
  BY <1>7, <1>9 DEF HeightsHung
<1>11. k \in V[k] /\ k \in V[a]
  BY <1>2, <1>3, <1>k, <1>4 DEF HungUnder, SearchTree, Nested
<1>12. Growing(V, g, o)'
  BY <1>3, <1>4, <1>8, <1>9, <1>10, <1>11 DEF Growing
<1>13. UpToDate(V, g)'
  BY <1>2, <1>3, <1>4, <1>8, <1>9, <1>10 DEF UpToDate
<1>14. Heights(tree', saved', g)  BY <1>10 DEF Heights
<1>15. tree'.root \in saved'  BY <1>2, <1>3, <1>9 DEF Rooted
<1>16. HeapInv(V, g, o)'
  BY <1>3, <1>4, <1>6, <1>8, <1>9, <1>12, <1>13, <1>14, <1>15 DEF HeapInv, Changing
<1> QED BY <1>16

-----------------------------------------------------------------------------
(* The depths (acdb_tree_update_depth). *)

\* The stored depth of a child, when it is its height.
LEMMA DepthIsHigh ==
  ASSUME NEW t, NEW h, NEW c, c # Null => t.depth[c] = h[c]
  PROVE  Depth(t, c) = High(h, c)
BY DEF Depth, High

\* A node is given its height when its children have theirs.
LEMMA NewDepthIsHeight ==
  ASSUME NEW t, NEW h, NEW x, HeightAt(t, h, x),
         Depth(t, t.child[Left][x]) = High(h, t.child[Left][x]),
         Depth(t, t.child[Right][x]) = High(h, t.child[Right][x])
  PROVE  NewDepth(t, x) = h[x]
<1>1. CASE IsLeaf(t, x)
  <2>1. t.child[Left][x] = Null /\ t.child[Right][x] = Null  BY <1>1 DEF IsLeaf
  <2>2. High(h, Null) = 0  BY DEF High
  <2>3. h[x] = 1 + Deeper(0, 0)  BY <2>1, <2>2 DEF HeightAt
  <2> QED BY <1>1, <2>3 DEF NewDepth, Deeper
<1>2. CASE ~ IsLeaf(t, x)
  BY <1>2 DEF NewDepth, HeightAt
<1> QED BY <1>1, <1>2

\* The links and the path from the new node are as they were.
KeepsLinks ==
  /\ tree'.child = tree.child /\ tree'.parent = tree.parent /\ saved' = saved
  /\ op'.key = op.key /\ op'.at = op.at /\ op'.below = op.below
  /\ op'.again \in {op.again, Null} /\ op.pc = "depths"

\* Then what the invariant says of them is too.
LEMMA LinksKept ==
  ASSUME KeepsLinks, NEW under, NEW h, NEW old
  PROVE  /\ SearchTree(tree, saved, under) => SearchTree(tree, saved, under)'
         /\ Heights(tree, saved, h) => Heights(tree, saved, h)'
         /\ Growing(under, h, old) => Growing(under, h, old)'
         /\ Settled(under, h) => Settled(under, h)'
<1>1. SameLinks(tree, tree', saved) /\ saved' = saved  BY DEF KeepsLinks, SameLinks
<1>2. \A g : \A x \in saved : /\ HeightAt(tree, g, x) <=> HeightAt(tree', g, x)
                              /\ LevelAt(tree, g, x) <=> LevelAt(tree', g, x)
  BY <1>1, SameAsHigh
<1>3. SearchTree(tree, saved, under) => SearchTree(tree', saved', under)
  BY <1>1, SameTree
<1>4. Heights(tree, saved, h) => Heights(tree', saved', h)  BY <1>1, <1>2 DEF Heights
<1>5. ASSUME Growing(under, h, old) PROVE Growing(under, h, old)'
  BY <1>1, <1>2, <1>5 DEF Growing, KeepsLinks
<1>6. ASSUME Settled(under, h) PROVE Settled(under, h)'
  BY <1>1, <1>2, <1>6 DEF Settled, Level, KeepsLinks
<1> QED BY <1>3, <1>4, <1>5, <1>6

\* A depth becomes the height when the children's are.
LEMMA UpdateDepthStep ==
  ASSUME AcdbTypeOK, NEW under, NEW h, NEW old, HeapInv(under, h, old), UpdateDepth
  PROVE  HeapInv(under, h, old)'
<1> DEFINE u == op.up
           p == tree.parent[u]
<1>1. /\ op \in Op /\ op.pc = "depths" /\ u # Null
      /\ tree' = [tree EXCEPT !.depth[u] = NewDepth(tree, u)]
      /\ op' = [op EXCEPT !.up = p] /\ saved' = saved
  BY DEF UpdateDepth, Steps, AcdbTypeOK, Op
<1>2. /\ SearchTree(tree, saved, under) /\ Heights(tree, saved, h)
      /\ op.key \in saved /\ op.below \in saved /\ (Growing(under, h, old) \/ Settled(under, h))
      /\ tree.root \in saved /\ u \in saved /\ op.again \in saved \cup {Null}
      /\ op.at # Null /\ UpToDate(under, h) /\ tree \in Tree /\ saved \subseteq Key
  BY <1>1 DEF HeapInv, Changing, AcdbTypeOK
<1>3. /\ tree'.child = tree.child /\ tree'.parent = tree.parent /\ tree'.root = tree.root
      /\ \A x \in Key : tree'.depth[x] = IF x = u THEN NewDepth(tree, u) ELSE tree.depth[x]
  BY <1>1, <1>2 DEF Tree
<1>4. /\ op'.pc = "depths" /\ op'.key = op.key /\ op'.at = op.at /\ op'.below = op.below
      /\ op'.again = op.again /\ op'.up = p
  BY <1>1 DEF Op
<1>5. KeepsLinks  BY <1>1, <1>3, <1>4 DEF KeepsLinks
<1>6. /\ SearchTree(tree, saved, under)' /\ Heights(tree, saved, h)'
      /\ Growing(under, h, old)' \/ Settled(under, h)'
  BY <1>2, <1>5, LinksKept
<1>7. p # Null => p \in saved
  BY <1>2 DEF SearchTree, Upward
<1>8. \A x \in saved : /\ op.up = Null \/ op.up \notin under[x]
                       /\ op.again = Null \/ op.again \notin under[x]
                       => tree.depth[x] = h[x]
  BY <1>2 DEF UpToDate
<1>9. ASSUME op.again = Null \/ op.again \notin under[u]
      PROVE  NewDepth(tree, u) = h[u]
  <2>1. ASSUME NEW s \in Side PROVE Depth(tree, tree.child[s][u]) = High(h, tree.child[s][u])
    <3> DEFINE c == tree.child[s][u]
    <3>1. ChildOf(tree, saved, under, u, s)  BY <1>2, ChildFacts
    <3>2. c # Null => c \in saved /\ under[c] \subseteq under[u] \ {u}
      BY <3>1 DEF ChildOf
    <3>3. c # Null => tree.depth[c] = h[c]  BY <1>8, <1>9, <3>2
    <3> QED BY <3>3, DepthIsHigh
  <2>2. HeightAt(tree, h, u)  BY <1>2 DEF Heights
  <2> QED BY <2>1, <2>2, SideFacts, NewDepthIsHeight
<1>10. ASSUME NEW x \in saved, p = Null \/ p \notin under[x],
              op.again = Null \/ op.again \notin under[x]
       PROVE  tree'.depth[x] = h[x]
  <2>1. x # u => (u \in under[x] <=> p # Null /\ p \in under[x])
    BY <1>2 DEF SearchTree, Upward
  <2>2. CASE x = u  BY <1>2, <1>3, <1>9, <1>10, <2>2
  <2>3. CASE x # u
    <3>1. u \notin under[x]  BY <1>10, <2>1, <2>3
    <3> QED BY <1>2, <1>3, <1>8, <1>10, <2>3, <3>1
  <2> QED BY <2>2, <2>3
<1>11. UpToDate(under, h)'
  BY <1>1, <1>4, <1>10 DEF UpToDate
<1> HIDE DEF u, p
<1> QED BY <1>1, <1>2, <1>3, <1>4, <1>6, <1>7, <1>11 DEF HeapInv, Changing

LEMMA DepthsUpdatedStep ==
  ASSUME AcdbTypeOK, NEW under, NEW h, NEW old, HeapInv(under, h, old), DepthsUpdated
  PROVE  HeapInv(under, h, old)'
<1>1. /\ op \in Op /\ op.pc = "depths" /\ op.up = Null /\ tree' = tree /\ saved' = saved
      /\ op' = IF op.again = Null THEN Goto("balance")
               ELSE [op EXCEPT !.up = op.again, !.again = Null]
  BY DEF DepthsUpdated, Steps, AcdbTypeOK, Op
<1>2. /\ SearchTree(tree, saved, under) /\ Heights(tree, saved, h)
      /\ op.key \in saved /\ op.below \in saved /\ (Growing(under, h, old) \/ Settled(under, h))
      /\ tree.root \in saved /\ op.again \in saved \cup {Null}
      /\ op.at # Null /\ UpToDate(under, h)
  BY <1>1 DEF HeapInv, Changing
<1>3. /\ op'.key = op.key /\ op'.at = op.at /\ op'.below = op.below /\ op'.again = Null
      /\ op'.pc = IF op.again = Null THEN "balance" ELSE "depths"
      /\ op'.up = op.again
  BY <1>1 DEF Op, Goto
<1>4. KeepsLinks  BY <1>1, <1>3 DEF KeepsLinks
<1>5. /\ SearchTree(tree, saved, under)' /\ Heights(tree, saved, h)'
      /\ Growing(under, h, old)' \/ Settled(under, h)'
  BY <1>2, <1>4, LinksKept
<1>6. \A x \in saved : op.again = Null \/ op.again \notin under[x] => tree.depth[x] = h[x]
  BY <1>1, <1>2 DEF UpToDate
<1>7. CASE op.again = Null
  BY <1>1, <1>2, <1>3, <1>5, <1>6, <1>7 DEF HeapInv, Changing
<1>8. CASE op.again # Null
  <2>1. UpToDate(under, h)'  BY <1>1, <1>3, <1>6 DEF UpToDate
  <2> QED BY <1>1, <1>2, <1>3, <1>5, <1>8, <2>1 DEF HeapInv, Changing
<1> QED BY <1>7, <1>8

-----------------------------------------------------------------------------
(* The way up (acdb_heap_insert). *)

\* Where depths are heights, acdb_tree_is_balanced tells whether a node is level.
LEMMA BalancedIsLevel ==
  ASSUME NEW t \in Tree, NEW S, S \subseteq Key, NEW under, SearchTree(t, S, under),
         NEW h \in [Key -> Nat], \A x \in S : t.depth[x] = h[x], NEW x \in S
  PROVE  IsBalanced(t, x) <=> LevelAt(t, h, x)
<1> DEFINE l == t.child[Left][x]
           r == t.child[Right][x]
<1>1. \A s \in Side : ChildOf(t, S, under, x, s)  BY ChildFacts
<1>2. l \in S \cup {Null} /\ r \in S \cup {Null}  BY <1>1, SideFacts DEF ChildOf
<1>3. Depth(t, l) = High(h, l) /\ Depth(t, r) = High(h, r)  BY <1>2, DepthIsHigh
<1>4. High(h, l) \in Nat /\ High(h, r) \in Nat
  <2>1. \A c \in S \cup {Null} : High(h, c) \in Nat  BY DEF High
  <2> QED BY <1>2, <2>1
<1> DEFINE u == High(h, l)  v == High(h, r)
<1>5. IsBalanced(t, x) <=> v - u \in -1 .. 1  BY <1>3 DEF IsBalanced, Factor
<1>6. LevelAt(t, h, x) <=> u - v \in -1 .. 1  BY DEF LevelAt
<1>7. u \in Nat /\ v \in Nat  BY <1>4
<1> HIDE DEF l, r, u, v
<1> QED BY <1>5, <1>6, <1>7

\* A node is higher than the one below it.
LEMMA ParentHigher ==
  ASSUME NEW t \in Tree, NEW S, S \subseteq Key, NEW under, SearchTree(t, S, under),
         NEW h, Heights(t, S, h), NEW y \in S, NEW p, p = t.parent[y], p # Null
  PROVE  p \in S /\ h[p] \in Nat /\ h[y] \in Nat /\ h[p] >= h[y] + 1
<1> DEFINE s == Direction(y, p)
<1>1. p \in S /\ t.child[s][p] = y  BY DEF SearchTree, Upward
<1>2. s \in Side /\ y # Null  BY <1>1, DirectionFacts, NullIsNoKey
<1> HIDE DEF s
<1>3. h \in [Key -> Nat] /\ HeightAt(t, h, p)  BY <1>1 DEF Heights
<1> DEFINE u == High(h, t.child[s][p])  v == High(h, t.child[Other(s)][p])
<1>4. u \in Nat /\ v \in Nat /\ h[p] = 1 + (IF u > v THEN u ELSE v)
  BY <1>1, <1>2, <1>3, HeightOnSides
<1>5. u = h[y]  BY <1>1, <1>2 DEF High
<1> HIDE DEF u, v
<1> QED BY <1>1, <1>3, <1>4, <1>5

\* Above the new node there is one that is two high.
LEMMA FirstStep ==
  ASSUME AcdbTypeOK, NEW under, NEW h, NEW old, SearchTree(tree, saved, under),
         Heights(tree, saved, h), Growing(under, h, old), op.key \in saved,
         NEW a \in saved, a = tree.parent[op.key], a # op.key
  PROVE  h[a] = 2 /\ h[op.key] = 1
<1> DEFINE k == op.key
           s == Direction(k, a)
           o == tree.child[Other(s)][a]
<1>1. /\ k \in saved /\ k \in Key /\ a \in Key /\ Null \notin Key /\ tree \in Tree /\ saved \subseteq Key
      /\ h \in [Key -> Nat] /\ old \in [Key -> Nat] /\ old[k] = 0
      /\ \A side \in Side : tree.child[side][k] = Null
      /\ HeightAt(tree, old, a) /\ LevelAt(tree, old, a)
      /\ \A x \in saved : k \notin under[x] => h[x] = old[x]
      /\ HeightAt(tree, h, k) /\ HeightAt(tree, h, a)
  BY NullIsNoKey DEF AcdbTypeOK, Growing, Heights
<1>2. s \in Side /\ Other(s) \in Side /\ Other(s) # s  BY <1>1, DirectionFacts, SideFacts
<1>3. tree.child[s][a] = k  BY <1>1 DEF SearchTree, Upward
<1> HIDE DEF s, k
<1>4. h[k] = 1
  <2>1. High(h, tree.child[Left][k]) = 0 /\ High(h, tree.child[Right][k]) = 0
    BY <1>1, SideFacts DEF High
  <2> QED BY <1>1, <2>1 DEF HeightAt, Deeper
<1>5. High(h, o) = High(old, o)
  <2>1. CASE o = Null  BY <2>1 DEF High
  <2>2. CASE o # Null
    <3>1. ChildOf(tree, saved, under, a, s) /\ ChildOf(tree, saved, under, a, Other(s))
      BY <1>1, <1>2, ChildFacts
    <3>2. Direction(k, a) = s  BY DEF s
    <3>3. o \in saved /\ k \notin under[o]  BY <1>1, <1>2, <2>2, <3>1, <3>2 DEF ChildOf
    <3> QED BY <1>1, <2>2, <3>3 DEF High
  <2> QED BY <2>1, <2>2
<1>6. High(old, k) = 0 /\ High(h, k) = 1  BY <1>1, <1>4 DEF High
<1> DEFINE v == High(old, o)
<1>7. v \in Nat /\ v <= 0 + 1
  BY <1>1, <1>2, <1>3, <1>6, HeightOnSides
<1>8. h[a] = 1 + (IF 1 > v THEN 1 ELSE v)
  BY <1>1, <1>2, <1>3, <1>5, <1>6, HeightOnSides
<1> HIDE DEF v, o
<1> QED BY <1>4, <1>7, <1>8 DEF k

\* One node up: it is level, and the cursor below it stays two links behind.
LEMMA StepUpStep ==
  ASSUME AcdbTypeOK, NEW under, NEW h, NEW old, HeapInv(under, h, old), StepUp
  PROVE  HeapInv(under, h, old)'
<1> DEFINE x == op.at
           c == op.below
           p == tree.parent[x]
           q == tree.parent[c]
<1>1. /\ op \in Op /\ op.pc = "balance" /\ x # Null /\ c # Null /\ IsBalanced(tree, x)
      /\ tree' = IF p = Null THEN [tree EXCEPT !.root = x] ELSE tree
      /\ op' = [op EXCEPT !.at = p, !.below = IF tree.depth[x] - tree.depth[c] >= 2 THEN q ELSE c]
      /\ saved' = saved
  BY DEF StepUp, Steps, AcdbTypeOK, Op
<1>2. /\ SearchTree(tree, saved, under) /\ Heights(tree, saved, h)
      /\ op.key \in saved /\ c \in saved /\ (Growing(under, h, old) \/ Settled(under, h))
      /\ tree.root \in saved /\ tree \in Tree /\ saved \subseteq Key
      /\ \A y \in saved : tree.depth[y] = h[y]
  BY <1>1 DEF HeapInv, Changing, AcdbTypeOK
<1>3. h \in [Key -> Nat] /\ Null \notin Key /\ x \in saved
  BY <1>1, <1>2, NullIsNoKey DEF Heights, Growing, Settled
<1>4. /\ tree'.child = tree.child /\ tree'.parent = tree.parent /\ tree'.depth = tree.depth
      /\ tree'.root = IF p = Null THEN x ELSE tree.root
  BY <1>1, <1>2 DEF Tree
<1>5. /\ op'.pc = "balance" /\ op'.key = op.key /\ op'.at = p /\ op'.again = op.again
      /\ op'.below = IF h[x] - h[c] >= 2 THEN q ELSE c
  BY <1>1, <1>2, <1>3 DEF Op
<1>6. p # Null => p \in saved /\ under[x] \subseteq under[p] /\ x \in under[p]
  <2>1. SUFFICES ASSUME p # Null PROVE p \in saved /\ under[x] \subseteq under[p] /\ x \in under[p]
    OBVIOUS
  <2>2. p \in saved  BY <1>2, <1>3, <2>1 DEF SearchTree, Upward
  <2>3. p # x /\ p \in under[p]
    <3>1. h[p] >= h[x] + 1 /\ h[p] \in Nat /\ h[x] \in Nat  BY <1>2, <1>3, <2>1, ParentHigher
    <3>2. h[p] # h[x]  BY <3>1
    <3> QED BY <1>2, <2>2, <3>2 DEF SearchTree, Nested
  <2>4. x \in under[p]  BY <1>2, <1>3, <2>1, <2>2, <2>3 DEF SearchTree, Upward
  <2> QED BY <1>2, <1>3, <2>2, <2>3, <2>4 DEF SearchTree, Nested
<1>7. \A y \in saved : p = Null \/ p \notin under[y] => y = x \/ x \notin under[y]
  BY <1>2, <1>3 DEF SearchTree, Upward
<1>8. LevelAt(tree, h, x)  BY <1>1, <1>2, <1>3, BalancedIsLevel
<1>9. SearchTree(tree, saved, under)' /\ Heights(tree, saved, h)'
      /\ \A y \in saved : LevelAt(tree', h, y) <=> LevelAt(tree, h, y)
  <2>1. SameLinks(tree, tree', saved)  BY <1>4 DEF SameLinks
  <2>2. SearchTree(tree', saved, under)  BY <1>2, <2>1, SameTree
  <2>3. \A y \in saved : /\ HeightAt(tree, h, y) <=> HeightAt(tree', h, y)
                         /\ LevelAt(tree, h, y) <=> LevelAt(tree', h, y)
    BY <2>1, SameAsHigh
  <2> QED BY <1>1, <1>2, <2>2, <2>3 DEF Heights
<1> HIDE DEF x, c, p, q
<1>10. CASE Growing(under, h, old)
  <2>1. /\ old \in [Key -> Nat] /\ old[op.key] = 0
        /\ \A side \in Side : tree.child[side][op.key] = Null
        /\ \A y \in saved \ {op.key} : HeightAt(tree, old, y) /\ LevelAt(tree, old, y)
        /\ \A y \in saved : /\ h[y] \in {old[y], old[y] + 1}
                            /\ op.key \notin under[y] => h[y] = old[y]
        /\ \A y \in saved : x \notin under[y] => LevelAt(tree, h, y)
        /\ op.again = Null
        /\ op.key \in under[x] /\ op.key \in under[c]
        /\ (c = op.key /\ q = x) \/ (q # Null /\ tree.parent[q] = x)
    BY <1>1, <1>10 DEF Growing, x, c, q
  <2>2. \A y \in saved \ {op.key} : HeightAt(tree', old, y) /\ LevelAt(tree', old, y)
    <3>1. SameLinks(tree, tree', saved)  BY <1>4 DEF SameLinks
    <3>2. \A y \in saved : /\ HeightAt(tree, old, y) <=> HeightAt(tree', old, y)
                           /\ LevelAt(tree, old, y) <=> LevelAt(tree', old, y)
      BY <3>1, SameAsHigh
    <3> QED BY <2>1, <3>2
  <2>3. \A y \in saved : p = Null \/ p \notin under[y] => LevelAt(tree', h, y)
    BY <1>7, <1>8, <1>9, <2>1
  <2>4. /\ op'.below \in saved /\ op.key \in under[op'.below]
        /\ tree.parent[op'.below] = x
    <3>1. CASE c = op.key /\ q = x
      <4>1. x # op.key
        <5>1. h[x] >= h[c] + 1 /\ h[x] \in Nat /\ h[c] \in Nat
          BY <1>1, <1>2, <1>3, <3>1, ParentHigher DEF q
        <5>2. h[x] # h[c]  BY <5>1
        <5> QED BY <3>1, <5>2
      <4>2. h[x] = 2 /\ h[op.key] = 1
        BY <1>2, <1>3, <1>10, <3>1, <4>1, FirstStep DEF q, c
      <4>3. op'.below = c  BY <1>5, <3>1, <4>2
      <4> QED BY <1>2, <2>1, <3>1, <4>3 DEF q
    <3>2. CASE q # Null /\ tree.parent[q] = x
      <4>1. q \in saved /\ h[q] >= h[c] + 1 /\ h[q] \in Nat /\ h[c] \in Nat
        BY <1>2, <3>2, ParentHigher DEF q
      <4>2. h[x] >= h[q] + 1 /\ h[x] \in Nat
        BY <1>1, <1>2, <3>2, <4>1, ParentHigher
      <4>3. op'.below = q  BY <1>5, <4>1, <4>2
      <4>4. op.key \in under[q]
        <5>1. q # c
          <6>1. h[q] # h[c]  BY <4>1
          <6> QED BY <6>1
        <5>2. q \in under[q]  BY <1>2, <4>1 DEF SearchTree, Nested
        <5>3. c \in under[q]  BY <1>2, <4>1, <3>2, <5>1, <5>2 DEF SearchTree, Upward, q
        <5>4. under[c] \subseteq under[q]  BY <1>2, <4>1, <5>1, <5>3 DEF SearchTree, Nested
        <5> QED BY <2>1, <5>4
      <4> QED BY <3>2, <4>1, <4>3, <4>4
    <3> QED BY <2>1, <3>1, <3>2
  <2>5. p # Null => op.key \in under[p]  BY <1>6, <2>1
  <2>6. Growing(under, h, old)'
    <3>1. tree'.parent[op'.below] # Null /\ tree'.parent[tree'.parent[op'.below]] = p
      BY <1>1, <1>4, <2>4 DEF p
    <3> QED BY <1>1, <1>4, <1>5, <1>6, <2>1, <2>2, <2>3, <2>4, <2>5, <3>1 DEF Growing
  <2> QED BY <1>1, <1>2, <1>3, <1>4, <1>5, <1>6, <1>9, <2>4, <2>6 DEF HeapInv, Changing, p
<1>11. CASE Settled(under, h)
  <2>1. /\ \A y \in saved : LevelAt(tree, h, y)
        /\ \/ c \in under[x]
           \/ p # Null /\ c \in under[p] /\ h[x] <= h[c] + 1
    BY <1>1, <1>11 DEF Settled, Level, x, c, p
  <2>2. op'.below \in saved /\ (p # Null => op'.below \in under[p])
    <3>1. CASE op'.below = c  BY <1>2, <1>6, <2>1, <3>1
    <3>2. CASE op'.below # c
      <4>1. h[x] - h[c] >= 2 /\ op'.below = q /\ h[x] \in Nat /\ h[c] \in Nat
        BY <1>2, <1>3, <1>5, <3>2
      <4>2. c # x /\ c \in under[x]  BY <2>1, <4>1
      <4>3. q # Null /\ q \in under[x]  BY <1>2, <1>3, <4>2 DEF SearchTree, Upward, q
      <4>4. q \in saved  BY <1>2, <1>3, <4>3 DEF SearchTree, Nested
      <4> QED BY <1>6, <4>1, <4>3, <4>4
    <3> QED BY <3>1, <3>2
  <2>3. Settled(under, h)'
    <3>1. \A y \in saved : LevelAt(tree', h, y)  BY <1>9, <2>1
    <3> QED BY <1>1, <1>5, <1>6, <2>2, <3>1 DEF Settled, Level
  <2> QED BY <1>1, <1>2, <1>3, <1>4, <1>5, <1>6, <1>9, <2>2, <2>3 DEF HeapInv, Changing, p
<1> QED BY <1>2, <1>10, <1>11

\* At the root the walk up has made sure of every node.
LEMMA BalancedStep ==
  ASSUME AcdbTypeOK, NEW under, NEW h, NEW old, HeapInv(under, h, old), Balanced
  PROVE  HeapInv(under, h, old)'
<1>1. op.pc = "balance" /\ op.at = Null /\ op'.pc = "idle" /\ tree' = tree /\ saved' = saved
  BY DEF Balanced, Steps, Rest
<1>2. /\ SearchTree(tree, saved, under) /\ Heights(tree, saved, h)
      /\ (Growing(under, h, old) \/ Settled(under, h))
      /\ tree.root \in saved /\ tree.parent[tree.root] = Null
      /\ \A y \in saved : tree.depth[y] = h[y]
  BY <1>1 DEF HeapInv, Changing
<1>3. Level(tree, saved, h)  BY <1>1, <1>2 DEF Growing, Settled, Level
<1>4. Rooted'  BY <1>1, <1>2 DEF Rooted
<1> QED BY <1>1, <1>2, <1>3, <1>4 DEF HeapInv, Changing

-----------------------------------------------------------------------------
(* Rotations (acdb_tree_rotate). *)

\* After a rotation everything is level, and the depths are updated from both ends of it.
LEMMA AfterRotation ==
  ASSUME AcdbTypeOK, NEW under, NEW h, NEW old, HeapInv(under, h, old), op.pc = "balance",
         op.at # Null, saved' = saved, NEW again \in saved,
         op' = [op EXCEPT !.pc = "depths", !.up = op.at, !.again = again],
         NEW V, NEW g, NEW n, Rotated(tree', V, g, h, n, again)
  PROVE  HeapInv(V, g, old)'
<1>1. /\ op.key \in saved /\ op.below \in saved /\ tree.root \in saved /\ op.at \in saved
      /\ \A x \in saved : tree.depth[x] = h[x]
      /\ op \in Op /\ Null \notin Key /\ saved \subseteq Key
  BY NullIsNoKey DEF HeapInv, Changing, AcdbTypeOK, Op, Growing, Settled
<1>2. /\ tree'.depth = tree.depth /\ tree'.root = tree.root
      /\ SearchTree(tree', saved, V) /\ g \in [Key -> Nat]
      /\ \A x \in saved : HeightAt(tree', g, x) /\ LevelAt(tree', g, x)
      /\ n \in saved /\ tree'.parent[op.at] = n
      /\ op.below \in V[n] /\ g[op.at] <= g[op.below] + 1
      /\ \A x \in saved : op.at \notin V[x] /\ again \notin V[x] => g[x] = h[x]
  BY DEF Rotated
<1>3. /\ op'.pc = "depths" /\ op'.up = op.at /\ op'.again = again
      /\ op'.key = op.key /\ op'.at = op.at /\ op'.below = op.below
  BY <1>1 DEF Op
<1>4. Heights(tree', saved, g) /\ Level(tree', saved, g)  BY <1>2 DEF Heights, Level
<1>5. again # Null /\ n # Null  BY <1>1, <1>2
<1>6. Settled(V, g)'
  BY <1>1, <1>2, <1>3, <1>4, <1>5 DEF Settled
<1>7. UpToDate(V, g)'
  BY <1>1, <1>2, <1>3, <1>5 DEF UpToDate
<1> QED BY <1>1, <1>2, <1>3, <1>4, <1>6, <1>7 DEF HeapInv, Changing

\* A node that is not level has the new one two links below on its heavy side, and both
\* kinds of rotation make everything level again.
LEMMA RotateStep ==
  ASSUME AcdbTypeOK, NEW under, NEW h, NEW old, HeapInv(under, h, old), Rotate, moved' = FALSE
  PROVE  \E V, g, o : HeapInv(V, g, o)'
<1>0. PICK x, c, b, side : x = op.at /\ c = op.below /\ b = tree.parent[op.below]
                           /\ side = HeavySide(tree, op.at)
  OBVIOUS
<1>1. /\ op.pc = "balance" /\ op.at # Null /\ ~ IsBalanced(tree, op.at) /\ saved' = saved
      /\ \/ /\ IsSingle(tree, x, c)
            /\ tree' = Single(tree, x, c, side)
            /\ op' = [op EXCEPT !.pc = "depths", !.up = x, !.again = c]
         \/ /\ ~ IsSingle(tree, x, c)
            /\ tree' = Double(tree, x, c, side)
            /\ op' = [op EXCEPT !.pc = "depths", !.up = x, !.again = b]
            /\ tree.child[side][c] = Null
  BY <1>0 DEF Rotate, Steps
<1>2. /\ SearchTree(tree, saved, under) /\ Heights(tree, saved, h)
      /\ op.key \in saved /\ op.below \in saved /\ (Growing(under, h, old) \/ Settled(under, h))
      /\ tree \in Tree /\ saved \subseteq Key
      /\ \A y \in saved : tree.depth[y] = h[y]
  BY <1>1 DEF HeapInv, Changing, AcdbTypeOK
<1>3. Growing(under, h, old)
  <2>1. SUFFICES ASSUME Settled(under, h) PROVE FALSE  BY <1>2
  <2>2. op.at \in saved /\ LevelAt(tree, h, op.at)  BY <1>1, <2>1 DEF Settled, Level
  <2>3. h \in [Key -> Nat]  BY <1>2 DEF Heights
  <2>4. IsBalanced(tree, op.at)  BY <1>2, <2>2, <2>3, BalancedIsLevel
  <2> QED BY <1>1, <2>4
<1>4. HeavyPath(under, h, old, side, b)
  <2>1. HeavyPath(under, h, old, HeavySide(tree, op.at), tree.parent[op.below])
    BY <1>1, <1>2, <1>3, HeavyFacts
  <2> QED BY <1>0, <2>1
<1>5. c \in saved /\ b \in saved  BY <1>0, <1>2, <1>4 DEF HeavyPath
<1>6. CASE IsSingle(tree, x, c)
  <2>1. Direction(op.below, b) = side  BY <1>0, <1>6 DEF IsSingle
  <2>2. Rotated(Single(tree, op.at, op.below, side), TurnedUnder(tree, under, op.at, b, side),
                RestoredHeights(under, h, old, b, b), h, b, op.below)
    BY <1>2, <1>3, <1>4, <2>1, SingleLevels
  <2>3. PICK V, g : V = TurnedUnder(tree, under, op.at, b, side)
                    /\ g = RestoredHeights(under, h, old, b, b)
    OBVIOUS
  <2>4. tree' = Single(tree, op.at, op.below, side)
        /\ op' = [op EXCEPT !.pc = "depths", !.up = op.at, !.again = c]
    BY <1>0, <1>1, <1>6
  <2>5. Rotated(tree', V, g, h, b, c)  BY <1>0, <2>2, <2>3, <2>4
  <2>6. HeapInv(V, g, old)'  BY <1>1, <1>5, <2>4, <2>5, AfterRotation
  <2> QED BY <2>6
<1>7. CASE ~ IsSingle(tree, x, c)
  <2>1. Direction(op.below, b) # side /\ tree.child[side][op.below] = Null
    BY <1>0, <1>1, <1>7 DEF IsSingle
  <2>2. PICK V, g :
          /\ V = TurnedUnder(Swapped(tree, op.at, op.below, side),
                             TurnedUnder(tree, under, b, op.below, Other(side)), op.at, op.below, side)
          /\ g = RestoredHeights(under, h, old, b, op.below)
    OBVIOUS
  <2>3. Rotated(Double(tree, op.at, op.below, side), V, g, h, op.below, b)
    BY <1>2, <1>3, <1>4, <2>1, <2>2, DoubleLevels
  <2>4. tree' = Double(tree, op.at, op.below, side)
        /\ op' = [op EXCEPT !.pc = "depths", !.up = op.at, !.again = b]
    BY <1>0, <1>1, <1>7
  <2>5. Rotated(tree', V, g, h, c, b)  BY <1>0, <2>3, <2>4
  <2>6. HeapInv(V, g, old)'  BY <1>1, <1>5, <2>4, <2>5, AfterRotation
  <2> QED BY <2>6
<1> QED BY <1>6, <1>7

-----------------------------------------------------------------------------
(* Walks (acdb_heap_get_map_list, acdb_heap_clear). *)

\* A node, what is left of it and what is right of it.
Around(under, x) ==
  /\ x \in under[x] /\ under[x] \subseteq saved
  /\ under[x] = Part(under, tree.child[Left][x]) \cup Later(under, x)
  /\ \A s \in Side : tree.child[s][x] \in saved \cup {Null}
  /\ \A y \in Part(under, tree.child[Left][x]) : y < x
  /\ \A y \in Part(under, tree.child[Right][x]) : x < y

LEMMA AroundNode ==
  ASSUME AcdbTypeOK, NEW under, SearchTree(tree, saved, under), NEW x \in saved
  PROVE  Around(under, x)
<1> DEFINE l == tree.child[Left][x]
           r == tree.child[Right][x]
<1>1. saved \subseteq Key /\ x \in Nat /\ \A y \in saved : y \in Nat
  BY KeyAssumption DEF AcdbTypeOK
<1>2. x \in under[x] /\ under[x] \subseteq saved  BY DEF SearchTree, Nested
<1>3. \A s \in Side : /\ tree.child[s][x] \in saved \cup {Null}
                      /\ Part(under, tree.child[s][x]) = {y \in under[x] \ {x} : Direction(y, x) = s}
  BY DEF SearchTree, Downward
<1>4. /\ Part(under, l) = {y \in under[x] \ {x} : Direction(y, x) = Left}
      /\ Part(under, r) = {y \in under[x] \ {x} : Direction(y, x) = Right}
  BY <1>3, SideFacts
<1> HIDE DEF l, r
<1>5. \A y \in Key : Direction(y, x) = IF y < x THEN Left ELSE Right  BY DEF Direction
<1>6. \A y \in Part(under, l) : y < x  BY <1>1, <1>2, <1>4, <1>5, SideFacts
<1>7. \A y \in Part(under, r) : x < y
  <2> SUFFICES ASSUME NEW y \in Part(under, r) PROVE x < y
    OBVIOUS
  <2>1. y \in under[x] /\ y # x /\ Direction(y, x) = Right  BY <1>4
  <2>2. ~ (y < x) /\ y \in Nat  BY <1>1, <1>2, <1>5, <2>1, SideFacts
  <2> QED BY <1>1, <2>1, <2>2
<1>8. under[x] = Part(under, l) \cup ({x} \cup Part(under, r))
  <2>1. \A y \in under[x] \ {x} : Direction(y, x) = Left \/ Direction(y, x) = Right
    BY <1>1, <1>2, <1>5
  <2> QED BY <1>2, <1>4, <2>1
<1> QED BY <1>2, <1>3, <1>6, <1>7, <1>8 DEF Around, Later, l, r

\* What is on the stack, and what is right of it.
Stacked(under) == UNION {Later(under, op.stack[i]) : i \in 1 .. Len(op.stack)}

LEMMA OnTheStack ==
  ASSUME NEW under
  PROVE  \A y : y \in Stacked(under) <=> \E i \in 1 .. Len(op.stack) : y \in Later(under, op.stack[i])
BY DEF Stacked

LEMMA ListedNodes ==
  \A y : y \in Visited <=> \E i \in 1 .. Len(op.list) : y = op.list[i]
BY DEF Visited

\* The parts of WalkInv.
WalkParts(under) ==
  /\ op.at \in saved \cup {Null} /\ \A i \in 1 .. Len(op.stack) : op.stack[i] \in saved
  /\ Ascending
  /\ Visited \cup Part(under, op.at) \cup Stacked(under) = saved
  /\ \A x \in Visited, y \in Part(under, op.at) \cup Stacked(under) : x < y
  /\ \A i \in 1 .. Len(op.stack), x \in Part(under, op.at) : x < op.stack[i]
  /\ \A i, j \in 1 .. Len(op.stack) : i < j => \A x \in Later(under, op.stack[i]) : x < op.stack[j]

LEMMA WalkHasParts == \A under : WalkInv(under) <=> WalkParts(under)
BY DEF WalkInv, WalkParts, Stacked

LEMMA WalkStep ==
  ASSUME AcdbTypeOK, NEW under, NEW h, NEW old, HeapInv(under, h, old),
         NEW task \in {"list", "clear"}, Walk(task)
  PROVE  HeapInv(under, h, old)'
<1>1. /\ op.pc = "idle" /\ op'.pc = "walk" /\ tree' = tree /\ saved' = saved
      /\ op'.at = tree.root /\ op'.stack = <<>> /\ op'.list = <<>>
  BY DEF Walk, Steps, Rest
<1>2. /\ SearchTree(tree, saved, under) /\ Heights(tree, saved, h)
      /\ Rooted /\ Level(tree, saved, h)
      /\ \A x \in saved : tree.depth[x] = h[x]
  BY <1>1 DEF HeapInv, Changing
<1>3. Rooted' /\ saved \subseteq Key /\ Null \notin Key
  BY <1>1, <1>2, NullIsNoKey DEF Rooted, AcdbTypeOK
<1>4. Part(under, tree.root) = saved /\ tree.root \in saved \cup {Null}
  <2>1. CASE tree.root = Null  BY <1>2, <1>3, <2>1 DEF Rooted, Part
  <2>2. CASE tree.root # Null
    <3>1. tree.root \in saved /\ tree.parent[tree.root] = Null  BY <1>2, <2>2 DEF Rooted
    <3>2. under[tree.root] = saved  BY <1>2, <1>3, <3>1, SearchFromRoot
    <3> QED BY <2>2, <3>1, <3>2 DEF Part
  <2> QED BY <2>1, <2>2
<1>5. Stacked(under)' = {}  BY <1>1 DEF Stacked
<1>6. Visited' = {} /\ Ascending'  BY <1>1 DEF Visited, Ascending
<1>7. WalkInv(under)'
  <2>1. Part(under, op.at)' = saved  BY <1>1, <1>4 DEF Part
  <2>2. Len(op'.stack) = 0  BY <1>1
  <2>3. 1 .. Len(op'.stack) = {}  BY <2>2
  <2>4. /\ op'.at \in saved' \cup {Null} /\ \A i \in 1 .. Len(op'.stack) : op'.stack[i] \in saved'
        /\ Visited' \cup Part(under, op.at)' \cup Stacked(under)' = saved'
    BY <1>1, <1>4, <1>5, <1>6, <2>1, <2>3
  <2>5. \A x \in Visited', y \in Part(under, op.at)' \cup Stacked(under)' : x < y  BY <1>6
  <2>6. WalkParts(under)'  BY <1>6, <2>3, <2>4, <2>5 DEF WalkParts
  <2> QED BY <2>6 DEF WalkInv, WalkParts, Stacked
<1> QED BY <1>1, <1>2, <1>3, <1>7 DEF HeapInv, Changing

\* A node is put off until what is left of it has been listed.
LEMMA PushStep ==
  ASSUME AcdbTypeOK, NEW under, NEW h, NEW old, HeapInv(under, h, old), Push
  PROVE  HeapInv(under, h, old)'
<1>0. PICK x, l : x = op.at /\ l = tree.child[Left][op.at]  OBVIOUS
<1>1. /\ op \in Op /\ op.pc = "walk" /\ x # Null /\ tree' = tree /\ saved' = saved
      /\ op' = [op EXCEPT !.stack = <<x>> \o @, !.at = l]
  BY <1>0 DEF Push, Steps, AcdbTypeOK, Op
<1>2. /\ SearchTree(tree, saved, under) /\ Heights(tree, saved, h)
      /\ Rooted /\ Level(tree, saved, h)
      /\ \A y \in saved : tree.depth[y] = h[y]
      /\ WalkParts(under)
  BY <1>1, WalkHasParts DEF HeapInv, Changing
<1>3. Rooted'  BY <1>1, <1>2 DEF Rooted
<1>4. x \in saved /\ \A i \in 1 .. Len(op.stack) : op.stack[i] \in saved
  BY <1>0, <1>1, <1>2 DEF WalkParts
<1>5. Around(under, x)  BY <1>2, <1>4, AroundNode
<1>6. op'.pc = "walk" /\ op'.at = l /\ op'.stack = <<x>> \o op.stack /\ op'.list = op.list
  BY <1>1 DEF Op
<1>7. /\ Len(op'.stack) = Len(op.stack) + 1 /\ Len(op.stack) \in Nat
      /\ op'.stack[1] = x
      /\ \A i \in 1 .. Len(op.stack) : op'.stack[i + 1] = op.stack[i]
  BY <1>1, <1>6 DEF Op
<1>8. \A i \in 1 .. Len(op'.stack) :
        \/ i = 1 /\ op'.stack[i] = x
        \/ i - 1 \in 1 .. Len(op.stack) /\ op'.stack[i] = op.stack[i - 1]
  <2> SUFFICES ASSUME NEW i \in 1 .. Len(op'.stack), i # 1
               PROVE  i - 1 \in 1 .. Len(op.stack) /\ op'.stack[i] = op.stack[i - 1]
    BY <1>7
  <2>1. i - 1 \in 1 .. Len(op.stack) /\ i = (i - 1) + 1  BY <1>7
  <2> QED BY <1>7, <2>1
<1>9. \A y : Later(under, y)' = Later(under, y)  BY <1>1 DEF Later
<1>10. Visited' = Visited /\ (Ascending => Ascending')  BY <1>6 DEF Visited, Ascending
<1>11. Part(under, op.at) = under[x]  BY <1>0, <1>1 DEF Part
<1>12. Stacked(under)' = Later(under, x) \cup Stacked(under)
  <2>1. \A y : y \in Stacked(under)' <=> \E i \in 1 .. Len(op'.stack) : y \in Later(under, op'.stack[i])
    BY <1>9 DEF Stacked
  <2>2. \A y : (\E i \in 1 .. Len(op'.stack) : y \in Later(under, op'.stack[i]))
              <=> y \in Later(under, x) \/ \E i \in 1 .. Len(op.stack) : y \in Later(under, op.stack[i])
    <3>1. 1 \in 1 .. Len(op'.stack) /\ \A i \in 1 .. Len(op.stack) : i + 1 \in 1 .. Len(op'.stack)
      BY <1>7
    <3> QED BY <1>7, <1>8, <3>1
  <2> QED BY <2>1, <2>2, OnTheStack
<1>13. /\ x \in under[x] /\ under[x] = Part(under, l) \cup Later(under, x)
       /\ l \in saved \cup {Null} /\ \A y \in Part(under, l) : y < x
  BY <1>0, <1>5, SideFacts DEF Around
<1>14. Part(under, op.at)' = Part(under, l)  BY <1>6 DEF Part
<1>15. Part(under, l) \cup (Later(under, x) \cup Stacked(under)) = Part(under, op.at) \cup Stacked(under)
  BY <1>11, <1>13
<1>16. ASSUME NEW i \in 1 .. Len(op'.stack)
       PROVE  op'.stack[i] \in saved /\ \A y \in Part(under, l) : y < op'.stack[i]
  BY <1>2, <1>4, <1>8, <1>11, <1>13 DEF WalkParts
<1>17. ASSUME NEW i \in 1 .. Len(op'.stack), NEW j \in 1 .. Len(op'.stack), i < j,
              NEW y \in Later(under, op'.stack[i])
       PROVE  y < op'.stack[j]
  <2>1. j - 1 \in 1 .. Len(op.stack) /\ op'.stack[j] = op.stack[j - 1]
    BY <1>7, <1>8, <1>17
  <2>2. CASE i = 1
    <3>1. y \in under[x]  BY <1>7, <1>13, <1>17, <2>2
    <3> QED BY <1>2, <1>11, <2>1, <3>1 DEF WalkParts
  <2>3. CASE i # 1
    <3>1. i - 1 \in 1 .. Len(op.stack) /\ op'.stack[i] = op.stack[i - 1]  BY <1>8, <2>3
    <3>2. i - 1 < j - 1  BY <1>7, <1>17
    <3> QED BY <1>2, <1>17, <2>1, <3>1, <3>2 DEF WalkParts
  <2> QED BY <2>2, <2>3
<1>18. WalkParts(under)'
  <2>1. Ascending' /\ Visited' \cup Part(under, op.at)' \cup Stacked(under)' = saved'
    BY <1>1, <1>2, <1>10, <1>12, <1>14, <1>15 DEF WalkParts
  <2>2. \A v \in Visited', y \in Part(under, op.at)' \cup Stacked(under)' : v < y
    BY <1>2, <1>10, <1>12, <1>14, <1>15 DEF WalkParts
  <2>3. op'.at \in saved' \cup {Null} /\ \A i \in 1 .. Len(op'.stack) : op'.stack[i] \in saved'
    BY <1>1, <1>6, <1>13, <1>16
  <2>4. \A i \in 1 .. Len(op'.stack), y \in Part(under, op.at)' : y < op'.stack[i]
    BY <1>14, <1>16
  <2>5. \A i, j \in 1 .. Len(op'.stack) : i < j =>
          \A y \in Later(under, op.stack[i])' : y < op'.stack[j]
    <3>1. \A i : Later(under, op.stack[i])' = Later(under, op'.stack[i])  BY <1>1 DEF Later
    <3> QED BY <1>17, <3>1
  <2> QED BY <2>1, <2>2, <2>3, <2>4, <2>5 DEF WalkParts
<1>19. WalkInv(under)'  BY <1>18 DEF WalkInv, WalkParts, Stacked
<1> QED BY <1>1, <1>2, <1>3, <1>6, <1>19 DEF HeapInv, Changing

\* The node on the stack is the next in order.
LEMMA VisitStep ==
  ASSUME AcdbTypeOK, NEW under, NEW h, NEW old, HeapInv(under, h, old), Visit
  PROVE  HeapInv(under, h, old)'
<1>0. PICK x, r : x = Head(op.stack) /\ r = tree.child[Right][Head(op.stack)]  OBVIOUS
<1>1. /\ op \in Op /\ op.pc = "walk" /\ op.at = Null /\ op.stack # <<>> /\ tree' = tree /\ saved' = saved
      /\ op' = [op EXCEPT !.stack = Tail(@), !.list = Append(@, x), !.at = r]
  BY <1>0 DEF Visit, Steps, AcdbTypeOK, Op
<1>2. /\ SearchTree(tree, saved, under) /\ Heights(tree, saved, h)
      /\ Rooted /\ Level(tree, saved, h)
      /\ \A y \in saved : tree.depth[y] = h[y]
      /\ WalkParts(under) /\ saved \subseteq Nat
  BY <1>1, WalkHasParts, KeyAssumption DEF HeapInv, Changing, AcdbTypeOK
<1>3. Rooted'  BY <1>1, <1>2 DEF Rooted
<1>4. /\ op'.pc = "walk" /\ op'.at = r /\ op'.stack = Tail(op.stack) /\ op'.list = Append(op.list, x)
      /\ op.stack \in Seq(Key) /\ op.list \in Seq(Key)
  BY <1>1 DEF Op
<1>5. /\ Len(op.stack) \in Nat /\ Len(op.stack) >= 1 /\ op.stack[1] = x
      /\ Len(op'.stack) = Len(op.stack) - 1
      /\ \A i \in 1 .. Len(op'.stack) : op'.stack[i] = op.stack[i + 1] /\ i + 1 \in 1 .. Len(op.stack)
  BY <1>0, <1>1, <1>4
<1>6. /\ Len(op.list) \in Nat /\ Len(op'.list) = Len(op.list) + 1
      /\ op'.list[Len(op.list) + 1] = x
      /\ \A i \in 1 .. Len(op.list) : op'.list[i] = op.list[i]
  BY <1>4
<1>7. x \in saved /\ 1 \in 1 .. Len(op.stack)  BY <1>2, <1>5 DEF WalkParts
<1>8. Around(under, x)  BY <1>2, <1>7, AroundNode
<1>9. /\ Later(under, x) = {x} \cup Part(under, r) /\ r \in saved \cup {Null}
      /\ \A y \in Part(under, r) : x < y /\ y \in saved
  <2>1. /\ under[x] \subseteq saved /\ r \in saved \cup {Null} /\ \A y \in Part(under, r) : x < y
        /\ Later(under, x) \subseteq under[x]
    BY <1>0, <1>8, SideFacts DEF Around
  <2>2. Later(under, x) = {x} \cup Part(under, r)  BY <1>0 DEF Later
  <2> QED BY <2>1, <2>2
<1>10. \A i : Later(under, op.stack[i])' = Later(under, op'.stack[i])  BY <1>1 DEF Later
<1>11. Part(under, op.at)' = Part(under, r) /\ Part(under, op.at) = {}  BY <1>1, <1>4 DEF Part
<1>12. Visited' = Visited \cup {x}
  <2>1. \A y : y \in Visited' <=> \E i \in 1 .. Len(op'.list) : y = op'.list[i]
    BY DEF Visited
  <2>2. \A i \in 1 .. Len(op'.list) : i = Len(op.list) + 1 \/ i \in 1 .. Len(op.list)  BY <1>6
  <2>3. Len(op.list) + 1 \in 1 .. Len(op'.list) /\ \A i \in 1 .. Len(op.list) : i \in 1 .. Len(op'.list)
    BY <1>6
  <2>4. \A y : (\E i \in 1 .. Len(op'.list) : y = op'.list[i])
              <=> y = x \/ \E i \in 1 .. Len(op.list) : y = op.list[i]
    BY <1>6, <2>2, <2>3
  <2> QED BY <2>1, <2>4, ListedNodes
<1>13. Stacked(under) = Later(under, x) \cup Stacked(under)'
  <2>1. \A y : y \in Stacked(under)' <=> \E i \in 1 .. Len(op'.stack) : y \in Later(under, op'.stack[i])
    BY <1>10 DEF Stacked
  <2>2. \A i \in 1 .. Len(op.stack) :
          \/ op.stack[i] = x
          \/ i - 1 \in 1 .. Len(op'.stack) /\ op'.stack[i - 1] = op.stack[i]
    <3> SUFFICES ASSUME NEW i \in 1 .. Len(op.stack), i # 1
                 PROVE  i - 1 \in 1 .. Len(op'.stack) /\ op'.stack[i - 1] = op.stack[i]
      BY <1>5
    <3>1. i - 1 \in 1 .. Len(op'.stack) /\ i = (i - 1) + 1  BY <1>5
    <3> QED BY <1>5, <3>1
  <2>3. \A y : (\E i \in 1 .. Len(op.stack) : y \in Later(under, op.stack[i]))
              <=> y \in Later(under, x) \/ \E i \in 1 .. Len(op'.stack) : y \in Later(under, op'.stack[i])
    BY <1>5, <1>7, <2>2
  <2> QED BY <2>1, <2>3, OnTheStack
<1>14. \A y \in Stacked(under)' : x < y /\ y \in saved
  <2> SUFFICES ASSUME NEW y \in Stacked(under)' PROVE x < y /\ y \in saved
    OBVIOUS
  <2>1. PICK i \in 1 .. Len(op'.stack) : y \in Later(under, op'.stack[i])
    BY <1>10 DEF Stacked
  <2>2. i + 1 \in 1 .. Len(op.stack) /\ op'.stack[i] = op.stack[i + 1] /\ 1 < i + 1  BY <1>5
  <2>3. op'.stack[i] \in saved  BY <1>2, <2>2 DEF WalkParts
  <2>4. x < op'.stack[i]
    <3>1. x \in Later(under, op.stack[1])  BY <1>5, <1>9
    <3> QED BY <1>2, <1>7, <2>2, <3>1 DEF WalkParts
  <2>5. Around(under, op'.stack[i])  BY <1>2, <2>3, AroundNode
  <2> DEFINE s == op'.stack[i]
  <2>6. /\ Later(under, s) \subseteq saved
        /\ \A z \in Part(under, tree.child[Right][s]) : s < z
        /\ Later(under, s) = {s} \cup Part(under, tree.child[Right][s])
    BY <2>5 DEF Around, Later
  <2> HIDE DEF s
  <2>7. y \in saved /\ (y = s \/ s < y)  BY <2>1, <2>6 DEF s
  <2>8. x < s /\ s \in saved  BY <2>3, <2>4 DEF s
  <2> QED BY <1>2, <1>7, <2>7, <2>8
<1>15. Visited' \cup Part(under, op.at)' \cup Stacked(under)' = saved'
  <2>1. Visited \cup Part(under, op.at) \cup Stacked(under) = saved  BY <1>2 DEF WalkParts
  <2> QED BY <1>1, <1>9, <1>11, <1>12, <1>13, <2>1
<1>16. \A v \in Visited', y \in Part(under, op.at)' \cup Stacked(under)' : v < y
  <2>1. \A v \in Visited, y \in Stacked(under) : v < y  BY <1>2 DEF WalkParts
  <2> QED BY <1>9, <1>11, <1>12, <1>13, <1>14, <2>1
<1>17. Ascending'
  <2>1. \A v \in Visited : v < x
    <3>1. x \in Stacked(under)  BY <1>9, <1>13
    <3> QED BY <1>2, <3>1 DEF WalkParts
  <2>2. ASSUME NEW i \in 1 .. Len(op'.list), NEW j \in 1 .. Len(op'.list), i < j
        PROVE  op'.list[i] < op'.list[j]
    <3>1. i \in 1 .. Len(op.list) /\ op'.list[i] = op.list[i]  BY <1>6, <2>2
    <3>2. CASE j = Len(op.list) + 1
      <4>1. op.list[i] \in Visited  BY <3>1 DEF Visited
      <4> QED BY <1>6, <2>1, <3>1, <3>2, <4>1
    <3>3. CASE j # Len(op.list) + 1
      <4>1. j \in 1 .. Len(op.list) /\ op'.list[j] = op.list[j]  BY <1>6, <3>3
      <4> QED BY <1>2, <2>2, <3>1, <4>1 DEF WalkParts, Ascending
    <3> QED BY <3>2, <3>3
  <2> QED BY <2>2 DEF Ascending
<1>18. ASSUME NEW i \in 1 .. Len(op'.stack)
       PROVE  op'.stack[i] \in saved /\ \A y \in Part(under, r) : y < op'.stack[i]
  <2>1. i + 1 \in 1 .. Len(op.stack) /\ op'.stack[i] = op.stack[i + 1] /\ 1 < i + 1  BY <1>5
  <2>2. \A y \in Part(under, r) : y \in Later(under, op.stack[1])  BY <1>5, <1>9
  <2> QED BY <1>2, <1>7, <2>1, <2>2 DEF WalkParts
<1>19. ASSUME NEW i \in 1 .. Len(op'.stack), NEW j \in 1 .. Len(op'.stack), i < j,
              NEW y \in Later(under, op'.stack[i])
       PROVE  y < op'.stack[j]
  <2>1. /\ i + 1 \in 1 .. Len(op.stack) /\ op'.stack[i] = op.stack[i + 1]
        /\ j + 1 \in 1 .. Len(op.stack) /\ op'.stack[j] = op.stack[j + 1]
        /\ i + 1 < j + 1
    BY <1>5, <1>19
  <2> QED BY <1>2, <1>19, <2>1 DEF WalkParts
<1>20. WalkParts(under)'
  <2>1. op'.at \in saved' \cup {Null} /\ \A i \in 1 .. Len(op'.stack) : op'.stack[i] \in saved'
    BY <1>1, <1>4, <1>9, <1>18
  <2>2. \A i \in 1 .. Len(op'.stack), y \in Part(under, op.at)' : y < op'.stack[i]
    BY <1>11, <1>18
  <2>3. \A i, j \in 1 .. Len(op'.stack) : i < j =>
          \A y \in Later(under, op.stack[i])' : y < op'.stack[j]
    BY <1>10, <1>19
  <2> QED BY <1>15, <1>16, <1>17, <2>1, <2>2, <2>3 DEF WalkParts
<1>21. WalkInv(under)'  BY <1>20 DEF WalkInv, WalkParts, Stacked
<1> QED BY <1>1, <1>2, <1>3, <1>4, <1>21 DEF HeapInv, Changing

LEMMA WalkedStep ==
  ASSUME AcdbTypeOK, NEW under, NEW h, NEW old, HeapInv(under, h, old), Walked
  PROVE  HeapInv(under, h, old)'
<1>1. /\ op \in Op /\ op.pc = "walk" /\ op.at = Null /\ op.stack = <<>> /\ tree' = tree /\ saved' = saved
      /\ op' = Goto("listed")
  BY DEF Walked, Steps, AcdbTypeOK, Op
<1>2. /\ SearchTree(tree, saved, under) /\ Heights(tree, saved, h)
      /\ Rooted /\ Level(tree, saved, h)
      /\ \A y \in saved : tree.depth[y] = h[y]
      /\ WalkParts(under)
  BY <1>1, WalkHasParts DEF HeapInv, Changing
<1>3. Rooted' /\ op'.pc = "listed" /\ op'.list = op.list  BY <1>1, <1>2 DEF Rooted, Goto, Op
<1>4. Part(under, op.at) = {} /\ Stacked(under) = {}  BY <1>1 DEF Part, Stacked
<1>5. Visited = saved /\ Ascending  BY <1>2, <1>4 DEF WalkParts
<1>6. Visited' = saved' /\ Ascending'  BY <1>1, <1>3, <1>5 DEF Visited, Ascending
<1> QED BY <1>1, <1>2, <1>3, <1>6 DEF HeapInv, Changing

-----------------------------------------------------------------------------
(* The heap at rest, and empty. *)

EmptyUnder == [k \in Key |-> {}]
EmptyHeights == [k \in Key |-> 0]

LEMMA EmptyTreeIsTree ==
  /\ SearchTree(EmptyTree, {}, EmptyUnder)
  /\ Heights(EmptyTree, {}, EmptyHeights) /\ Level(EmptyTree, {}, EmptyHeights)
BY DEF SearchTree, Nested, Downward, Upward, Heights, Level, EmptyUnder, EmptyHeights

\* A call ends: clearing starts again, whether or not a subtree had been moved.
LEMMA ReturnStep ==
  ASSUME AcdbTypeOK, ~ moved => \E under, h, old : HeapInv(under, h, old), Return, moved' = FALSE
  PROVE  \E V, g, o : HeapInv(V, g, o)'
<1>1. op.pc \in {"found", "absent", "listed"} /\ op'.pc = "idle"
  BY DEF Return, Rest
<1>2. CASE tree' = EmptyTree /\ saved' = {}
  <2>1. tree'.root = Null  BY <1>2 DEF EmptyTree
  <2>2. Rooted'  BY <1>2, <2>1 DEF Rooted
  <2>3. HeapInv(EmptyUnder, EmptyHeights, EmptyHeights)'
    BY <1>1, <1>2, <2>2, EmptyTreeIsTree DEF HeapInv, Changing
  <2> QED BY <2>3
<1>3. CASE UNCHANGED <<tree, saved, moved>>
  <2>1. PICK under, h, old : HeapInv(under, h, old)
    <3>1. moved = FALSE  BY <1>3
    <3> QED BY <3>1
  <2>2. /\ SearchTree(tree, saved, under) /\ Heights(tree, saved, h)
        /\ Rooted /\ Level(tree, saved, h)
        /\ \A y \in saved : tree.depth[y] = h[y]
    BY <1>1, <2>1 DEF HeapInv, Changing
  <2>3. Rooted'  BY <1>3, <2>2 DEF Rooted
  <2>4. HeapInv(under, h, old)'  BY <1>1, <1>3, <2>2, <2>3 DEF HeapInv, Changing
  <2> QED BY <2>4
<1> QED BY <1>2, <1>3 DEF Return

-----------------------------------------------------------------------------
(* The inductive invariant: until a subtree has been moved. *)

AcdbInv ==
  /\ AcdbTypeOK /\ Cursors /\ NotAgain
  /\ ~ moved => \E under, h, old : HeapInv(under, h, old)

LEMMA AcdbInitInv == AcdbInit => AcdbInv
<1> SUFFICES ASSUME AcdbInit PROVE AcdbInv
  OBVIOUS
<1>1. tree = EmptyTree /\ op = Rest /\ saved = {} /\ moved = FALSE  BY DEF AcdbInit
<1>2. AcdbTypeOK  BY <1>1, RestType, EmptyTreeType DEF AcdbTypeOK, Op
<1>3. Cursors /\ NotAgain  BY <1>1 DEF Cursors, NotAgain, Rest
<1>4. Rooted /\ op.pc = "idle"  BY <1>1 DEF Rooted, EmptyTree, Rest
<1>5. HeapInv(EmptyUnder, EmptyHeights, EmptyHeights)
  BY <1>1, <1>4, EmptyTreeIsTree DEF HeapInv, Changing
<1> QED BY <1>2, <1>3, <1>5 DEF AcdbInv

\* Every action keeps it, while no subtree is moved.
LEMMA AcdbHeapStep ==
  ASSUME AcdbTypeOK, NotAgain, NEW under, NEW h, NEW old, HeapInv(under, h, old),
         [AcdbNext]_acdb_vars, moved' = FALSE
  PROVE  \E V, g, o : HeapInv(V, g, o)'
<1>1. ASSUME NEW k \in Key, NEW task \in {"get", "save"}, GetBin(task, k)
      PROVE  \E V, g, o : HeapInv(V, g, o)'
  <2>1. HeapInv(under, h, old)'  BY <1>1, GetBinStep
  <2> QED BY <2>1
<1>2. ASSUME NEW task \in {"list", "clear"}, Walk(task)
      PROVE  \E V, g, o : HeapInv(V, g, o)'
  <2>1. HeapInv(under, h, old)'  BY <1>2, WalkStep
  <2> QED BY <2>1
<1>3. CASE Search
  <2>1. HeapInv(under, h, old)'  BY <1>3, SearchStep
  <2> QED BY <2>1
<1>4. CASE Create  BY <1>4, CreateStep
<1>5. CASE Descend
  <2>1. HeapInv(under, h, old)'  BY <1>5, DescendStep
  <2> QED BY <2>1
<1>6. CASE Hang  BY <1>6, HangStep
<1>7. CASE UpdateDepth
  <2>1. HeapInv(under, h, old)'  BY <1>7, UpdateDepthStep
  <2> QED BY <2>1
<1>8. CASE DepthsUpdated
  <2>1. HeapInv(under, h, old)'  BY <1>8, DepthsUpdatedStep
  <2> QED BY <2>1
<1>9. CASE StepUp
  <2>1. HeapInv(under, h, old)'  BY <1>9, StepUpStep
  <2> QED BY <2>1
<1>10. CASE Rotate  BY <1>10, RotateStep
<1>11. CASE Balanced
  <2>1. HeapInv(under, h, old)'  BY <1>11, BalancedStep
  <2> QED BY <2>1
<1>12. CASE Push
  <2>1. HeapInv(under, h, old)'  BY <1>12, PushStep
  <2> QED BY <2>1
<1>13. CASE Visit
  <2>1. HeapInv(under, h, old)'  BY <1>13, VisitStep
  <2> QED BY <2>1
<1>14. CASE Walked
  <2>1. HeapInv(under, h, old)'  BY <1>14, WalkedStep
  <2> QED BY <2>1
<1>15. CASE Return
  <2>1. ~ moved => \E v, g, o : HeapInv(v, g, o)  OBVIOUS
  <2> QED BY <1>15, <2>1, ReturnStep
<1>16. CASE UNCHANGED acdb_vars
  <2>1. tree' = tree /\ op' = op /\ saved' = saved  BY <1>16 DEF acdb_vars
  <2>2. HeapInv(under, h, old)'
    BY <2>1 DEF HeapInv, Changing, Rooted, OnTheWay, Growing, Settled, UpToDate,
                WalkInv, Later, Visited, Ascending
  <2> QED BY <2>2
<1> QED BY <1>1, <1>2, <1>3, <1>4, <1>5, <1>6, <1>7, <1>8, <1>9, <1>10, <1>11, <1>12,
           <1>13, <1>14, <1>15, <1>16 DEF AcdbNext

\* Only clearing the heap forgets that a subtree has been moved.
LEMMA MovedStays ==
  ASSUME AcdbTypeOK, [AcdbNext]_acdb_vars, moved, ~ moved'
  PROVE  Return
<1>1. ASSUME moved' = moved PROVE FALSE  BY <1>1
<1>2. Rotate => FALSE
  <2>1. Rotate => moved' = moved \/ \E b \in BOOLEAN : moved' = (moved \/ b)
    BY DEF Rotate
  <2> QED BY <1>1, <2>1
<1> QED BY <1>1, <1>2 DEF AcdbNext, acdb_vars, GetBin, Walk, Search, Create, Descend, Hang,
     UpdateDepth, DepthsUpdated, StepUp, Balanced, Push, Visit, Walked

LEMMA AcdbInvStep == AcdbInv /\ [AcdbNext]_acdb_vars => AcdbInv'
<1> SUFFICES ASSUME AcdbInv, [AcdbNext]_acdb_vars PROVE AcdbInv'
  OBVIOUS
<1>1. AcdbTypeOK /\ Cursors /\ NotAgain /\ (~ moved => \E under, h, old : HeapInv(under, h, old))
  BY DEF AcdbInv
<1>2. AcdbTypeOK' /\ Cursors'  BY <1>1, AcdbTypeStep
<1>3. NotAgain'  BY <1>1, NotAgainStep
<1>4. ASSUME ~ moved' PROVE \E V, g, o : HeapInv(V, g, o)'
  <2>1. moved' = FALSE  BY <1>2, <1>4 DEF AcdbTypeOK
  <2>2. CASE moved
    <3>1. Return  BY <1>1, <1>4, <2>2, MovedStays
    <3> QED BY <1>1, <2>1, <3>1, ReturnStep
  <2>3. CASE ~ moved
    <3>1. PICK under, h, old : HeapInv(under, h, old)  BY <1>1, <2>3
    <3> QED BY <1>1, <2>1, <3>1, AcdbHeapStep
  <2> QED BY <2>2, <2>3
<1> QED BY <1>2, <1>3, <1>4 DEF AcdbInv

LEMMA AcdbInvariant == AcdbSpec => []AcdbInv
BY AcdbInitInv, AcdbInvStep, PTL DEF AcdbSpec

\* The links of the tree are nodes or null, whatever the rotations do.
THEOREM AcdbTypeCorrect == AcdbSpec => []AcdbTypeOK
<1>1. AcdbInv => AcdbTypeOK  BY DEF AcdbInv
<1> QED BY <1>1, AcdbInvariant, PTL

\* Until a double rotation has moved a subtree, what has been saved is found, what has
\* not been is not, and a walk lists it all in order, for every set of key vectors.
THEOREM SavedIsReallyFound == AcdbSpec => []SavedIsFound
<1>1. AcdbInv => SavedIsFound
  <2> SUFFICES ASSUME AcdbInv, ~ moved PROVE SavedIsAlwaysFound
    BY DEF SavedIsFound
  <2>1. PICK under, h, old : HeapInv(under, h, old)  BY DEF AcdbInv
  <2>2. /\ op.pc = "found" => op.key \in saved
        /\ op.pc = "absent" => op.key \in Key \ saved
        /\ op.pc = "listed" => Visited = saved /\ Ascending
    BY <2>1 DEF HeapInv
  <2> QED BY <2>2 DEF SavedIsAlwaysFound, Steps, Visited, Ascending
<1> QED BY <1>1, AcdbInvariant, PTL

\* Until then the tree is also level between calls, with the true depths in its nodes.
THEOREM LookupsStayShort == AcdbSpec => []LookupsAreShort
<1>1. AcdbInv => LookupsAreShort
  <2> SUFFICES ASSUME AcdbInv, ~ moved, op.pc \notin {"depths", "balance"}, NEW x \in saved
               PROVE  LET l == Depth(tree, tree.child[Left][x])
                          r == Depth(tree, tree.child[Right][x])
                      IN tree.depth[x] = 1 + Deeper(l, r) /\ l - r \in -1 .. 1
    BY DEF LookupsAreShort
  <2>1. PICK under, h, old : HeapInv(under, h, old)  BY DEF AcdbInv
  <2>2. /\ SearchTree(tree, saved, under) /\ HeightAt(tree, h, x) /\ LevelAt(tree, h, x)
        /\ \A y \in saved : tree.depth[y] = h[y]
    BY <2>1 DEF HeapInv, Changing, Heights, Level
  <2>3. tree \in Tree /\ saved \subseteq Key  BY DEF AcdbInv, AcdbTypeOK
  <2>4. \A s \in Side : Depth(tree, tree.child[s][x]) = High(h, tree.child[s][x])
    <3> SUFFICES ASSUME NEW s \in Side
                 PROVE  Depth(tree, tree.child[s][x]) = High(h, tree.child[s][x])
      OBVIOUS
    <3>1. ChildOf(tree, saved, under, x, s)  BY <2>2, <2>3, ChildFacts
    <3>2. tree.child[s][x] # Null => tree.child[s][x] \in saved  BY <3>1 DEF ChildOf
    <3> QED BY <2>2, <3>2, DepthIsHigh
  <2> QED BY <2>2, <2>4, SideFacts DEF HeightAt, LevelAt
<1> QED BY <1>1, AcdbInvariant, PTL

\* Until then every rotation is given a node that is out of balance, the child on its
\* heavy side and a child of that: the loop of acdb_heap_insert always goes on.
THEOREM RotationsGetTheirNodes == AcdbSpec => []RotationsFit
<1>1. AcdbInv => RotationsFit
  <2> SUFFICES ASSUME AcdbInv, ~ moved, op.pc = "balance", op.at # Null
               PROVE  /\ op.below # Null
                      /\ ~ IsBalanced(tree, op.at) =>
                           /\ tree.parent[op.below] # Null
                           /\ tree.parent[tree.parent[op.below]] = op.at
                           /\ tree.child[HeavySide(tree, op.at)][op.at] = tree.parent[op.below]
    BY DEF RotationsFit, Steps
  <2>1. PICK under, h, old : HeapInv(under, h, old)  BY DEF AcdbInv
  <2>2. /\ SearchTree(tree, saved, under) /\ Heights(tree, saved, h)
        /\ op.key \in saved /\ op.below \in saved
        /\ Growing(under, h, old) \/ Settled(under, h)
        /\ \A y \in saved : tree.depth[y] = h[y]
    BY <2>1 DEF HeapInv, Changing
  <2>3. AcdbTypeOK /\ tree \in Tree /\ saved \subseteq Key  BY DEF AcdbInv, AcdbTypeOK
  <2>4. op.below # Null  BY <2>2, <2>3, NullIsNoKey
  <2>5. ASSUME ~ IsBalanced(tree, op.at)
        PROVE  HeavyPath(under, h, old, HeavySide(tree, op.at), tree.parent[op.below])
    <3>1. CASE Growing(under, h, old)  BY <2>2, <2>3, <2>5, <3>1, HeavyFacts
    <3>2. CASE Settled(under, h)
      <4>1. op.at \in saved /\ LevelAt(tree, h, op.at)  BY <3>2 DEF Settled, Level
      <4>2. h \in [Key -> Nat]  BY <2>2 DEF Heights
      <4>3. IsBalanced(tree, op.at)  BY <2>2, <2>3, <4>1, <4>2, BalancedIsLevel
      <4> QED BY <2>5, <4>3
    <3> QED BY <2>2, <3>1, <3>2
  <2>6. ASSUME ~ IsBalanced(tree, op.at)
        PROVE  /\ tree.parent[op.below] # Null
               /\ tree.parent[tree.parent[op.below]] = op.at
               /\ tree.child[HeavySide(tree, op.at)][op.at] = tree.parent[op.below]
    <3>1. PICK b, side : b = tree.parent[op.below] /\ side = HeavySide(tree, op.at)
      OBVIOUS
    <3>2. /\ op.at \in saved /\ side \in Side /\ b = tree.child[side][op.at] /\ b # Null
      BY <2>5, <2>6, <3>1 DEF HeavyPath
    <3>3. tree.parent[b] = op.at  BY <2>2, <3>2 DEF SearchTree, Downward
    <3> QED BY <3>1, <3>2, <3>3
  <2> QED BY <2>4, <2>6
<1> QED BY <1>1, AcdbInvariant, PTL
=============================================================================
