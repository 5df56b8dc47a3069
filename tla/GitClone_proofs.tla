--------------------------- MODULE GitClone_proofs ---------------------------
(***************************************************************************)
(* What holds of any number of clones of any repositories at the same      *)
(* time: what they share never mixes them up.                              *)
(***************************************************************************)
EXTENDS GitClone, Paths_proofs

Frame == [url : Url, next : Nat \ {0}, left : 0 .. MaxDepth]

(* The nesting a clone that updates submodules is in.                      *)
StackInv == \A c \in Clones : pc[c] = "submodules" => stack[c] # <<>>

(* The step before the dialer is stored takes the token.                   *)
StoringInv == \A c \in Clones : pc[c] = "storing" => token[c] # 0

TypeInv == GitTypeOK /\ StackInv /\ StoringInv

(* A token is one clone's, from when it is taken to the release, and the   *)
(* table is that of the clones that have stored their dialer.              *)
Holding == {"storing", "cloning", "submodules", "leaving", "failing"}
TokensInv ==
    /\ \A c, d \in Clones : token[c] = token[d] /\ token[c] # 0 => c = d
    /\ \A c \in Clones : token[c] # 0 => pc[c] \in Holding
    /\ \A c \in Clones : token[c] # 0 /\ pc[c] # "storing" => token[c] \in DOMAIN dialers
    /\ \A t \in DOMAIN dialers : \E c \in Clones :
         token[c] = t /\ pc[c] # "storing" /\ dialers[t] = job[c].dial

(* The way a clone has come: a dialer is set before the protocols are      *)
(* waited for, and over ssh a token was taken before the first connection. *)
OnTheWay == {"http", "ssh", "numbering", "storing", "cloning"}
RouteInv ==
    /\ \A c \in Clones : pc[c] = "http" => Policy(c)
    /\ \A c \in Clones : pc[c] \in {"ssh", "numbering", "storing"} => Policy(c) /\ SSH(c)
    /\ \A c \in Clones : pc[c] = "cloning" /\ SSH(c) /\ Policy(c) => token[c] # 0

(* The protocols are installed before anything is opened through them.     *)
Prepared == (OnTheWay \cup {"submodules"}) \ {"http"}
OnceInv == \A c \in Clones : Policy(c) /\ pc[c] \in Prepared => once["http"] = "done"

(* What a clone was handed fits what it is about to open.                  *)
FitsInv ==
    \A c \in Clones : pc[c] \in OnTheWay => ~Refuses(job[c], job[c].url, job[c].cred)

OpenedInv ==
    /\ opened = [c \in Clones |-> opened[c]]
    /\ OwnDialer
    /\ OwnCredentials


-----------------------------------------------------------------------------
(* Frames.                                                                 *)

LEMMA TopIsFrame ==
    ASSUME NEW s \in Seq(Frame), s # <<>>
    PROVE  s[Len(s)] \in Frame
<1>1. \A len \in Nat \ {0} : len \in 1 .. len
  OBVIOUS
<1>2. Len(s) \in Nat \ {0}
  BY EmptySeq
<1>3. Len(s) \in 1 .. Len(s)
  BY <1>1, <1>2, Zenon
<1> QED BY <1>3, ElementOfSeq

(* A frame that is not through names a submodule.                          *)
LEMMA NextSubmodule ==
    ASSUME NEW f \in Frame, f.next <= Len(Subs[f.url])
    PROVE  /\ Subs[f.url][f.next] \in Url
           /\ f.left # 0 => f.left - 1 \in 0 .. MaxDepth
<1>1. /\ f.url \in Url /\ f.next \in Nat /\ 1 <= f.next
      /\ f.left \in 0 .. MaxDepth /\ MaxDepth \in Nat
  BY GitAssumption DEF Frame
<1>2. Subs[f.url] \in Seq(Url)
  BY <1>1, GitAssumption
<1>3. Len(Subs[f.url]) \in Nat
  BY <1>2, LenProperties
<1>4. f.next \in 1 .. Len(Subs[f.url])
  BY <1>1, <1>3
<1>5. Subs[f.url][f.next] \in Url
  BY <1>2, <1>4, ElementOfSeq
<1>6. f.left # 0 => f.left - 1 \in 0 .. MaxDepth
  BY <1>1
<1> QED BY <1>5, <1>6

LEMMA PushFrame ==
    ASSUME NEW s \in Seq(Frame), NEW u \in Url, NEW left \in 0 .. MaxDepth
    PROVE  /\ Append(s, [url |-> u, next |-> 1, left |-> left]) \in Seq(Frame)
           /\ Append(s, [url |-> u, next |-> 1, left |-> left]) # <<>>
<1>1. [url |-> u, next |-> 1, left |-> left] \in Frame
  BY DEF Frame
<1> QED BY <1>1

LEMMA PopFrame ==
    ASSUME NEW s \in Seq(Frame), Len(s) # 1, s # <<>>
    PROVE  /\ Resume(SubSeq(s, 1, Len(s) - 1)) \in Seq(Frame)
           /\ Resume(SubSeq(s, 1, Len(s) - 1)) # <<>>
<1>1. PICK n \in Nat \ {0} : n = Len(s) - 1
  <2>1. \A len \in Nat \ {0} : len # 1 => len - 1 \in Nat \ {0}
    OBVIOUS
  <2>2. Len(s) \in Nat \ {0}
    BY EmptySeq
  <2> QED BY <2>1, <2>2, Zenon
<1>2. PICK t : t = SubSeq(s, 1, n)
  OBVIOUS
<1>3. t \in Seq(Frame) /\ Len(t) = n
  <2>1. PICK len \in Nat : len = Len(s) /\ len - 1 = n
    BY <1>1, LenProperties, Zenon
  <2>2. \A i \in 1 .. n : i \in 1 .. len
    BY <1>1, <2>1
  <2>3. \A i \in 1 .. n : s[i] \in Frame
    BY <2>1, <2>2, ElementOfSeq
  <2>4. 1 \in Int /\ n \in Int /\ 1 <= n /\ n - 1 + 1 = n
    BY <1>1
  <2>5. t \in Seq(Frame) /\ Len(t) = IF 1 <= n THEN n - 1 + 1 ELSE 0
    BY <1>2, <2>3, <2>4, SubSeqProperties, ZenonT(30)
  <2> QED BY <2>4, <2>5, Zenon
<1>4. n \in 1 .. Len(t) /\ t[n] \in Frame
  BY <1>3, ElementOfSeq
<1>5. [t[n] EXCEPT !.next = t[n].next + 1] \in Frame
  <2>1. PICK f \in Frame : f = t[n]
    BY <1>4
  <2>2. f.next \in Nat \ {0}
    BY DEF Frame
  <2>3. f.next + 1 \in Nat \ {0}
    BY <2>2
  <2> QED BY <2>1, <2>3 DEF Frame
<1>6. Resume(t) = [t EXCEPT ![n] = [t[n] EXCEPT !.next = t[n].next + 1]]
  BY <1>3, <1>4 DEF Resume
<1>7. Resume(t) \in Seq(Frame) /\ Len(Resume(t)) = n
  BY <1>3, <1>4, <1>5, <1>6, ExceptSeq
<1>8. Resume(t) # <<>>
  BY <1>7, EmptySeq
<1> QED BY <1>1, <1>2, <1>7, <1>8

-----------------------------------------------------------------------------
(* Types.                                                                  *)

LEMMA InitType == Init => TypeInv
<1> SUFFICES ASSUME Init PROVE TypeInv
  OBVIOUS
<1>1. stack \in [Clones -> Seq(Frame)]
  BY EmptySeq DEF Init
<1>2. StackInv /\ StoringInv
  BY DEF Init, StackInv, StoringInv
<1>3. pc \in [Clones -> Places] /\ once \in [Onces -> {"new", "done"} \cup Clones]
  BY DEF Init, Places
<1>4. seq = 0 /\ DOMAIN dialers = {} /\ token \in [Clones -> 0 .. 0]
  BY DEF Init
<1> QED BY <1>1, <1>2, <1>3, <1>4 DEF Init, TypeInv, GitTypeOK, Frame

(* A clone that moves on is where it went, and the others where they were. *)
LEMMA GotoMoves ==
    ASSUME TypeInv, NEW c \in Clones, NEW place \in Places, Goto(c, place)
    PROVE  /\ pc' \in [Clones -> Places]
           /\ pc'[c] = place
           /\ \A d \in Clones : d # c => pc'[d] = pc[d]
BY DEF TypeInv, GitTypeOK, Goto

LEMMA MoveKeepsShape ==
    ASSUME TypeInv, NEW c \in Clones, NEW place \in Places \ {"submodules", "storing"},
           Goto(c, place),
           \A d \in Clones : d # c => stack'[d] = stack[d] /\ token'[d] = token[d]
    PROVE  pc' \in [Clones -> Places] /\ StackInv' /\ StoringInv'
<1>1. place \in Places /\ place # "submodules" /\ place # "storing"
  OBVIOUS
<1>2. /\ pc' \in [Clones -> Places]
      /\ pc'[c] = place
      /\ \A d \in Clones : d # c => pc'[d] = pc[d]
  BY <1>1, GotoMoves
<1>3. StackInv'
  BY <1>1, <1>2 DEF StackInv, TypeInv
<1>4. StoringInv'
  BY <1>1, <1>2 DEF StoringInv, TypeInv
<1> QED BY <1>2, <1>3, <1>4

(* The steps that move one clone on and touch no stack.                    *)
LEMMA PrepareType ==
    ASSUME TypeInv, NEW c \in Clones,
           \/ Start(c) \/ TakeToken(c) \/ StoreDialer(c) \/ Release(c)
           \/ \E o \in Onces : OnceBegins(c, o) \/ OnceEnds(c, o) \/ OncePassed(c, o)
    PROVE  TypeInv'
<1>1. CASE Start(c)
  <2>1. PICK place \in {"archive", "failed", "http", "cloning"} : Goto(c, place)
    BY <1>1 DEF Start
  <2>2. place \in Places \ {"submodules", "storing"}
    BY DEF Places
  <2>3. UNCHANGED <<job, once, seq, dialers, token, stack, store>>
    BY <1>1 DEF Start, shared
  <2> QED BY <2>1, <2>2, <2>3, MoveKeepsShape DEF TypeInv, GitTypeOK
<1>2. CASE TakeToken(c)
  <2>1. /\ pc' \in [Clones -> Places]
        /\ pc'[c] = "storing"
        /\ \A d \in Clones : d # c => pc'[d] = pc[d]
    BY <1>2, GotoMoves DEF TakeToken, Places
  <2>2. /\ seq' \in Nat
        /\ token' \in [Clones -> 0 .. seq']
        /\ DOMAIN dialers' \subseteq 1 .. seq'
        /\ token'[c] # 0
        /\ \A d \in Clones : d # c => token'[d] = token[d]
    BY <1>2 DEF TakeToken, TypeInv, GitTypeOK
  <2>3. UNCHANGED <<job, once, stack, store>>
    BY <1>2 DEF TakeToken
  <2>4. StackInv' /\ StoringInv'
    BY <2>1, <2>2, <2>3 DEF StackInv, StoringInv, TypeInv
  <2> QED BY <2>1, <2>2, <2>3, <2>4 DEF TypeInv, GitTypeOK
<1>3. CASE StoreDialer(c)
  <2>1. pc' \in [Clones -> Places] /\ StackInv' /\ StoringInv'
    BY <1>3, MoveKeepsShape DEF StoreDialer, Places
  <2>2. token[c] \in 1 .. seq
    BY <1>3 DEF StoreDialer, StoringInv, TypeInv, GitTypeOK
  <2>3. DOMAIN dialers' \subseteq 1 .. seq
    BY <1>3, <2>2 DEF StoreDialer, TypeInv, GitTypeOK
  <2> QED BY <1>3, <2>1, <2>3 DEF StoreDialer, TypeInv, GitTypeOK
<1>4. CASE Release(c)
  <2>1. PICK place \in {"done", "failed"} : Goto(c, place)
    BY <1>4 DEF Release
  <2>2. /\ token' \in [Clones -> 0 .. seq]
        /\ \A d \in Clones : d # c => token'[d] = token[d] /\ stack'[d] = stack[d]
    BY <1>4 DEF Release, TypeInv, GitTypeOK
  <2>3. pc' \in [Clones -> Places] /\ StackInv' /\ StoringInv'
    BY <2>1, <2>2, MoveKeepsShape DEF Places
  <2>4. DOMAIN dialers' \subseteq 1 .. seq
    BY <1>4 DEF Release, TypeInv, GitTypeOK
  <2> QED BY <1>4, <2>2, <2>3, <2>4 DEF Release, TypeInv, GitTypeOK
<1>5. ASSUME NEW o \in Onces, OnceBegins(c, o) \/ OnceEnds(c, o) PROVE TypeInv'
  <2>1. UNCHANGED <<job, pc, seq, dialers, token, stack, store>>
    BY <1>5 DEF OnceBegins, OnceEnds, own
  <2>2. once' \in [Onces -> {"new", "done"} \cup Clones]
    BY <1>5 DEF OnceBegins, OnceEnds, TypeInv, GitTypeOK
  <2> QED BY <2>1, <2>2 DEF TypeInv, GitTypeOK, StackInv, StoringInv
<1>6. ASSUME NEW o \in Onces, OncePassed(c, o) PROVE TypeInv'
  <2>1. PICK place \in {"numbering", "ssh", "cloning"} : Goto(c, place)
    BY <1>6 DEF OncePassed
  <2>2. place \in Places \ {"submodules", "storing"}
    BY DEF Places
  <2>3. UNCHANGED <<job, once, seq, dialers, token, stack, store>>
    BY <1>6 DEF OncePassed, shared
  <2> QED BY <2>1, <2>2, <2>3, MoveKeepsShape DEF TypeInv, GitTypeOK
<1> QED BY <1>1, <1>2, <1>3, <1>4, <1>5, <1>6

(* The steps of updateSubmodules: the one stack that changes stays a stack *)
(* of frames, and is not empty while there is something to return to.      *)
LEMMA StackKeepsType ==
    ASSUME TypeInv, NEW c \in Clones, NEW frames \in Seq(Frame), frames # <<>>,
           stack' = [stack EXCEPT ![c] = frames],
           pc' = pc \/ Goto(c, "submodules"),
           UNCHANGED <<job, shared, token>>
    PROVE  TypeInv'
<1>1. stack' \in [Clones -> Seq(Frame)]
  BY DEF TypeInv, GitTypeOK, Frame
<1>2. /\ pc' \in [Clones -> Places]
      /\ pc'[c] \in {pc[c], "submodules"}
      /\ \A d \in Clones : d # c => pc'[d] = pc[d]
  <2>1. CASE pc' = pc
    BY <2>1 DEF TypeInv, GitTypeOK
  <2>2. CASE Goto(c, "submodules")
    BY <2>2, GotoMoves DEF Places
  <2> QED BY <2>1, <2>2
<1>3. StackInv'
  BY <1>2 DEF TypeInv, GitTypeOK, StackInv
<1>4. StoringInv'
  BY <1>2 DEF TypeInv, StoringInv
<1> QED BY <1>1, <1>2, <1>3, <1>4 DEF TypeInv, GitTypeOK, Frame, shared

LEMMA CloneType ==
    ASSUME TypeInv, NEW c \in Clones,
           \/ CloneRepo(c) \/ RefuseDepth(c) \/ RefuseSubmodule(c)
           \/ UpdateSubmodule(c) \/ ReturnFromSubmodules(c)
    PROVE  TypeInv'
<1> DEFINE Moves(place) == Goto(c, place) /\ UNCHANGED <<job, shared, token, stack>>
<1>1. ASSUME NEW place \in {"failing", "leaving"}, Moves(place) PROVE TypeInv'
  <2>1. place \in Places \ {"submodules", "storing"}
    BY DEF Places
  <2>2. UNCHANGED <<job, once, seq, dialers, token, stack, store>>
    BY <1>1 DEF shared
  <2> QED BY <1>1, <2>1, <2>2, MoveKeepsShape DEF TypeInv, GitTypeOK
<1>2. stack[c] \in Seq(Frame) /\ job[c].url \in Url /\ MaxDepth \in 0 .. MaxDepth
  <2>1. stack[c] \in Seq(Frame)
    BY DEF TypeInv, GitTypeOK, Frame
  <2>2. job[c] \in Jobs
    BY DEF TypeInv, GitTypeOK
  <2>3. job[c].url \in Url
    BY <2>2, GitAssumption DEF IsJob
  <2>4. MaxDepth \in 0 .. MaxDepth
    BY GitAssumption
  <2> QED BY <2>1, <2>3, <2>4
<1>3. CASE CloneRepo(c)
  <2>1. CASE Goto(c, "failing") /\ UNCHANGED stack
    BY <1>1, <1>3, <2>1 DEF CloneRepo
  <2>2. CASE /\ Goto(c, "submodules")
             /\ stack' = [stack EXCEPT ![c] = <<[url |-> job[c].url, next |-> 1, left |-> MaxDepth]>>]
    <3>1. [url |-> job[c].url, next |-> 1, left |-> MaxDepth] \in Frame
      BY <1>2 DEF Frame
    <3>2. /\ <<[url |-> job[c].url, next |-> 1, left |-> MaxDepth]>> \in Seq(Frame)
          /\ <<[url |-> job[c].url, next |-> 1, left |-> MaxDepth]>> # <<>>
      BY <3>1
    <3> QED BY <1>3, <2>2, <3>2, StackKeepsType DEF CloneRepo
  <2> QED BY <1>3, <2>1, <2>2 DEF CloneRepo, Fetched
<1>4. CASE RefuseDepth(c) \/ RefuseSubmodule(c)
  BY <1>1, <1>4 DEF RefuseDepth, RefuseSubmodule
<1>5. CASE UpdateSubmodule(c)
  <2>1. CASE Goto(c, "failing") /\ UNCHANGED stack
    BY <1>1, <1>5, <2>1 DEF UpdateSubmodule
  <2>2. CASE /\ UNCHANGED pc
             /\ stack' = [stack EXCEPT ![c] =
                   Append(@, [url |-> SubmoduleUrl(c), next |-> 1, left |-> Top(c).left - 1])]
    <3>1. stack[c] # <<>>
      BY <1>5 DEF UpdateSubmodule, TypeInv, StackInv
    <3>2. Top(c) \in Frame
      BY <1>2, <3>1, TopIsFrame DEF Top
    <3>3. SubmoduleUrl(c) \in Url /\ Top(c).left - 1 \in 0 .. MaxDepth
      BY <1>5, <3>2, NextSubmodule DEF UpdateSubmodule, SubmoduleUrl, TooDeep
    <3> QED BY <1>2, <1>5, <2>2, <3>3, PushFrame, StackKeepsType DEF UpdateSubmodule
  <2> QED BY <1>5, <2>1, <2>2 DEF UpdateSubmodule
<1>6. CASE ReturnFromSubmodules(c)
  <2>1. CASE Len(stack[c]) = 1
    BY <1>1, <1>6, <2>1 DEF ReturnFromSubmodules
  <2>2. CASE Len(stack[c]) # 1
    <3>1. stack[c] # <<>>
      BY <1>6 DEF ReturnFromSubmodules, TypeInv, StackInv
    <3>2. stack' = [stack EXCEPT ![c] = Resume(SubSeq(stack[c], 1, Len(stack[c]) - 1))]
      BY <1>6, <2>2 DEF ReturnFromSubmodules
    <3> QED BY <1>2, <1>6, <2>2, <3>1, <3>2, PopFrame, StackKeepsType DEF ReturnFromSubmodules
  <2> QED BY <2>1, <2>2
<1> QED BY <1>3, <1>4, <1>5, <1>6

LEMMA ArchiveType ==
    ASSUME TypeInv, NEW c \in Clones,
           \/ ResolveLocally(c) \/ FetchExact(c) \/ FetchAll(c) \/ ResolveAgain(c) \/ GiveUp(c)
    PROVE  TypeInv'
<1> DEFINE Away == {"done", "fetching", "again", "fetching all", "failed", "unknown"}
<1>1. PICK place \in Away : Goto(c, place)
  BY DEF ResolveLocally, FetchExact, FetchAll, ResolveAgain, GiveUp
<1>2. place \in Places \ {"submodules", "storing"}
  BY DEF Places
<1>3. UNCHANGED <<job, once, seq, dialers, token, stack>>
  BY DEF ResolveLocally, FetchExact, FetchAll, ResolveAgain, GiveUp, shared
<1>4. store' \subseteq Ref
  <2>1. job[c].ref \in Ref
    BY GitAssumption DEF TypeInv, GitTypeOK, IsJob
  <2> QED BY <2>1 DEF ResolveLocally, FetchExact, FetchAll, ResolveAgain, GiveUp, shared, Brings,
            TypeInv, GitTypeOK
<1> QED BY <1>1, <1>2, <1>3, <1>4, MoveKeepsShape DEF TypeInv, GitTypeOK

(* Whatever clones there are and whatever they are asked, the state is     *)
(* well formed: no clone nests its submodules deeper than the bound.       *)
THEOREM GitTypeCorrect == Spec => []GitTypeOK
<1>1. TypeInv /\ [Next]_vars => TypeInv'
  <2> SUFFICES ASSUME TypeInv, [Next]_vars PROVE TypeInv'
    OBVIOUS
  <2>1. CASE UNCHANGED vars
    BY <2>1 DEF vars, shared, own, TypeInv, GitTypeOK, StackInv, StoringInv
  <2>2. ASSUME NEW c \in Clones, Step(c) PROVE TypeInv'
    BY <2>2, PrepareType, CloneType, ArchiveType DEF Step
  <2> QED BY <2>1, <2>2 DEF Next
<1>2. TypeInv => GitTypeOK
  BY DEF TypeInv
<1> QED BY InitType, <1>1, <1>2, PTL DEF Spec

-----------------------------------------------------------------------------
(* The table of dialers.                                                   *)

(* How a step takes a clone to a place on the way to the first connection. *)
Leads(c, from, to) ==
    \/ from = to
    \/ to \notin OnTheWay \cup {"submodules"}
    \/ from = "start" /\ to = IF Policy(c) THEN "http" ELSE "cloning"
    \/ from = "http" /\ to = IF SSH(c) THEN "ssh" ELSE "cloning"
    \/ <<from, to>> \in {<<"ssh", "numbering">>, <<"numbering", "storing">>,
                         <<"storing", "cloning">>, <<"cloning", "submodules">>}

LEMMA StepMoves ==
    ASSUME TypeInv, NEW c \in Clones, Step(c)
    PROVE  /\ UNCHANGED job
           /\ \A d \in Clones : d # c => pc'[d] = pc[d]
           /\ Leads(c, pc[c], pc'[c])
<1>1. ASSUME UNCHANGED <<job, pc>>
      PROVE  /\ \A d \in Clones : d # c => pc'[d] = pc[d]
             /\ Leads(c, pc[c], pc'[c])
  BY <1>1 DEF Leads
<1>2. ASSUME NEW place \in Places, Goto(c, place), Leads(c, pc[c], place)
      PROVE  /\ \A d \in Clones : d # c => pc'[d] = pc[d]
             /\ Leads(c, pc[c], pc'[c])
  BY <1>2, GotoMoves
<1>3. UNCHANGED job
  BY DEF Step, Start, TakeToken, StoreDialer, CloneRepo, Release, OnceBegins, OnceEnds, OncePassed,
         RefuseDepth, RefuseSubmodule, UpdateSubmodule, ReturnFromSubmodules, ResolveLocally,
         FetchExact, FetchAll, ResolveAgain, GiveUp
<1>4. CASE Start(c)
  <2>1. PICK place \in {"archive", "failed", IF Policy(c) THEN "http" ELSE "cloning"} : Goto(c, place)
    BY <1>4 DEF Start
  <2>2. place \in Places /\ Leads(c, pc[c], place)
    BY <1>4 DEF Start, Leads, OnTheWay, Places
  <2> QED BY <1>2, <1>3, <2>1, <2>2
<1>5. CASE TakeToken(c) \/ StoreDialer(c)
  BY <1>2, <1>3, <1>5 DEF TakeToken, StoreDialer, Leads, Places
<1>6. CASE Release(c)
  <2>1. PICK place \in {"done", "failed"} : Goto(c, place)
    BY <1>6 DEF Release
  <2> QED BY <1>2, <1>3, <2>1 DEF Leads, OnTheWay, Places
<1>7. ASSUME NEW o \in Onces, OnceBegins(c, o) \/ OnceEnds(c, o) PROVE UNCHANGED pc
  BY <1>7 DEF OnceBegins, OnceEnds, own
<1>8. ASSUME NEW o \in Onces, OncePassed(c, o)
      PROVE  \E place \in Places : Goto(c, place) /\ Leads(c, pc[c], place)
  <2>1. CASE o = "ssh"
    BY <1>8, <2>1 DEF OncePassed, Leads, Places
  <2>2. CASE o = "http"
    BY <1>8, <2>2 DEF OncePassed, Leads, Places
  <2> QED BY <2>1, <2>2 DEF Onces
<1>9. CASE CloneRepo(c)
  <2>1. PICK place \in {"failing", "submodules"} : Goto(c, place)
    BY <1>9 DEF CloneRepo, Fetched
  <2>2. place \in Places /\ Leads(c, pc[c], place)
    BY <1>9 DEF CloneRepo, Leads, OnTheWay, Places
  <2> QED BY <1>2, <1>3, <2>1, <2>2
<1>10. CASE RefuseDepth(c) \/ RefuseSubmodule(c)
  BY <1>2, <1>3, <1>10 DEF RefuseDepth, RefuseSubmodule, Leads, OnTheWay, Places
<1>11. CASE UpdateSubmodule(c) \/ ReturnFromSubmodules(c)
  <2>1. UNCHANGED pc \/ \E place \in {"failing", "leaving"} : Goto(c, place)
    BY <1>11 DEF UpdateSubmodule, ReturnFromSubmodules
  <2> QED BY <1>1, <1>2, <1>3, <2>1 DEF Leads, OnTheWay, Places
<1>12. CASE ResolveLocally(c) \/ FetchExact(c) \/ FetchAll(c) \/ ResolveAgain(c) \/ GiveUp(c)
  <2>1. \E place \in {"done", "fetching", "again", "fetching all", "failed", "unknown"} : Goto(c, place)
    BY <1>12 DEF ResolveLocally, FetchExact, FetchAll, ResolveAgain, GiveUp
  <2> QED BY <1>2, <1>3, <2>1 DEF Leads, OnTheWay, Places
<1> QED BY <1>1, <1>2, <1>3, <1>4, <1>5, <1>6, <1>7, <1>8, <1>9, <1>10, <1>11, <1>12 DEF Step

(* The steps that leave tokens and table alone keep a clone that holds a   *)
(* token where one is held.                                                *)
LEMMA QuietStep ==
    ASSUME TypeInv, NEW c \in Clones, Step(c), ~TakeToken(c), ~StoreDialer(c), ~Release(c)
    PROVE  /\ UNCHANGED <<token, dialers>>
           /\ pc[c] = "storing" <=> pc'[c] = "storing"
           /\ pc[c] \in Holding => pc'[c] \in Holding
<1>1. UNCHANGED <<token, dialers>>
  BY DEF Step, Start, CloneRepo, OnceBegins, OnceEnds, OncePassed, RefuseDepth, RefuseSubmodule,
         UpdateSubmodule, ReturnFromSubmodules, ResolveLocally, FetchExact, FetchAll, ResolveAgain,
         GiveUp, shared, own
<1> DEFINE Quiet == /\ pc[c] = "storing" <=> pc'[c] = "storing"
                    /\ pc[c] \in Holding => pc'[c] \in Holding
<1>2. CASE UNCHANGED pc
  BY <1>1, <1>2
<1>3. ASSUME NEW place \in Places, Goto(c, place), pc[c] # "storing", place # "storing",
             pc[c] \in Holding => place \in Holding
      PROVE  Quiet
  BY <1>3, GotoMoves
<1>4. CASE Start(c)
  <2>1. PICK place \in {"archive", "failed", "http", "cloning"} : Goto(c, place)
    BY <1>4 DEF Start
  <2> QED BY <1>1, <1>3, <1>4, <2>1 DEF Start, Places, Holding
<1>5. ASSUME NEW o \in Onces, OnceBegins(c, o) \/ OnceEnds(c, o) PROVE UNCHANGED pc
  BY <1>5 DEF OnceBegins, OnceEnds, own
<1>6. ASSUME NEW o \in Onces, OncePassed(c, o) PROVE Quiet
  <2>1. PICK place \in {"numbering", "ssh", "cloning"} : Goto(c, place)
    BY <1>6 DEF OncePassed
  <2> QED BY <1>3, <1>6, <2>1 DEF OncePassed, Onces, Places, Holding
<1>7. CASE CloneRepo(c)
  <2>1. PICK place \in {"failing", "submodules"} : Goto(c, place)
    BY <1>7 DEF CloneRepo, Fetched
  <2> QED BY <1>1, <1>3, <1>7, <2>1 DEF CloneRepo, Places, Holding
<1>8. CASE RefuseDepth(c) \/ RefuseSubmodule(c)
  BY <1>1, <1>3, <1>8 DEF RefuseDepth, RefuseSubmodule, Places, Holding
<1>9. CASE UpdateSubmodule(c) \/ ReturnFromSubmodules(c)
  <2>1. pc[c] = "submodules" /\ (UNCHANGED pc \/ \E place \in {"failing", "leaving"} : Goto(c, place))
    BY <1>9 DEF UpdateSubmodule, ReturnFromSubmodules
  <2> QED BY <1>1, <1>2, <1>3, <2>1 DEF Places, Holding
<1>10. CASE ResolveLocally(c) \/ FetchExact(c) \/ FetchAll(c) \/ ResolveAgain(c) \/ GiveUp(c)
  <2>1. /\ pc[c] \in {"archive", "fetching", "fetching all", "again", "unknown"}
        /\ \E place \in {"done", "fetching", "again", "fetching all", "failed", "unknown"} : Goto(c, place)
    BY <1>10 DEF ResolveLocally, FetchExact, FetchAll, ResolveAgain, GiveUp
  <2> QED BY <1>1, <1>3, <2>1 DEF Places, Holding
<1> QED BY <1>1, <1>2, <1>4, <1>5, <1>6, <1>7, <1>8, <1>9, <1>10 DEF Step

LEMMA TokensStep ==
    ASSUME TypeInv, TokensInv, NEW c \in Clones, Step(c)
    PROVE  TokensInv'
<1> USE DEF TokensInv
<1>1. /\ UNCHANGED job
      /\ \A d \in Clones : d # c => pc'[d] = pc[d]
  BY StepMoves
<1>2. /\ token \in [Clones -> 0 .. seq] /\ seq \in Nat
      /\ DOMAIN dialers \subseteq 1 .. seq
  BY DEF TypeInv, GitTypeOK
<1>3. CASE ~TakeToken(c) /\ ~StoreDialer(c) /\ ~Release(c)
  BY <1>1, <1>3, QuietStep
<1>4. CASE TakeToken(c)
  <2>1. pc[c] = "numbering" /\ pc'[c] = "storing" /\ token[c] = 0
    BY <1>4, GotoMoves DEF TakeToken, Places, Holding
  <2>2. /\ token'[c] = seq + 1 /\ UNCHANGED dialers
        /\ \A d \in Clones : d # c => token'[d] = token[d]
    BY <1>2, <1>4 DEF TakeToken
  <2>3. \A d \in Clones : token[d] # seq + 1
    BY <1>2
  <2>4. \A d, e \in Clones : token'[d] = token'[e] /\ token'[d] # 0 => d = e
    BY <2>2, <2>3
  <2>5. \A d \in Clones : token'[d] # 0 => pc'[d] \in Holding
    BY <1>1, <2>1, <2>2 DEF Holding
  <2>6. \A d \in Clones : token'[d] # 0 /\ pc'[d] # "storing" => token'[d] \in DOMAIN dialers'
    BY <1>1, <2>1, <2>2
  <2>7. ASSUME NEW t \in DOMAIN dialers
        PROVE  \E d \in Clones : token'[d] = t /\ pc'[d] # "storing" /\ dialers[t] = job[d].dial
    <3>1. PICK d \in Clones : token[d] = t /\ pc[d] # "storing" /\ dialers[t] = job[d].dial
      OBVIOUS
    <3>2. d # c
      BY <1>2, <2>1, <3>1
    <3> QED BY <1>1, <2>2, <3>1, <3>2
  <2> QED BY <1>1, <2>2, <2>4, <2>5, <2>6, <2>7
<1>5. CASE StoreDialer(c)
  <2>1. /\ pc[c] = "storing" /\ pc'[c] = "cloning" /\ UNCHANGED token
        /\ DOMAIN dialers' = DOMAIN dialers \cup {token[c]}
        /\ dialers'[token[c]] = job[c].dial
        /\ \A t \in DOMAIN dialers : t # token[c] => dialers'[t] = dialers[t]
    BY <1>5, GotoMoves DEF StoreDialer, Places
  <2>2. \A d \in Clones : token'[d] # 0 => pc'[d] \in Holding
    BY <1>1, <2>1 DEF Holding
  <2>3. \A d \in Clones : token'[d] # 0 /\ pc'[d] # "storing" => token'[d] \in DOMAIN dialers'
    BY <1>1, <2>1
  <2>4. ASSUME NEW t \in DOMAIN dialers'
        PROVE  \E d \in Clones : token'[d] = t /\ pc'[d] # "storing" /\ dialers'[t] = job[d].dial
    <3>1. CASE t = token[c]
      BY <2>1, <3>1
    <3>2. CASE t # token[c]
      <4>1. PICK d \in Clones : token[d] = t /\ pc[d] # "storing" /\ dialers[t] = job[d].dial
        BY <2>1, <3>2
      <4> QED BY <1>1, <2>1, <3>2, <4>1
    <3> QED BY <3>1, <3>2
  <2> QED BY <1>1, <2>1, <2>2, <2>3, <2>4
<1>6. CASE Release(c)
  <2>1. PICK place \in {"done", "failed"} : Goto(c, place)
    BY <1>6 DEF Release
  <2>2. pc'[c] = place
    <3>1. place \in Places
      BY DEF Places
    <3> QED BY <2>1, <3>1, GotoMoves
  <2>3. /\ DOMAIN dialers' = DOMAIN dialers \ {token[c]}
        /\ \A t \in DOMAIN dialers' : dialers'[t] = dialers[t]
        /\ token'[c] = 0
        /\ \A d \in Clones : d # c => token'[d] = token[d]
    BY <1>2, <1>6 DEF Release
  <2>4. \A d \in Clones : token'[d] # 0 => d # c
    BY <2>3
  <2>5. \A d \in Clones : token'[d] # 0 /\ pc'[d] # "storing" => token'[d] \in DOMAIN dialers'
    BY <1>1, <2>3, <2>4
  <2>6. ASSUME NEW t \in DOMAIN dialers'
        PROVE  \E d \in Clones : token'[d] = t /\ pc'[d] # "storing" /\ dialers'[t] = job[d].dial
    <3>1. PICK d \in Clones : token[d] = t /\ pc[d] # "storing" /\ dialers[t] = job[d].dial
      BY <2>3
    <3>2. d # c
      BY <2>3, <3>1
    <3> QED BY <1>1, <2>3, <3>1, <3>2
  <2>7. \A d \in Clones : token'[d] # 0 => pc'[d] \in Holding
    BY <1>1, <2>3, <2>4
  <2>8. \A d, e \in Clones : token'[d] = token'[e] /\ token'[d] # 0 => d = e
    BY <2>3, <2>4
  <2> QED BY <1>1, <2>5, <2>6, <2>7, <2>8
<1> QED BY <1>3, <1>4, <1>5, <1>6

LEMMA RouteStep ==
    ASSUME TypeInv, RouteInv, NEW c \in Clones, Step(c)
    PROVE  RouteInv'
<1> USE DEF RouteInv
<1>1. /\ UNCHANGED job
      /\ \A d \in Clones : d # c => pc'[d] = pc[d]
      /\ Leads(c, pc[c], pc'[c])
  BY StepMoves
<1>2. \A d \in Clones : (Policy(d))' = Policy(d) /\ (SSH(d))' = SSH(d)
  BY <1>1 DEF Policy, SSH
<1>3. \A d \in Clones : pc'[d] = "http" => Policy(d)
  BY <1>1 DEF Leads, OnTheWay
<1>4. \A d \in Clones : pc'[d] \in {"ssh", "numbering", "storing"} => Policy(d) /\ SSH(d)
  BY <1>1 DEF Leads, OnTheWay
<1>5. /\ \A d \in Clones : d # c => token'[d] = token[d]
      /\ pc'[c] = "cloning" => token'[c] = token[c]
  <2>1. CASE TakeToken(c)
    BY <2>1, GotoMoves DEF TakeToken, Places, TypeInv, GitTypeOK
  <2>2. CASE StoreDialer(c)
    BY <2>2 DEF StoreDialer
  <2>3. CASE Release(c)
    <3>1. PICK place \in {"done", "failed"} : Goto(c, place)
      BY <2>3 DEF Release
    <3>2. place \in Places
      BY DEF Places
    <3> QED BY <2>3, <3>1, <3>2, GotoMoves DEF Release, TypeInv, GitTypeOK
  <2>4. CASE ~TakeToken(c) /\ ~StoreDialer(c) /\ ~Release(c)
    BY <2>4, QuietStep
  <2> QED BY <2>1, <2>2, <2>3, <2>4
<1>6. \A d \in Clones : pc'[d] = "cloning" /\ SSH(d) /\ Policy(d) => token'[d] # 0
  BY <1>1, <1>5 DEF Leads, OnTheWay, TypeInv, StoringInv
<1> QED BY <1>2, <1>3, <1>4, <1>6

(* Nobody passes the first Once before it is done, and it stays done.      *)
LEMMA OnceStep ==
    ASSUME TypeInv, OnceInv, NEW c \in Clones, Step(c)
    PROVE  OnceInv'
<1>1. /\ UNCHANGED job
      /\ \A d \in Clones : d # c => pc'[d] = pc[d]
      /\ Leads(c, pc[c], pc'[c])
  BY StepMoves
<1>2. \A d \in Clones : (Policy(d))' = Policy(d)
  BY <1>1 DEF Policy
<1>3. once["http"] = "done" => once'["http"] = "done"
  <2>1. UNCHANGED once \/ \E o \in Onces : OnceBegins(c, o) \/ OnceEnds(c, o)
    BY DEF Step, Start, TakeToken, StoreDialer, CloneRepo, Release, OncePassed, RefuseDepth,
           RefuseSubmodule, UpdateSubmodule, ReturnFromSubmodules, ResolveLocally, FetchExact,
           FetchAll, ResolveAgain, GiveUp, shared
  <2>2. ASSUME NEW o \in Onces, OnceBegins(c, o) PROVE once["http"] = "done" => once'["http"] = "done"
    BY <2>2 DEF OnceBegins, TypeInv, GitTypeOK
  <2>3. ASSUME NEW o \in Onces, OnceEnds(c, o) PROVE once["http"] = "done" => once'["http"] = "done"
    BY <2>3 DEF OnceEnds, TypeInv, GitTypeOK, Onces
  <2> QED BY <2>1, <2>2, <2>3
<1>4. pc[c] = "http" /\ pc'[c] # "http" => once["http"] = "done"
  <2> SUFFICES ASSUME pc[c] = "http", pc'[c] # "http" PROVE once["http"] = "done"
    OBVIOUS
  <2>1. \E o \in Onces : OnceBegins(c, o) \/ OnceEnds(c, o) \/ OncePassed(c, o)
    BY DEF Step, Start, TakeToken, StoreDialer, CloneRepo, Release, RefuseDepth, RefuseSubmodule,
           UpdateSubmodule, ReturnFromSubmodules, ResolveLocally, FetchExact, FetchAll,
           ResolveAgain, GiveUp
  <2> QED BY <2>1 DEF OnceBegins, OnceEnds, OncePassed, own
<1>5. Policy(c) /\ pc'[c] \in Prepared => once'["http"] = "done"
  BY <1>1, <1>3, <1>4 DEF OnceInv, Prepared, OnTheWay, Leads
<1> QED BY <1>1, <1>2, <1>3, <1>5 DEF OnceInv

LEMMA FitsStep ==
    ASSUME TypeInv, FitsInv, NEW c \in Clones, Step(c)
    PROVE  FitsInv'
<1>1. /\ UNCHANGED job
      /\ \A d \in Clones : d # c => pc'[d] = pc[d]
      /\ Leads(c, pc[c], pc'[c])
  BY StepMoves
<1>2. pc[c] = "start" /\ pc'[c] \in OnTheWay => ~Refuses(job[c], job[c].url, job[c].cred)
  <2> SUFFICES ASSUME pc[c] = "start", pc'[c] \in OnTheWay
               PROVE  ~Refuses(job[c], job[c].url, job[c].cred)
    OBVIOUS
  <2>1. pc'[c] # pc[c]
    BY DEF OnTheWay
  <2>2. Start(c)
    BY <2>1 DEF Step, OnceBegins, OnceEnds, OncePassed, TakeToken, StoreDialer, CloneRepo, Release,
           RefuseDepth, RefuseSubmodule, UpdateSubmodule, ReturnFromSubmodules, ResolveLocally,
           FetchExact, FetchAll, ResolveAgain, GiveUp, own, Onces
  <2>3. ASSUME NEW place \in {"archive", "failed"}, Goto(c, place) PROVE FALSE
    BY <2>3, GotoMoves DEF OnTheWay, Places
  <2> QED BY <2>2, <2>3 DEF Start
<1>3. pc'[c] \in OnTheWay => ~Refuses(job[c], job[c].url, job[c].cred)
  BY <1>1, <1>2 DEF FitsInv, Leads, OnTheWay
<1> QED BY <1>1, <1>3 DEF FitsInv

-----------------------------------------------------------------------------
(* What is opened.                                                         *)

(* A connection that keeps the promises may be added.                      *)
LEMMA OpensWell ==
    ASSUME TypeInv, OpenedInv, NEW c \in Clones, UNCHANGED job,
           NEW what, NEW u, NEW how, NEW by, NEW cred, Open(c, what, u, how, by, cred),
           /\ how # "kept"
           /\ what = "clone" \/ (what = "submodule" /\ Scheme[u] = "https")
           => by = job[c].dial,
           cred.for = u,
           cred.family \in {"key", "agent"} => Scheme[u] = "ssh",
           cred.family \in {"basic", "token"} => Scheme[u] # "ssh"
    PROVE  OpenedInv'
<1> DEFINE x == [what |-> what, url |-> u, how |-> how, by |-> by, cred |-> cred]
<1>1. /\ opened' = [d \in Clones |-> opened'[d]]
      /\ opened'[c] = opened[c] \cup {x}
      /\ \A d \in Clones : d # c => opened'[d] = opened[d]
  BY DEF OpenedInv, Open
<1>2. x.what = what /\ x.url = u /\ x.how = how /\ x.by = by /\ x.cred = cred
  OBVIOUS
<1> HIDE DEF x
<1>3. OwnDialer'
  BY <1>1, <1>2 DEF OwnDialer, OpenedInv
<1>4. OwnCredentials'
  BY <1>1, <1>2 DEF OwnCredentials, OpenedInv
<1> QED BY <1>1, <1>3, <1>4 DEF OpenedInv

(* What auth presents is for the URL and of a kind its protocol takes.     *)
LEMMA PresentedFits ==
    ASSUME NEW j \in Jobs, NEW u \in Url, NEW family \in Families, ~Refuses(j, u, family)
    PROVE  /\ Presented(u, family).for = u
           /\ Presented(u, family).family \in {"key", "agent"} => Scheme[u] = "ssh"
           /\ Presented(u, family).family \in {"basic", "token"} => Scheme[u] # "ssh"
<1>1. CASE family = "none"
  BY <1>1 DEF Presented
<1>2. CASE family # "none"
  <2>1. Presented(u, family) = [for |-> u, family |-> family]
    BY <1>2 DEF Presented
  <2>2. Accepts(u, family)
    BY <1>2 DEF Refuses
  <2> QED BY <2>1, <2>2 DEF Accepts
<1> QED BY <1>1, <1>2

(* A clone with a dialer is past the installation when it opens anything   *)
(* over http, so that a new connection is opened with its own.             *)
LEMMA HttpOpensWell ==
    ASSUME TypeInv, OnceInv, OpenedInv, NEW c \in Clones, UNCHANGED job,
           NEW what, NEW u, NEW dialer, NEW cred, OpenHttp(c, what, u, dialer, cred),
           what = "checkout" \/ (pc[c] \in Prepared /\ dialer = job[c].dial),
           what \in {"clone", "submodule", "checkout"},
           cred.for = u,
           cred.family \in {"key", "agent"} => Scheme[u] = "ssh",
           cred.family \in {"basic", "token"} => Scheme[u] # "ssh"
    PROVE  OpenedInv'
<1>1. CASE once["http"] # "done" /\ Open(c, what, u, "default", Direct, cred)
  <2>1. what # "checkout" => Direct = job[c].dial
    BY <1>1 DEF OnceInv, Policy
  <2> QED BY <1>1, <2>1, OpensWell
<1>2. CASE Open(c, what, u, "dialed", dialer, cred)
  BY <1>2, OpensWell
<1>3. ASSUME NEW d, Open(c, what, u, "kept", d, cred) PROVE OpenedInv'
  BY <1>3, OpensWell
<1> QED BY <1>1, <1>2, <1>3 DEF OpenHttp

(* And the one its token names is.                                         *)
LEMMA TokenIsOwn ==
    ASSUME TokensInv, NEW c \in Clones, token[c] # 0, token[c] \in DOMAIN dialers
    PROVE  dialers[token[c]] = job[c].dial
<1>1. PICK d \in Clones : token[d] = token[c] /\ dialers[token[c]] = job[d].dial
  BY DEF TokensInv
<1>2. d = c
  BY <1>1 DEF TokensInv
<1> QED BY <1>1, <1>2

LEMMA OpenedStep ==
    ASSUME TypeInv, TokensInv, RouteInv, OnceInv, FitsInv, OpenedInv, NEW c \in Clones, Step(c)
    PROVE  OpenedInv'
<1>1. UNCHANGED job
  BY StepMoves
<1>2. /\ job[c] \in Jobs
      /\ job[c].url \in Url /\ job[c].cred \in Families
      /\ job[c].finds \in [Url -> Families \cup {"error"}]
      /\ Scheme[job[c].url] # "file"
  <2>1. job[c] \in Jobs
    BY DEF TypeInv, GitTypeOK
  <2> QED BY <2>1, GitAssumption DEF IsJob
<1>3. CASE CloneRepo(c)
  <2> DEFINE cred == Presented(job[c].url, job[c].cred)
  <2>0. /\ cred.for = job[c].url
        /\ cred.family \in {"key", "agent"} => Scheme[job[c].url] = "ssh"
        /\ cred.family \in {"basic", "token"} => Scheme[job[c].url] # "ssh"
    <3>1. ~Refuses(job[c], job[c].url, job[c].cred)
      BY <1>3 DEF CloneRepo, FitsInv, OnTheWay
    <3> QED BY <1>2, <3>1, PresentedFits
  <2>1. ASSUME NEW by, Open(c, "clone", job[c].url, "ssh", by, cred), by = job[c].dial PROVE OpenedInv'
    <3> HIDE DEF cred
    <3> QED BY <1>1, <2>0, <2>1, OpensWell
  <2>2. CASE OpenHttp(c, "clone", job[c].url, job[c].dial, cred)
    <3>1. pc[c] \in Prepared
      BY <1>3 DEF CloneRepo, Prepared, OnTheWay
    <3> HIDE DEF cred
    <3> QED BY <1>1, <2>0, <2>2, <3>1, HttpOpensWell
  <2>3. CASE ~Policy(c) /\ Open(c, "clone", job[c].url, "ssh", Direct, cred)
    BY <2>1, <2>3 DEF Policy
  <2>4. CASE /\ SSH(c) /\ Policy(c) /\ token[c] \in DOMAIN dialers
             /\ Open(c, "clone", job[c].url, "ssh", dialers[token[c]], cred)
    <3>1. token[c] # 0
      BY <1>3, <2>4 DEF CloneRepo, RouteInv
    <3> QED BY <2>1, <2>4, <3>1, TokenIsOwn
  <2>5. CASE UNCHANGED opened
    BY <1>1, <2>5 DEF OpenedInv, OwnDialer, OwnCredentials
  <2> QED BY <1>3, <2>2, <2>3, <2>4, <2>5 DEF CloneRepo
<1>4. CASE UpdateSubmodule(c)
  <2> DEFINE u == SubmoduleUrl(c)
             found == job[c].finds[u]
  <2>1. u \in Url
    <3>1. stack[c] # <<>> /\ stack[c] \in Seq(Frame)
      BY <1>4 DEF UpdateSubmodule, TypeInv, GitTypeOK, StackInv, Frame
    <3>2. Top(c) \in Frame
      BY <3>1, TopIsFrame DEF Top
    <3> QED BY <1>4, <3>2, NextSubmodule DEF UpdateSubmodule, SubmoduleUrl
  <2>2. found \in Families /\ ~Refuses(job[c], u, found)
    BY <1>2, <1>4, <2>1 DEF UpdateSubmodule, SubmoduleRefused
  <2>3. pc[c] \in Prepared
    BY <1>4 DEF UpdateSubmodule, Prepared
  <2>4. \/ OpenHttp(c, "submodule", u, job[c].dial, Presented(u, found))
        \/ Scheme[u] # "https" /\ \E how : Open(c, "submodule", u, how, Direct, Presented(u, found))
    BY <1>4 DEF UpdateSubmodule, OpenSubmodule, SubmoduleCredential
  <2>5. /\ Presented(u, found).for = u
        /\ Presented(u, found).family \in {"key", "agent"} => Scheme[u] = "ssh"
        /\ Presented(u, found).family \in {"basic", "token"} => Scheme[u] # "ssh"
    BY <1>2, <2>1, <2>2, PresentedFits
  <2> HIDE DEF u, found
  <2>6. CASE OpenHttp(c, "submodule", u, job[c].dial, Presented(u, found))
    BY <1>1, <2>3, <2>5, <2>6, HttpOpensWell
  <2>7. ASSUME Scheme[u] # "https", NEW how, Open(c, "submodule", u, how, Direct, Presented(u, found))
        PROVE  OpenedInv'
    BY <1>1, <2>5, <2>7, OpensWell
  <2> QED BY <2>4, <2>6, <2>7
<1>5. CASE FetchExact(c) \/ FetchAll(c)
  <2> DEFINE cred == [for |-> job[c].url,
                      family |-> IF SSH(c) /\ job[c].agent THEN "agent" ELSE "none"]
  <2>1. \/ Open(c, "checkout", job[c].url, "ssh", Direct, cred)
        \/ OpenHttp(c, "checkout", job[c].url, Direct, cred)
    BY <1>5 DEF FetchExact, FetchAll, FetchOpens
  <2>2. /\ cred.for = job[c].url
        /\ cred.family \in {"key", "agent"} => Scheme[job[c].url] = "ssh"
        /\ cred.family \notin {"basic", "token"}
    BY DEF SSH
  <2> HIDE DEF cred
  <2> QED BY <1>1, <2>1, <2>2, OpensWell, HttpOpensWell
<1>6. CASE ~CloneRepo(c) /\ ~UpdateSubmodule(c) /\ ~FetchExact(c) /\ ~FetchAll(c)
  <2>1. UNCHANGED opened
    BY <1>6 DEF Step, Start, TakeToken, StoreDialer, Release, OnceBegins, OnceEnds, OncePassed,
           RefuseDepth, RefuseSubmodule, ReturnFromSubmodules, ResolveLocally, ResolveAgain, GiveUp, own
  <2> QED BY <1>1, <2>1 DEF OpenedInv, OwnDialer, OwnCredentials
<1> QED BY <1>3, <1>4, <1>5, <1>6

-----------------------------------------------------------------------------
(* The checkout's own refs.                                                *)

(* Asked again, the checkout has the ref or all that origin could bring.   *)
KnowsInv ==
    /\ \A c \in Clones : pc[c] = "again" => job[c].ref \in store \/ Brings \subseteq store
    /\ CheckoutKnowsPins

LEMMA KnowsStep ==
    ASSUME TypeInv, KnowsInv, NEW c \in Clones, Step(c)
    PROVE  KnowsInv'
<1>1. UNCHANGED job /\ \A d \in Clones : d # c => pc'[d] = pc[d]
  BY StepMoves
<1>2. store \subseteq store'
  BY DEF Step, Start, TakeToken, StoreDialer, CloneRepo, Release, OnceBegins, OnceEnds, OncePassed,
         RefuseDepth, RefuseSubmodule, UpdateSubmodule, ReturnFromSubmodules, ResolveLocally,
         FetchExact, FetchAll, ResolveAgain, GiveUp, shared
<1>3. CASE FetchExact(c)
  <2>1. pc'[c] = "fetching all" \/ (pc'[c] = "again" /\ job[c].ref \in store')
    BY <1>3, GotoMoves DEF FetchExact, Places
  <2> QED BY <1>1, <1>2, <2>1 DEF KnowsInv, CheckoutKnowsPins
<1>4. CASE FetchAll(c)
  <2>1. pc'[c] = "failed" \/ (pc'[c] = "again" /\ Brings \subseteq store')
    BY <1>4, GotoMoves DEF FetchAll, Places
  <2> QED BY <1>1, <1>2, <2>1 DEF KnowsInv, CheckoutKnowsPins
<1>5. CASE ResolveAgain(c)
  <2>1. pc'[c] = "done" \/ (pc'[c] = "unknown" /\ pc[c] = "again" /\ job[c].ref \notin store)
    BY <1>5, GotoMoves DEF ResolveAgain, Places
  <2>2. ASSUME pc[c] = "again", job[c].ref \notin store PROVE Kind[job[c].ref] \in {"branch", "absent"}
    <3>1. job[c].ref \notin Brings
      BY <2>2 DEF KnowsInv
    <3>2. job[c].ref \in Ref
      BY GitAssumption DEF TypeInv, GitTypeOK, IsJob
    <3>3. Kind[job[c].ref] \in {"commit", "tag", "branch", "absent"}
      BY <3>2, GitAssumption
    <3> QED BY <3>1, <3>2, <3>3 DEF Brings
  <2> QED BY <1>1, <1>2, <2>1, <2>2 DEF KnowsInv, CheckoutKnowsPins
<1>6. CASE ~FetchExact(c) /\ ~FetchAll(c) /\ ~ResolveAgain(c)
  <2>1. pc'[c] = pc[c] \/ pc'[c] \notin {"again", "unknown"}
    <3>1. UNCHANGED pc \/ \E place \in Places \ {"again", "unknown"} : Goto(c, place)
      BY <1>6 DEF Step, Start, TakeToken, StoreDialer, CloneRepo, Fetched, Release, OnceBegins,
             OnceEnds, OncePassed, RefuseDepth, RefuseSubmodule, UpdateSubmodule,
             ReturnFromSubmodules, ResolveLocally, GiveUp, own, Places
    <3> QED BY <3>1, GotoMoves
  <2> QED BY <1>1, <1>2, <2>1 DEF KnowsInv, CheckoutKnowsPins
<1> QED BY <1>3, <1>4, <1>5, <1>6

-----------------------------------------------------------------------------
(* Submodules, followed from the repository along a path.                  *)

(* The repository n steps along p: a recursive function of n, which exists *)
(* for every path, since nothing can be the first step it lacks.           *)
IsTrail(at, a, p, n) ==
    at = [i \in 0 .. n |-> IF i = 0 THEN a ELSE Subs[at[i - 1]][p[i]]]

LEMMA TrailExists ==
    ASSUME NEW a, NEW p, NEW n \in Nat
    PROVE  \E at : IsTrail(at, a, p, n)
<1> DEFINE Lacking == {m \in Nat : ~\E at : IsTrail(at, a, p, m)}
<1> SUFFICES ASSUME Lacking # {} PROVE FALSE
  OBVIOUS
<1>0. Lacking \subseteq Nat
  OBVIOUS
<1>1. PICK m \in Lacking : \A k \in Lacking : m <= k
  BY <1>0, LeastMember
<1> HIDE DEF Lacking
<1>2. m \in Nat /\ ~\E at : IsTrail(at, a, p, m)
  BY DEF Lacking
<1>3. m # 0
  <2>1. IsTrail([i \in 0 .. 0 |-> a], a, p, 0)
    BY DEF IsTrail
  <2> QED BY <1>2, <2>1
<1>4. PICK g : IsTrail(g, a, p, m - 1)
  <2>1. m - 1 \in Nat /\ ~(m <= m - 1)
    BY <1>2, <1>3
  <2> QED BY <1>1, <2>1 DEF Lacking
<1> DEFINE h == [i \in 0 .. m |-> IF i = m THEN Subs[g[m - 1]][p[m]] ELSE g[i]]
<1>5. ASSUME NEW i \in 0 .. m
      PROVE  h[i] = IF i = 0 THEN a ELSE Subs[h[i - 1]][p[i]]
  <2>1. CASE i = m
    BY <1>2, <1>3, <2>1
  <2>2. CASE i # m
    <3>1. i \in 0 .. m - 1 /\ (i # 0 => i - 1 \in 0 .. m /\ i - 1 # m)
      BY <1>2, <2>2
    <3>2. g[i] = IF i = 0 THEN a ELSE Subs[g[i - 1]][p[i]]
      BY <1>4, <3>1 DEF IsTrail
    <3> QED BY <2>2, <3>1, <3>2
  <2> QED BY <2>1, <2>2
<1> HIDE DEF h
<1>6. h = [i \in 0 .. m |-> h[i]]
  BY DEF h
<1>7. IsTrail(h, a, p, m)
  BY <1>5, <1>6 DEF IsTrail
<1> QED BY <1>2, <1>7

(* Two paths that begin alike lead to the same place so far.               *)
LEMMA TrailsAgree ==
    ASSUME NEW a, NEW p, NEW q, NEW n \in Nat, NEW m \in Nat, n <= m,
           NEW g, IsTrail(g, a, p, n), NEW h, IsTrail(h, a, q, m),
           \A i \in 1 .. n : p[i] = q[i]
    PROVE  \A i \in 0 .. n : g[i] = h[i]
<1> DEFINE Apart == {i \in 0 .. n : g[i] # h[i]}
<1> SUFFICES ASSUME Apart # {} PROVE FALSE
  OBVIOUS
<1>1. PICK k \in Apart : \A j \in Apart : k <= j
  <2>1. Apart \subseteq Nat
    OBVIOUS
  <2> QED BY <2>1, LeastMember
<1>2. /\ g[k] = IF k = 0 THEN a ELSE Subs[g[k - 1]][p[k]]
      /\ h[k] = IF k = 0 THEN a ELSE Subs[h[k - 1]][q[k]]
  BY DEF IsTrail
<1>3. CASE k = 0
  BY <1>2, <1>3
<1>4. CASE k # 0
  <2>1. k \in 1 .. n /\ k - 1 \in 0 .. n /\ ~(k <= k - 1)
    BY <1>4
  <2>2. g[k - 1] = h[k - 1]
    BY <1>1, <2>1
  <2> QED BY <1>2, <1>4, <2>1, <2>2
<1> QED BY <1>3, <1>4

Site(a, p) ==
    LET at[i \in 0 .. Len(p)] == IF i = 0 THEN a ELSE Subs[at[i - 1]][p[i]] IN at[Len(p)]

Level == Nat \ {0}

(* Site is the end of the trail, whichever is taken.                       *)
LEMMA SiteIsTrailsEnd ==
    ASSUME NEW a, NEW p \in Seq(Level), NEW at, IsTrail(at, a, p, Len(p))
    PROVE  Site(a, p) = at[Len(p)]
<1> DEFINE end == CHOOSE g : g = [i \in 0 .. Len(p) |-> IF i = 0 THEN a ELSE Subs[g[i - 1]][p[i]]]
<1>1. end = [i \in 0 .. Len(p) |-> IF i = 0 THEN a ELSE Subs[end[i - 1]][p[i]]]
  BY DEF IsTrail
<1>2. Site(a, p) = end[Len(p)]
  BY DEF Site
<1> HIDE DEF end
<1>3. IsTrail(end, a, p, Len(p))
  BY <1>1 DEF IsTrail
<1>4. Len(p) \in Nat /\ Len(p) <= Len(p) /\ Len(p) \in 0 .. Len(p)
  BY LenProperties
<1>5. end[Len(p)] = at[Len(p)]
  BY <1>3, <1>4, TrailsAgree
<1> QED BY <1>2, <1>5

LEMMA SiteStarts ==
    ASSUME NEW a
    PROVE  Site(a, <<>>) = a
<1>1. PICK at : IsTrail(at, a, <<>>, Len(<<>>))
  BY TrailExists
<1>2. at[0] = a /\ Len(<<>>) = 0
  BY <1>1 DEF IsTrail
<1>3. <<>> \in Seq(Level)
  OBVIOUS
<1> QED BY <1>1, <1>2, <1>3, SiteIsTrailsEnd

LEMMA SiteFollows ==
    ASSUME NEW a, NEW p \in Seq(Level), NEW k \in Level
    PROVE  Site(a, Append(p, k)) = Subs[Site(a, p)][k]
<1> DEFINE q == Append(p, k)
<1>2. PICK n \in Nat : n = Len(p)
  BY LenProperties
<1>3. q \in Seq(Level) /\ Len(q) = n + 1 /\ q[n + 1] = k /\ \A i \in 1 .. n : q[i] = p[i]
  BY <1>2, AppendProperties
<1> HIDE DEF q
<1>4. PICK g : IsTrail(g, a, p, n)
  BY TrailExists
<1>5. PICK h : IsTrail(h, a, q, n + 1)
  <2>1. n + 1 \in Nat
    OBVIOUS
  <2> QED BY <2>1, TrailExists, Zenon
<1>6. n \in Nat /\ n + 1 \in Nat /\ n <= n + 1 /\ n \in 0 .. n /\ n + 1 \in 0 .. n + 1 /\ n + 1 # 0 /\ n + 1 - 1 = n
  BY <1>2
<1>7. g[n] = h[n]
  <2>1. \A i \in 1 .. n : p[i] = q[i]
    BY <1>3
  <2>2. PICK m \in Nat : m = n + 1
    OBVIOUS
  <2>3. n <= m /\ IsTrail(h, a, q, m)
    BY <1>5, <2>2
  <2>4. \A i \in 0 .. n : g[i] = h[i]
    BY <1>4, <2>1, <2>3, TrailsAgree
  <2> QED BY <1>6, <2>4
<1>8. h[n + 1] = Subs[h[n]][k]
  BY <1>3, <1>5, <1>6 DEF IsTrail
<1>9. Site(a, p) = g[n] /\ Site(a, q) = h[n + 1]
  BY <1>2, <1>3, <1>4, <1>5, SiteIsTrailsEnd
<1> QED BY <1>7, <1>8, <1>9 DEF q

(* The path of the repository that frame n + 1 is in.                      *)
Way(s, n) == [k \in 1 .. n |-> s[k].next]

LEMMA WayIsPath ==
    ASSUME NEW s \in Seq(Frame), NEW n \in Nat, n <= Len(s)
    PROVE  Way(s, n) \in Seq(Level) /\ Len(Way(s, n)) = n
<1>1. \A k \in 1 .. n : s[k] \in Frame
  <2>1. PICK len \in Nat : len = Len(s)
    BY LenProperties
  <2>2. \A k \in 1 .. n : k \in 1 .. len
    BY <2>1
  <2> QED BY <2>1, <2>2, ElementOfSeq
<1>2. \A f \in Frame : f.next \in Level
  BY DEF Frame, Level
<1>3. \A k \in 1 .. n : s[k].next \in Level
  BY <1>1, <1>2
<1>4. Way(s, n) \in [1 .. n -> Level]
  BY <1>3 DEF Way
<1> HIDE DEF Way
<1> QED BY <1>4

LEMMA WayGoesOn ==
    ASSUME NEW s \in Seq(Frame), NEW n \in Nat, n + 1 <= Len(s)
    PROVE  Way(s, n + 1) = Append(Way(s, n), s[n + 1].next)
<1>1. n <= Len(s) /\ n + 1 \in Nat
  BY LenProperties
<1>2. /\ Way(s, n) \in Seq(Level) /\ Len(Way(s, n)) = n
      /\ Way(s, n + 1) \in Seq(Level) /\ Len(Way(s, n + 1)) = n + 1
  <2>1. PICK m \in Nat : m = n + 1
    BY <1>1
  <2>2. Way(s, m) \in Seq(Level) /\ Len(Way(s, m)) = m
    BY <2>1, WayIsPath
  <2> QED BY <1>1, <2>1, <2>2, WayIsPath
<1>3. Way(s, n + 1)[n + 1] = s[n + 1].next /\ \A k \in 1 .. n : Way(s, n + 1)[k] = Way(s, n)[k]
  BY DEF Way
<1>4. s[n + 1].next \in Level
  <2>1. n + 1 \in 1 .. n + 1
    OBVIOUS
  <2> QED BY <1>2, <1>3, <2>1, ElementOfSeq
<1> DEFINE w == Append(Way(s, n), s[n + 1].next)
<1>5. /\ w \in Seq(Level) /\ Len(w) = n + 1 /\ w[n + 1] = s[n + 1].next
      /\ \A k \in 1 .. n : w[k] = Way(s, n)[k]
  BY <1>2, <1>4, AppendProperties
<1> HIDE DEF w
<1>6. \A k \in 1 .. n + 1 : Way(s, n + 1)[k] = w[k]
  <2>1. \A k \in 1 .. n + 1 : k = n + 1 \/ k \in 1 .. n
    OBVIOUS
  <2> QED BY <1>3, <1>5, <2>1
<1> QED BY <1>2, <1>5, <1>6, SeqEqual DEF w

Whole(a, done, p) == \A i \in 1 .. Len(Subs[Site(a, p)]) : Append(p, i) \in done

(* What holds of a nest of frames s in the repository a, with done brought *)
(* in: each frame is where its path leads; the submodules before the next  *)
(* are in, and so is the one a frame is nested under; and whatever is in   *)
(* is whole, or has a frame of its own.                                    *)
Nested(a, s, done) ==
    /\ \A i \in 1 .. Len(s) : s[i].url = Site(a, Way(s, i - 1))
    /\ \A i \in 1 .. Len(s) : \A j \in 1 .. s[i].next :
          j # s[i].next \/ i # Len(s) => Append(Way(s, i - 1), j) \in done
    /\ \A p \in done \cup {<<>>} :
          Whole(a, done, p) \/ \E i \in 1 .. Len(s) : p = Way(s, i - 1)

LEMMA NestStarts ==
    ASSUME NEW a, NEW left
    PROVE  Nested(a, <<[url |-> a, next |-> 1, left |-> left]>>, {})
<1> DEFINE s == <<[url |-> a, next |-> 1, left |-> left]>>
<1>1. Len(s) = 1 /\ s[1].url = a /\ s[1].next = 1
  OBVIOUS
<1> HIDE DEF s
<1>2. Way(s, 0) = <<>>
  BY DEF Way
<1>3. Site(a, <<>>) = a
  BY SiteStarts
<1>4. \A i \in 1 .. Len(s) : i = 1 /\ i - 1 = 0
  BY <1>1
<1>5. \A i \in 1 .. Len(s) : s[i].url = Site(a, Way(s, i - 1))
  BY <1>1, <1>2, <1>3, <1>4
<1>6. \A j \in 1 .. 1 : j = 1
  OBVIOUS
<1>7. \A i \in 1 .. Len(s) : \A j \in 1 .. s[i].next : j = s[i].next /\ i = Len(s)
  BY <1>1, <1>4, <1>6
<1>8. 1 \in 1 .. Len(s) /\ <<>> = Way(s, 1 - 1)
  BY <1>1, <1>2
<1> QED BY <1>5, <1>7, <1>8 DEF Nested, s

(* A frame that is through has brought in all that it could.               *)
LEMMA NestTopWhole ==
    ASSUME NEW a, NEW s \in Seq(Frame), s # <<>>, NEW done, Nested(a, s, done),
           s[Len(s)].next > Len(Subs[s[Len(s)].url])
    PROVE  Whole(a, done, Way(s, Len(s) - 1))
<1>1. PICK n \in Nat \ {0} : n = Len(s)
  BY EmptySeq
<1>2. s[n] \in Frame
  BY <1>1, TopIsFrame
<1>3. PICK f \in Frame : f = s[n]
  BY <1>2
<1>4. f.next \in Nat /\ f.url \in Url
  BY DEF Frame
<1>5. PICK len \in Nat : len = Len(Subs[f.url])
  BY <1>4, GitAssumption
<1>6. n \in 1 .. n /\ f.next > len
  BY <1>1, <1>3, <1>5
<1>7. f.url = Site(a, Way(s, n - 1))
  BY <1>1, <1>3, <1>6 DEF Nested
<1>8. ASSUME NEW j \in 1 .. len PROVE Append(Way(s, n - 1), j) \in done
  <2>1. j \in 1 .. f.next /\ j # f.next
    BY <1>4, <1>6
  <2> QED BY <1>1, <1>3, <1>6, <2>1 DEF Nested
<1> QED BY <1>1, <1>5, <1>7, <1>8 DEF Whole

LEMMA NestPushed ==
    ASSUME NEW a, NEW s \in Seq(Frame), s # <<>>, NEW done, Nested(a, s, done), NEW left,
           NEW t, t = Append(s, [url |-> Subs[s[Len(s)].url][s[Len(s)].next], next |-> 1, left |-> left])
    PROVE  Nested(a, t, done \cup {Way(s, Len(s))})
<1>1. PICK n \in Nat \ {0} : n = Len(s)
  BY EmptySeq
<1> DEFINE top == [url |-> Subs[s[n].url][s[n].next], next |-> 1, left |-> left]
           wider == done \cup {Way(s, n)}
<1>2. Len(t) = n + 1 /\ t[n + 1] = top /\ \A k \in 1 .. n : t[k] = s[k]
  BY <1>1, AppendProperties
<1>3. t[n + 1].url = Subs[s[n].url][s[n].next] /\ t[n + 1].next = 1
  BY <1>2
<1> HIDE DEF top
<1>4. ASSUME NEW i \in Nat, i <= n PROVE Way(t, i) = Way(s, i)
  BY <1>2, <1>4 DEF Way
<1>5. n - 1 \in Nat /\ n \in 1 .. n /\ n - 1 + 1 = n
  BY <1>1
<1>6. Way(s, n) = Append(Way(s, n - 1), s[n].next) /\ Way(s, n - 1) \in Seq(Level)
  <2>1. PICK m \in Nat : m = n - 1
    BY <1>5
  <2>2. m + 1 = n /\ m + 1 <= Len(s) /\ m <= Len(s)
    BY <1>1, <2>1
  <2> QED BY <2>1, <2>2, WayIsPath, WayGoesOn
<1>7. s[n].next \in Level
  <2>1. s[n] \in Frame
    BY <1>1, TopIsFrame
  <2> QED BY <2>1 DEF Frame, Level
<1>8. \A i \in 1 .. n + 1 : i = n + 1 \/ (i \in 1 .. n /\ i - 1 \in Nat /\ i - 1 <= n /\ i # n + 1)
  BY <1>1
<1>9. ASSUME NEW i \in 1 .. Len(t) PROVE t[i].url = Site(a, Way(t, i - 1))
  <2>1. CASE i = n + 1
    <3>1. Site(a, Way(s, n)) = Subs[Site(a, Way(s, n - 1))][s[n].next]
      BY <1>6, <1>7, SiteFollows
    <3>2. s[n].url = Site(a, Way(s, n - 1))
      BY <1>1, <1>5 DEF Nested
    <3>3. Way(t, n) = Way(s, n) /\ i - 1 = n
      BY <1>4, <2>1
    <3> QED BY <1>3, <2>1, <3>1, <3>2, <3>3
  <2>2. CASE i \in 1 .. n
    <3>1. t[i] = s[i] /\ Way(t, i - 1) = Way(s, i - 1)
      BY <1>2, <1>4, <1>8, <2>2
    <3> QED BY <1>1, <2>2, <3>1 DEF Nested
  <2> QED BY <1>2, <1>8, <2>1, <2>2
<1>10. ASSUME NEW i \in 1 .. Len(t), NEW j \in 1 .. t[i].next, j # t[i].next \/ i # Len(t)
       PROVE  Append(Way(t, i - 1), j) \in wider
  <2>1. CASE i = n + 1
    BY <1>2, <1>3, <1>10, <2>1
  <2>2. CASE i \in 1 .. n
    <3>1. t[i] = s[i] /\ Way(t, i - 1) = Way(s, i - 1)
      BY <1>2, <1>4, <1>8, <2>2
    <3>2. CASE j # s[i].next \/ i # n
      BY <1>1, <2>2, <3>1, <3>2 DEF Nested
    <3>3. CASE j = s[i].next /\ i = n
      BY <1>6, <3>1, <3>3
    <3> QED BY <3>2, <3>3
  <2> QED BY <1>2, <1>8, <2>1, <2>2
<1>11. ASSUME NEW p \in wider \cup {<<>>}
       PROVE  Whole(a, wider, p) \/ \E i \in 1 .. Len(t) : p = Way(t, i - 1)
  <2>1. CASE p = Way(s, n)
    <3>1. n + 1 \in 1 .. n + 1 /\ n + 1 - 1 = n /\ n \in Nat /\ n <= n
      OBVIOUS
    <3>2. Way(t, n + 1 - 1) = Way(s, n)
      BY <1>4, <3>1
    <3> QED BY <1>2, <2>1, <3>1, <3>2
  <2>2. CASE p \in done \cup {<<>>}
    <3>1. Whole(a, done, p) => Whole(a, wider, p)
      BY DEF Whole
    <3>2. ASSUME NEW i \in 1 .. n, p = Way(s, i - 1) PROVE i \in 1 .. Len(t) /\ p = Way(t, i - 1)
      <4>1. i - 1 \in Nat /\ i - 1 <= n
        OBVIOUS
      <4> QED BY <1>2, <1>4, <3>2, <4>1
    <3> QED BY <1>1, <2>2, <3>1, <3>2 DEF Nested
  <2> QED BY <2>1, <2>2
<1> HIDE DEF wider
<1>12. Nested(a, t, wider)
  BY <1>9, <1>10, <1>11 DEF Nested
<1> QED BY <1>1, <1>12 DEF wider

(* Back in the frame below, at its next submodule.                         *)
LEMMA NestPopped ==
    ASSUME NEW a, NEW s \in Seq(Frame), NEW n \in Nat \ {0}, Len(s) = n + 1,
           NEW done, Nested(a, s, done), s[Len(s)].next > Len(Subs[s[Len(s)].url]),
           NEW t, Len(t) = n, \A i \in 1 .. n : i # n => t[i] = s[i],
           t[n].url = s[n].url, t[n].next = s[n].next + 1
    PROVE  Nested(a, t, done)
<1>1. ASSUME NEW i \in 1 .. n PROVE Way(t, i - 1) = Way(s, i - 1) /\ t[i].url = s[i].url
  <2>1. \A k \in 1 .. i - 1 : k \in 1 .. n /\ k # n
    OBVIOUS
  <2> QED BY <2>1 DEF Way
<1>2. Whole(a, done, Way(s, n))
  <2>1. s # <<>> /\ Len(s) - 1 = n
    OBVIOUS
  <2> QED BY <2>1, NestTopWhole
<1>3. \A i \in 1 .. n : i \in 1 .. Len(s) /\ i # Len(s)
  OBVIOUS
<1>4. s[n].next \in Level
  <2>1. n \in 1 .. Len(s)
    OBVIOUS
  <2>2. s[n] \in Frame
    BY <2>1, ElementOfSeq
  <2> QED BY <2>2 DEF Frame, Level
<1>5. \A i \in 1 .. Len(t) : t[i].url = Site(a, Way(t, i - 1))
  BY <1>1, <1>3 DEF Nested
<1>6. ASSUME NEW i \in 1 .. Len(t), NEW j \in 1 .. t[i].next, j # t[i].next \/ i # Len(t)
      PROVE  Append(Way(t, i - 1), j) \in done
  <2>1. j \in 1 .. s[i].next
    <3>1. CASE i = n
      BY <1>4, <1>6, <3>1 DEF Level
    <3>2. CASE i # n
      BY <3>2
    <3> QED BY <3>1, <3>2
  <2> QED BY <1>1, <1>3, <2>1 DEF Nested
<1>7. ASSUME NEW p \in done \cup {<<>>}
      PROVE  Whole(a, done, p) \/ \E i \in 1 .. Len(t) : p = Way(t, i - 1)
  <2>1. ASSUME NEW i \in 1 .. n + 1, p = Way(s, i - 1)
        PROVE  Whole(a, done, p) \/ \E k \in 1 .. Len(t) : p = Way(t, k - 1)
    <3>1. CASE i = n + 1
      <4>1. i - 1 = n
        BY <3>1
      <4> QED BY <1>2, <2>1, <4>1
    <3>2. CASE i \in 1 .. n
      BY <1>1, <2>1, <3>2
    <3> QED BY <3>1, <3>2
  <2> QED BY <2>1 DEF Nested
<1> QED BY <1>5, <1>6, <1>7 DEF Nested

(* The outermost frame through, everything is whole.                       *)
LEMMA NestEnds ==
    ASSUME NEW a, NEW s \in Seq(Frame), Len(s) = 1, NEW done, Nested(a, s, done),
           s[Len(s)].next > Len(Subs[s[Len(s)].url])
    PROVE  \A p \in done \cup {<<>>} : Whole(a, done, p)
<1>1. Whole(a, done, Way(s, 0))
  <2>1. s # <<>> /\ Len(s) - 1 = 0
    OBVIOUS
  <2> QED BY <2>1, NestTopWhole
<1>2. \A i \in 1 .. Len(s) : i - 1 = 0
  OBVIOUS
<1> QED BY <1>1, <1>2 DEF Nested

-----------------------------------------------------------------------------
(* Submodules, brought in.                                                 *)

OwnPlaces == {"archive", "fetching", "fetching all", "again", "unknown"}
Fresh == {"start", "http", "ssh", "numbering", "storing", "cloning"}
WholeRepo(c) == \A p \in updated[c] \cup {<<>>} : Whole(job[c].url, updated[c], p)

(* Nothing is in before the clone is there; then what is in is nested; and *)
(* a clone that leaves is whole.                                           *)
BringsIn(c) ==
    /\ pc[c] \in Fresh => updated[c] = {}
    /\ pc[c] \in OwnPlaces => job[c].own
    /\ pc[c] = "submodules" => Nested(job[c].url, stack[c], updated[c])
    /\ pc[c] = "leaving" \/ (pc[c] = "done" /\ ~job[c].own) => WholeRepo(c)
BringsInInv ==
    /\ updated = [c \in Clones |-> updated[c]]
    /\ \A c \in Clones : BringsIn(c)

(* A clone's step leaves the other clones' submodules alone.               *)
LEMMA OthersSubmodules ==
    ASSUME TypeInv, BringsInInv, NEW c \in Clones, Step(c)
    PROVE  /\ updated' = [d \in Clones |-> updated'[d]]
           /\ \A d \in Clones : d # c => stack'[d] = stack[d] /\ updated'[d] = updated[d]
           /\ ~UpdateSubmodule(c) => UNCHANGED updated
<1>1. CASE UpdateSubmodule(c)
  <2>1. \/ UNCHANGED <<stack, updated>>
        \/ /\ \E x : updated' = [updated EXCEPT ![c] = x]
           /\ \E x : stack' = [stack EXCEPT ![c] = x]
    BY <1>1 DEF UpdateSubmodule
  <2> QED BY <1>1, <2>1 DEF BringsInInv, TypeInv, GitTypeOK
<1>2. CASE ~UpdateSubmodule(c)
  <2>1. UNCHANGED updated
    BY <1>2 DEF Step, Start, TakeToken, StoreDialer, CloneRepo, Release, OnceBegins, OnceEnds,
           OncePassed, RefuseDepth, RefuseSubmodule, ReturnFromSubmodules, ResolveLocally,
           FetchExact, FetchAll, ResolveAgain, GiveUp, own
  <2>2. UNCHANGED stack \/ \E x : stack' = [stack EXCEPT ![c] = x]
    <3>1. CASE CloneRepo(c)
      BY <3>1 DEF CloneRepo, Fetched
    <3>2. CASE ReturnFromSubmodules(c)
      BY <3>2 DEF ReturnFromSubmodules
    <3>3. CASE ~CloneRepo(c) /\ ~ReturnFromSubmodules(c)
      BY <1>2, <3>3 DEF Step, Start, TakeToken, StoreDialer, Release, OnceBegins, OnceEnds,
             OncePassed, RefuseDepth, RefuseSubmodule, ResolveLocally, FetchExact, FetchAll,
             ResolveAgain, GiveUp, own
    <3> QED BY <3>1, <3>2, <3>3
  <2> QED BY <2>1, <2>2 DEF BringsInInv, TypeInv, GitTypeOK
<1> QED BY <1>1, <1>2

(* A clone that moves on and brings nothing in.                            *)
LEMMA BringsNothing ==
    ASSUME TypeInv, NEW c \in Clones, BringsIn(c), UNCHANGED <<job, updated>>,
           NEW place \in Places \ {"submodules"}, Goto(c, place),
           place \in Fresh => pc[c] \in Fresh,
           place \in OwnPlaces => job[c].own,
           place = "leaving" \/ (place = "done" /\ ~job[c].own) => WholeRepo(c)
    PROVE  (BringsIn(c))'
<1>1. pc'[c] = place
  BY GotoMoves
<1>2. pc[c] \in Fresh => updated[c] = {}
  BY DEF BringsIn
<1>3. place # "submodules"
  OBVIOUS
<1>4. WholeRepo(c) => (WholeRepo(c))'
  BY DEF WholeRepo
<1> QED BY <1>1, <1>2, <1>3, <1>4 DEF BringsIn

LEMMA UpdateBringsIn ==
    ASSUME TypeInv, BringsInInv, NEW c \in Clones, UpdateSubmodule(c)
    PROVE  (BringsIn(c))'
<1>1. UNCHANGED job /\ pc[c] = "submodules"
  BY DEF UpdateSubmodule
<1>2. CASE Goto(c, "failing")
  <2>1. pc'[c] = "failing"
    BY <1>2, GotoMoves DEF Places
  <2> QED BY <2>1 DEF BringsIn, Fresh, OwnPlaces
<1>3. CASE UNCHANGED pc /\ updated' = [updated EXCEPT ![c] = @ \cup {PathOf(c)}]
           /\ stack' = [stack EXCEPT ![c] =
                          Append(@, [url |-> SubmoduleUrl(c), next |-> 1, left |-> Top(c).left - 1])]
  <2>1. PICK s \in Seq(Frame) : s = stack[c] /\ s # <<>>
    BY <1>1 DEF TypeInv, GitTypeOK, StackInv, Frame
  <2>2. PICK left : left = Top(c).left - 1
    OBVIOUS
  <2>3. PICK t : t = stack'[c]
    OBVIOUS
  <2>4. t = Append(s, [url |-> Subs[s[Len(s)].url][s[Len(s)].next], next |-> 1, left |-> left])
    <3>1. stack'[c] = Append(stack[c], [url |-> SubmoduleUrl(c), next |-> 1, left |-> Top(c).left - 1])
      BY <1>3 DEF TypeInv, GitTypeOK
    <3> QED BY <2>1, <2>2, <2>3, <3>1 DEF SubmoduleUrl, Top
  <2>5. PICK a : a = job[c].url
    OBVIOUS
  <2>6. PICK done : done = updated[c]
    OBVIOUS
  <2>7. Nested(a, s, done)
    BY <1>1, <2>1, <2>5, <2>6 DEF BringsInInv, BringsIn
  <2>8. PathOf(c) = Way(s, Len(s))
    BY <2>1 DEF PathOf, Way
  <2>9. updated'[c] = done \cup {Way(s, Len(s))}
    BY <1>3, <2>6, <2>8 DEF BringsInInv
  <2>10. Nested(a, t, done \cup {Way(s, Len(s))})
    BY <2>1, <2>4, <2>7, NestPushed
  <2>11. pc'[c] = "submodules" /\ job'[c].url = a
    BY <1>1, <1>3, <2>5
  <2> QED BY <2>3, <2>9, <2>10, <2>11 DEF BringsIn, Fresh, OwnPlaces
<1> QED BY <1>2, <1>3 DEF UpdateSubmodule

LEMMA ReturnBringsIn ==
    ASSUME TypeInv, BringsInInv, NEW c \in Clones, ReturnFromSubmodules(c)
    PROVE  (BringsIn(c))'
<1>1. UNCHANGED <<job, updated>> /\ pc[c] = "submodules"
  BY DEF ReturnFromSubmodules
<1>2. PICK s \in Seq(Frame) : s = stack[c] /\ s # <<>>
  BY <1>1 DEF TypeInv, GitTypeOK, StackInv, Frame
<1>3. s[Len(s)].next > Len(Subs[s[Len(s)].url])
  BY <1>2 DEF ReturnFromSubmodules, Top
<1>4. PICK a : a = job[c].url
  OBVIOUS
<1>5. PICK done : done = updated[c]
  OBVIOUS
<1>6. Nested(a, s, done)
  BY <1>1, <1>2, <1>4, <1>5 DEF BringsInInv, BringsIn
<1>7. job'[c].url = a /\ updated'[c] = done
  BY <1>1, <1>4, <1>5
<1>8. CASE Len(s) = 1
  <2>1. pc'[c] = "leaving"
    BY <1>2, <1>8, GotoMoves DEF ReturnFromSubmodules, Places
  <2>2. \A p \in done \cup {<<>>} : Whole(a, done, p)
    BY <1>3, <1>6, <1>8, NestEnds
  <2> QED BY <1>7, <2>1, <2>2 DEF BringsIn, WholeRepo, Fresh, OwnPlaces
<1>9. CASE Len(s) # 1
  <2>1. PICK n \in Nat \ {0} : Len(s) = n + 1
    <3>1. \A len \in Nat \ {0} : len # 1 => len - 1 \in Nat \ {0} /\ len = (len - 1) + 1
      OBVIOUS
    <3>2. Len(s) \in Nat \ {0}
      BY <1>2, EmptySeq
    <3>3. Len(s) - 1 \in Nat \ {0} /\ Len(s) = (Len(s) - 1) + 1
      BY <1>9, <3>1, <3>2
    <3> QED BY <3>3
  <2>2. PICK t : t = stack'[c]
    OBVIOUS
  <2>3. t = Resume(SubSeq(s, 1, n))
    <3>1. stack'[c] = Resume(SubSeq(stack[c], 1, Len(stack[c]) - 1))
      BY <1>2, <1>9 DEF ReturnFromSubmodules, TypeInv, GitTypeOK
    <3>2. Len(stack[c]) - 1 = n
      BY <1>2, <2>1
    <3> QED BY <1>2, <2>2, <3>1, <3>2
  <2>4. PICK r : r = SubSeq(s, 1, n)
    OBVIOUS
  <2>5. r \in Seq(Frame) /\ Len(r) = n /\ \A i \in 1 .. n : r[i] = s[i]
    <3>1. \A i \in 1 .. n : i \in 1 .. Len(s)
      BY <2>1
    <3>2. \A i \in 1 .. n : s[i] \in Frame
      BY <3>1, ElementOfSeq
    <3> QED BY <2>4, <3>2, SubSeqProperties
  <2>6. n \in 1 .. n /\ r[n] = s[n] /\ s[n] \in Frame
    BY <2>5, ElementOfSeq
  <2>7. t = [r EXCEPT ![n] = [r[n] EXCEPT !.next = r[n].next + 1]]
    BY <2>3, <2>4, <2>5 DEF Resume
  <2>8. [r[n] EXCEPT !.next = r[n].next + 1].url = s[n].url
        /\ [r[n] EXCEPT !.next = r[n].next + 1].next = s[n].next + 1
    BY <2>6 DEF Frame
  <2>9. /\ Len(t) = n /\ \A i \in 1 .. n : i # n => t[i] = s[i]
        /\ t[n].url = s[n].url /\ t[n].next = s[n].next + 1
    BY <2>5, <2>6, <2>7, <2>8
  <2>10. Nested(a, t, done)
    BY <1>3, <1>6, <2>1, <2>9, NestPopped
  <2>11. pc'[c] = "submodules"
    BY <1>1, <1>2, <1>9 DEF ReturnFromSubmodules
  <2> QED BY <1>7, <2>2, <2>10, <2>11 DEF BringsIn, Fresh, OwnPlaces
<1> QED BY <1>8, <1>9

LEMMA BringsInStep ==
    ASSUME TypeInv, BringsInInv, NEW c \in Clones, Step(c)
    PROVE  BringsInInv'
<1>1. UNCHANGED job /\ \A d \in Clones : d # c => pc'[d] = pc[d]
  BY StepMoves
<1>2. /\ updated' = [d \in Clones |-> updated'[d]]
      /\ \A d \in Clones : d # c => stack'[d] = stack[d] /\ updated'[d] = updated[d]
      /\ ~UpdateSubmodule(c) => UNCHANGED updated
  BY OthersSubmodules
<1>3. BringsIn(c)
  BY DEF BringsInInv
<1>4. ASSUME NEW place \in Places \ {"submodules"}, Goto(c, place), ~UpdateSubmodule(c),
             place \in Fresh => pc[c] \in Fresh, place \in OwnPlaces => job[c].own,
             place = "leaving" \/ (place = "done" /\ ~job[c].own) => WholeRepo(c)
      PROVE  (BringsIn(c))'
  BY <1>1, <1>2, <1>3, <1>4, BringsNothing
<1>5. (BringsIn(c))'
  <2>1. CASE Start(c)
    <3>1. ~UpdateSubmodule(c) /\ pc[c] = "start"
      BY <2>1 DEF Start, UpdateSubmodule
    <3>2. PICK place \in {"archive", "failed", "http", "cloning"} :
             Goto(c, place) /\ (place = "archive" => job[c].own)
      BY <2>1 DEF Start
    <3> QED BY <1>4, <3>1, <3>2 DEF Places, Fresh, OwnPlaces
  <2>2. CASE TakeToken(c) \/ StoreDialer(c)
    <3>1. ~UpdateSubmodule(c) /\ pc[c] \in Fresh
      BY <2>2 DEF TakeToken, StoreDialer, UpdateSubmodule, Fresh
    <3>2. PICK place \in {"storing", "cloning"} : Goto(c, place)
      BY <2>2 DEF TakeToken, StoreDialer
    <3> QED BY <1>4, <3>1, <3>2 DEF Places, Fresh, OwnPlaces
  <2>3. CASE CloneRepo(c)
    <3>1. ~UpdateSubmodule(c) /\ pc[c] = "cloning"
      BY <2>3 DEF CloneRepo, UpdateSubmodule
    <3>2. CASE Goto(c, "failing")
      BY <1>4, <3>1, <3>2 DEF Places, Fresh, OwnPlaces
    <3>3. CASE /\ Goto(c, "submodules")
               /\ stack' = [stack EXCEPT ![c] = <<[url |-> job[c].url, next |-> 1, left |-> MaxDepth]>>]
      <4>1. pc'[c] = "submodules"
        BY <3>3, GotoMoves DEF Places
      <4>2. stack'[c] = <<[url |-> job[c].url, next |-> 1, left |-> MaxDepth]>>
        BY <3>3 DEF TypeInv, GitTypeOK
      <4>3. updated'[c] = {}
        BY <1>2, <1>3, <3>1 DEF BringsIn, Fresh
      <4>4. PICK a : a = job[c].url
        OBVIOUS
      <4>5. Nested(a, <<[url |-> a, next |-> 1, left |-> MaxDepth]>>, {})
        BY NestStarts
      <4> QED BY <1>1, <4>1, <4>2, <4>3, <4>4, <4>5 DEF BringsIn, Fresh, OwnPlaces
    <3> QED BY <2>3, <3>2, <3>3 DEF CloneRepo, Fetched
  <2>4. CASE Release(c)
    <3>1. ~UpdateSubmodule(c)
      BY <2>4 DEF Release, UpdateSubmodule
    <3>2. PICK place \in {"done", "failed"} :
             Goto(c, place) /\ (place = "done" => pc[c] = "leaving")
      BY <2>4 DEF Release
    <3>3. pc[c] = "leaving" => WholeRepo(c)
      BY <1>3 DEF BringsIn
    <3> QED BY <1>4, <3>1, <3>2, <3>3 DEF Places, Fresh, OwnPlaces
  <2>5. ASSUME NEW o \in Onces, OnceBegins(c, o) \/ OnceEnds(c, o) PROVE (BringsIn(c))'
    <3>1. UNCHANGED <<job, pc, stack, updated>>
      BY <1>1, <2>5 DEF OnceBegins, OnceEnds, own
    <3> QED BY <1>3, <3>1 DEF BringsIn, WholeRepo
  <2>6. ASSUME NEW o \in Onces, OncePassed(c, o) PROVE (BringsIn(c))'
    <3>1. ~UpdateSubmodule(c) /\ pc[c] \in Fresh
      BY <2>6 DEF OncePassed, UpdateSubmodule, Fresh, Onces
    <3>2. PICK place \in {"numbering", "ssh", "cloning"} : Goto(c, place)
      BY <2>6 DEF OncePassed
    <3> QED BY <1>4, <3>1, <3>2 DEF Places, Fresh, OwnPlaces
  <2>7. CASE RefuseDepth(c) \/ RefuseSubmodule(c)
    <3>1. Goto(c, "failing") /\ UNCHANGED updated
      BY <2>7 DEF RefuseDepth, RefuseSubmodule
    <3> QED BY <1>1, <1>3, <3>1, BringsNothing DEF Places, Fresh, OwnPlaces
  <2>8. CASE UpdateSubmodule(c)
    BY <2>8, UpdateBringsIn
  <2>9. CASE ReturnFromSubmodules(c)
    BY <2>9, ReturnBringsIn
  <2>10. CASE ResolveLocally(c) \/ FetchExact(c) \/ FetchAll(c) \/ ResolveAgain(c) \/ GiveUp(c)
    <3>1. ~UpdateSubmodule(c) /\ pc[c] \in OwnPlaces
      BY <2>10 DEF ResolveLocally, FetchExact, FetchAll, ResolveAgain, GiveUp, UpdateSubmodule, OwnPlaces
    <3>2. PICK place \in {"done", "fetching", "again", "fetching all", "failed", "unknown"} :
             Goto(c, place)
      BY <2>10 DEF ResolveLocally, FetchExact, FetchAll, ResolveAgain, GiveUp
    <3>3. job[c].own
      BY <1>3, <3>1 DEF BringsIn
    <3> QED BY <1>4, <3>1, <3>2, <3>3 DEF Places, Fresh
  <2> QED BY <2>1, <2>2, <2>3, <2>4, <2>5, <2>6, <2>7, <2>8, <2>9, <2>10 DEF Step
<1>6. ASSUME NEW d \in Clones, d # c PROVE (BringsIn(d))'
  <2>1. /\ pc'[d] = pc[d] /\ job'[d] = job[d]
        /\ stack'[d] = stack[d] /\ updated'[d] = updated[d]
    BY <1>1, <1>2, <1>6
  <2>2. BringsIn(d)
    BY DEF BringsInInv
  <2> QED BY <2>1, <2>2 DEF BringsIn, WholeRepo
<1> QED BY <1>2, <1>5, <1>6 DEF BringsInInv

-----------------------------------------------------------------------------
IInv ==
    /\ TypeInv /\ TokensInv /\ RouteInv /\ OnceInv /\ FitsInv /\ OpenedInv
    /\ KnowsInv /\ BringsInInv

LEMMA Inductive == Spec => []IInv
<1>1. Init => IInv
  <2> SUFFICES ASSUME Init PROVE IInv
    OBVIOUS
  <2>1. \A c \in Clones : pc[c] = "start" /\ token[c] = 0 /\ opened[c] = {}
    BY DEF Init
  <2>2. TokensInv
    BY <2>1 DEF Init, TokensInv
  <2>3. RouteInv /\ OnceInv /\ FitsInv
    BY <2>1 DEF RouteInv, OnceInv, FitsInv, Prepared, OnTheWay
  <2>4. OpenedInv
    BY <2>1 DEF Init, OpenedInv, OwnDialer, OwnCredentials
  <2>5. KnowsInv
    BY <2>1 DEF KnowsInv, CheckoutKnowsPins
  <2>6. BringsInInv
    BY <2>1 DEF Init, BringsInInv, BringsIn, OwnPlaces
  <2> QED BY InitType, <2>2, <2>3, <2>4, <2>5, <2>6 DEF IInv
<1>2. IInv /\ [Next]_vars => IInv'
  <2> SUFFICES ASSUME IInv, [Next]_vars PROVE IInv'
    OBVIOUS
  <2>1. CASE UNCHANGED vars
    <3>1. UNCHANGED <<job, pc, once, seq, dialers, store, token, stack, updated, opened>>
      BY <2>1 DEF vars, shared, own
    <3>2. TypeInv' /\ TokensInv'
      BY <3>1 DEF IInv, TypeInv, GitTypeOK, StackInv, StoringInv, TokensInv
    <3>3. RouteInv' /\ OnceInv' /\ FitsInv'
      BY <3>1 DEF IInv, RouteInv, OnceInv, FitsInv, Policy, SSH
    <3>4. OpenedInv'
      BY <3>1 DEF IInv, OpenedInv, OwnDialer, OwnCredentials
    <3>5. KnowsInv'
      BY <3>1 DEF IInv, KnowsInv, CheckoutKnowsPins, Brings
    <3>6. BringsInInv'
      BY <3>1 DEF IInv, BringsInInv, BringsIn, WholeRepo
    <3> QED BY <3>2, <3>3, <3>4, <3>5, <3>6 DEF IInv
  <2>2. ASSUME NEW c \in Clones, Step(c) PROVE IInv'
    <3>1. TypeInv'
      BY <2>2, PrepareType, CloneType, ArchiveType DEF Step, IInv
    <3>2. TokensInv' /\ RouteInv' /\ OnceInv' /\ FitsInv'
      BY <2>2, TokensStep, RouteStep, OnceStep, FitsStep DEF IInv
    <3>3. OpenedInv'
      BY <2>2, OpenedStep DEF IInv
    <3>4. KnowsInv' /\ BringsInInv'
      BY <2>2, KnowsStep, BringsInStep DEF IInv
    <3> QED BY <3>1, <3>2, <3>3, <3>4 DEF IInv
  <2> QED BY <2>1, <2>2 DEF Next
<1> QED BY <1>1, <1>2, PTL DEF Spec

(* The table of ssh dialers is that of the clones that run, however many   *)
(* run and in whatever order they start, end and fail: a token is never    *)
(* another clone's, and nothing is left when the clone is over.            *)
THEOREM TableHoldsTheRunning == Spec => []TableIsOfRunning
<1>1. IInv => TableIsOfRunning
  <2> SUFFICES ASSUME IInv PROVE TableIsOfRunning
    OBVIOUS
  <2>1. \A c, d \in Clones : token[c] = token[d] /\ token[c] # 0 => c = d
    BY DEF IInv, TokensInv
  <2>2. ASSUME NEW t \in DOMAIN dialers
        PROVE  \E c \in Clones : token[c] = t /\ pc[c] \notin Ended /\ dialers[t] = job[c].dial
    <3>1. PICK c \in Clones : token[c] = t /\ dialers[t] = job[c].dial
      BY DEF IInv, TokensInv
    <3>2. t # 0
      BY DEF IInv, TypeInv, GitTypeOK
    <3>3. pc[c] \in Holding
      BY <3>1, <3>2 DEF IInv, TokensInv
    <3> QED BY <3>1, <3>3 DEF Holding, Ended
  <2>3. \A c \in Clones : pc[c] = "cloning" /\ SSH(c) /\ Policy(c) => token[c] \in DOMAIN dialers
    BY DEF IInv, TokensInv, RouteInv
  <2> QED BY <2>1, <2>2, <2>3 DEF TableIsOfRunning
<1> QED BY Inductive, <1>1, PTL

(* No new connection of a clone to its repository, and none over http, is  *)
(* opened with another clone's dialer or without its own.                  *)
THEOREM ClonesDialTheirOwn == Spec => []OwnDialer
<1>1. IInv => OwnDialer
  BY DEF IInv, OpenedInv
<1> QED BY Inductive, <1>1, PTL

(* No credential is presented to a URL it was not handed over or looked up *)
(* for, nor in a form its protocol does not take.                          *)
THEOREM CredentialsStayHome == Spec => []OwnCredentials
<1>1. IInv => OwnCredentials
  BY DEF IInv, OpenedInv
<1> QED BY Inductive, <1>1, PTL

(* The checkout never refuses, as not being there, a commit or a tag that  *)
(* origin has: what it reports unknown after the fetch is a branch, or not *)
(* at origin.                                                              *)
THEOREM CheckoutKnowsEveryPin == Spec => []CheckoutKnowsPins
<1>1. IInv => CheckoutKnowsPins
  BY DEF IInv, KnowsInv
<1> QED BY Inductive, <1>1, PTL

(* A clone that succeeds has brought in every submodule of what it brought *)
(* in, however the repositories nest.                                      *)
THEOREM ClonesAreComplete == Spec => []CompleteWhenDone
<1>1. IInv => CompleteWhenDone
  <2> SUFFICES ASSUME IInv, NEW c \in Clones, pc[c] = "done", ~job[c].own,
                      NEW p \in updated[c] \cup {<<>>}, NEW i \in 1 .. Len(Subs[UrlAt(c, p)])
               PROVE  Append(p, i) \in updated[c]
    BY DEF CompleteWhenDone
  <2>1. Whole(job[c].url, updated[c], p)
    BY DEF IInv, BringsInInv, BringsIn, WholeRepo
  <2>2. UrlAt(c, p) = Site(job[c].url, p)
    BY DEF UrlAt, Site
  <2> QED BY <2>1, <2>2 DEF Whole
<1> QED BY Inductive, <1>1, PTL
=============================================================================
