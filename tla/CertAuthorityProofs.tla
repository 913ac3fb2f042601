-------------------------- MODULE CertAuthorityProofs --------------------------
(***************************************************************************)
(* Proofs about CertAuthority, for every number of CAs, set of subjects    *)
(* and number of runs.                                                     *)
(***************************************************************************)
EXTENDS CertAuthority, SequenceTheorems, TLAPS

-----------------------------------------------------------------------------
(* The inductive invariant.                                                 *)

CASteps == {"create", "close", "invalid", "selfSign", "csr", "sign", "rename",
            "verify", "crl"}

CertificateSteps == {"certKey", "invalid", "csr", "sign", "rename", "flush",
                     "verify", "replace", "revoke", "remove"}

ListSteps == {"crl", "truncate", "cat"}

\* While a CA is constructed, those before it are in the dictionary, and it
\* is itself once its CRL is made.
Constructing ==
    /\ self \in Levels /\ then = "return" /\ request = None
    /\ \/ pc \in CASteps /\ dictionary = 1 .. self - 1
       \/ pc \in {"truncate", "cat", "return"} /\ dictionary = 1 .. self
    /\ pc = "selfSign" => self = 1
    /\ pc \in {"csr", "sign", "rename", "verify"} => self # 1

\* While certificates are made, all CAs are in the dictionary.
Issuing ==
    /\ dictionary = Levels
    /\ \/ pc \in CertificateSteps /\ self \in Dirs
       \/ pc \in ListSteps /\ self \in Dirs /\ then # "return"
       \/ pc = "request" /\ (request # None => self \in Dirs)
    /\ self \in Dirs => request \in Subjects
    /\ pc = "remove" => then \in {"replace", "revoke"}

PhaseInv ==
    /\ Running => Constructing \/ Issuing
    /\ pc = "done" => dictionary = Levels /\ global = [c \in dictionary |-> crl[c]]

\* The CAs constructed have a certificate; so has one whose CRL is next.
CertInv ==
    Running =>
        /\ \A c \in dictionary : cert[c] # None
        /\ pc = "crl" /\ self \in Levels => cert[self] # None
        /\ pc \in {"flush", "verify"} => cert[self] # None

\* The buffer is that of the certificate being made, whose issuer has one.
OpenInv ==
    open # None =>
        /\ Running /\ open = self /\ self # 1
        /\ pc \in {"flush", "verify", "crl", "truncate", "cat", "return"}
        /\ self \in Dirs => pc = "flush"

\* The leaf CA has revoked what its CRL does not list yet.
Unlisted(c) == c = N /\ pc = "crl" /\ then \in {"replace", "revoke"}

\* The CRLs of the CAs constructed in this run list what is revoked.
ListInv ==
    Running \/ pc = "done" =>
        \A c \in dictionary :
            c \in DOMAIN crl /\ (Unlisted(c) \/ crl[c] = Revoked(c))

\* A run that revokes leaves a certificate's file only to the step that
\* makes or revokes it.
Unrevoked(d) ==
    /\ d = self /\ Running
    /\ pc \notin {"request", "return"}
    /\ then # "end" \/ pc \notin ListSteps

RevokeInv ==
    opts.revoke /\ (Running \/ pc = "done") =>
        \A d \in Dirs : asked[d] # None => cert[d] = None \/ Unrevoked(d)

IInv == TypeOK /\ PhaseInv /\ CertInv /\ OpenInv /\ ListInv /\ RevokeInv

-----------------------------------------------------------------------------

\* Marking an entry of an index leaves it an index.
LEMMA MarkedIndex ==
    ASSUME NEW s \in Seq(Entry), NEW i
    PROVE  [s EXCEPT ![i].revoked = TRUE] \in Seq(Entry)
<1> DEFINE t == [s EXCEPT ![i].revoked = TRUE]
<1>1. DOMAIN t = 1 .. Len(s) /\ Len(s) \in Nat
  OBVIOUS
<1>2. \A j \in 1 .. Len(s) : t[j] \in Entry
  <2> TAKE j \in 1 .. Len(s)
  <2>1. s[j] \in Entry
    OBVIOUS
  <2>2. [s[j] EXCEPT !.revoked = TRUE] \in Entry
    BY <2>1 DEF Entry
  <2>3. t[j] = IF i = j THEN [s[j] EXCEPT !.revoked = TRUE] ELSE s[j]
    BY <1>1
  <2> QED BY <2>1, <2>2, <2>3
<1>3. t \in [1 .. Len(s) -> Entry]
  BY <1>1, <1>2
<1> QED BY <1>1, <1>3, SeqDef

\* A certificate just signed is not a revoked one.
LEMMA AppendedIndex ==
    ASSUME NEW s \in Seq(Entry), NEW e \in Entry, ~e.revoked
    PROVE  /\ Append(s, e) \in Seq(Entry)
           /\ {i \in DOMAIN Append(s, e) : Append(s, e)[i].revoked} =
                  {i \in DOMAIN s : s[i].revoked}
<1>1. DOMAIN s = 1 .. Len(s) /\ Len(s) \in Nat
  OBVIOUS
<1>2. DOMAIN Append(s, e) = 1 .. Len(s) + 1
  OBVIOUS
<1>3. \A i \in 1 .. Len(s) : Append(s, e)[i] = s[i]
  OBVIOUS
<1>4. Append(s, e)[Len(s) + 1] = e
  OBVIOUS
<1> QED BY <1>1, <1>2, <1>3, <1>4

\* The issuer of a certificate is a CA, and the root is the only one that is
\* its own.
LEMMA Issuers ==
    ASSUME NEW o \in Owners
    PROVE  /\ Issuer(o) \in Levels
           /\ o \in Levels /\ o # 1 => Issuer(o) = o - 1
           /\ o \in Dirs => o \notin Levels /\ Issuer(o) = N
BY ChainAssumption, DirAssumption DEF Issuer, Levels

\* The subject of a request is one that may be asked for, or a CA's own.
LEMMA SubjectOfRequest ==
    ASSUME IInv, pc \in {"sign", "rename"}
    PROVE  /\ Subject \in Subjects \cup Levels
           /\ self \in Owners
<1>1. self \in Owners /\ Running
  BY DEF IInv, TypeOK, Running
<1>2. self \in Dirs => request \in Subjects
  BY <1>1, DirAssumption DEF IInv, PhaseInv, Constructing, Issuing
<1> QED BY <1>1, <1>2 DEF Subject, Owners

\* Writing the buffer keeps which certificate files there are, and changes at
\* most the one that is being made.
LEMMA FlushedFiles ==
    ASSUME IInv
    PROVE  /\ Flushed \in [Owners -> Certificate \cup {None}]
           /\ \A o \in Owners : Flushed[o] = None <=> cert[o] = None
<1>1. CASE open = None
  BY <1>1 DEF Flushed, IInv, TypeOK
<1>2. CASE open # None
  <2>1. open \in Owners /\ cert[open] \in Certificate
    BY <1>2 DEF IInv, TypeOK
  <2>2. Issuer(open) \in dictionary /\ Issuer(open) \in Levels
    <3>1. open = self /\ self # 1 /\ Running
      BY <1>2 DEF IInv, OpenInv
    <3>2. CASE Constructing
      <4>1. self \in Levels /\ Issuer(self) = self - 1
        BY <2>1, <3>1, <3>2, Issuers DEF Constructing
      <4> QED BY <3>1, <3>2, <4>1, ChainAssumption DEF Constructing, Levels
    <3>3. CASE Issuing
      BY <2>1, <3>1, <3>3, Issuers DEF Issuing
    <3> QED BY <3>1, <3>2, <3>3 DEF IInv, PhaseInv
  <2>3. cert[Issuer(open)] \in Certificate
    BY <1>2, <2>2 DEF IInv, CertInv, OpenInv, TypeOK, Owners
  <2>4. Chain(open) \in SUBSET Levels
    BY <2>2, <2>3 DEF Chain, Certificate
  <2>5. [cert[open] EXCEPT !.chain = Chain(open)] \in Certificate
    BY <2>1, <2>4 DEF Certificate
  <2>6. Flushed = [cert EXCEPT ![open] = [cert[open] EXCEPT !.chain = Chain(open)]]
    BY <1>2 DEF Flushed
  <2> QED BY <2>1, <2>5, <2>6, NoneAssumption DEF IInv, TypeOK
<1> QED BY <1>1, <1>2

-----------------------------------------------------------------------------
(* The invariant is inductive.                                             *)

\* It holds before the first run: nothing exists yet.
LEMMA Initially == Init => IInv
<1> SUFFICES ASSUME Init PROVE IInv
  OBVIOUS
<1>1. TypeOK
  <2>1. 1 \in Owners /\ 0 \in 0 .. MaxRequests /\ 0 \in 0 .. MaxRuns
    BY ChainAssumption, BoundAssumption DEF Owners, Levels
  <2>2. index \in [Levels -> Seq(Entry)]
    BY DEF Init
  <2>3. DOMAIN global = {}
    BY DEF Init
  <2>4. files \in [Levels -> [FileNames -> {"absent", "empty", "full"}]]
    BY DEF Init
  <2>5. cert \in [Owners -> Certificate \cup {None}] /\ open = None
    BY DEF Init
  <2>6. DOMAIN crl = {} /\ crl \in [DOMAIN crl -> SUBSET Nat]
    BY DEF Init
  <2>7. asked \in [Dirs -> Subjects \cup {None}]
    BY DEF Init
  <2> QED BY <2>1, <2>2, <2>3, <2>4, <2>5, <2>6, <2>7 DEF Init, TypeOK, Steps
<1>2. ~Running /\ pc = "off" /\ open = None
  BY DEF Init, Running
<1> QED BY <1>1, <1>2 DEF IInv, PhaseInv, CertInv, OpenInv, ListInv, RevokeInv

\* Every step keeps it: those of a CA's constructor, those that ask for, revoke
\* and sign certificates, those that publish CRLs, and a stop anywhere.
LEMMA Inductive == IInv /\ [Next]_vars => IInv'
<1> SUFFICES ASSUME IInv, [Next]_vars PROVE IInv'
  OBVIOUS
<1> USE ChainAssumption, DirAssumption, NoneAssumption, BoundAssumption
<1>1. CASE Start
  <2>1. TypeOK'
    BY <1>1 DEF IInv, TypeOK, Steps, Owners, Levels, Start, disk
  <2>2. PhaseInv'
    <3>1. 1 \in Levels /\ 1 .. 1 - 1 = {}
      BY DEF Levels
    <3> QED BY <1>1, <3>1 DEF Start, PhaseInv, Constructing, CASteps
  <2>3. CertInv'
    BY <1>1 DEF IInv, CertInv, Start
  <2>4. OpenInv'
    BY <1>1 DEF IInv, OpenInv, Start
  <2>5. ListInv'
    BY <1>1 DEF IInv, ListInv, Start
  <2>6. RevokeInv'
    BY <1>1 DEF IInv, RevokeInv, Start
  <2> QED BY <2>1, <2>2, <2>3, <2>4, <2>5, <2>6 DEF IInv
<1>2. CASE Create
  <2>1. TypeOK'
    BY <1>2 DEF IInv, TypeOK, Steps, Create, Go, history
  <2>2. PhaseInv'
    BY <1>2 DEF IInv, PhaseInv, Constructing, Issuing, CASteps, Create, Go,
        Running
  <2>3. CertInv'
    BY <1>2 DEF IInv, CertInv, Create, Go, Running
  <2>4. OpenInv'
    BY <1>2 DEF IInv, OpenInv, Create, Go
  <2>5. ListInv'
    BY <1>2 DEF IInv, ListInv, Unlisted, Revoked, Create, Go, Running
  <2>6. RevokeInv'
    BY <1>2 DEF IInv, RevokeInv, Unrevoked, Create, Go, history, Running
  <2> QED BY <2>1, <2>2, <2>3, <2>4, <2>5, <2>6 DEF IInv
<1>3. CASE Close
  <2>1. TypeOK'
    BY <1>3 DEF IInv, TypeOK, Steps, Close, Go, history
  <2>2. PhaseInv'
    BY <1>3 DEF IInv, PhaseInv, Constructing, Issuing, CASteps,
        CertificateSteps, ListSteps, Close, Go, Running
  <2>3. CertInv'
    BY <1>3 DEF IInv, CertInv, Close, Go, Running
  <2>4. OpenInv'
    BY <1>3 DEF IInv, OpenInv, Close, Go
  <2>5. ListInv'
    BY <1>3 DEF IInv, ListInv, Unlisted, Revoked, Close, Go, Running
  <2>6. RevokeInv'
    BY <1>3 DEF IInv, RevokeInv, Unrevoked, ListSteps, Close, Go, history,
        Running
  <2> QED BY <2>1, <2>2, <2>3, <2>4, <2>5, <2>6 DEF IInv
<1>4. CASE FindCACertificate
  <2>1. TypeOK'
    BY <1>4 DEF IInv, TypeOK, Steps, FindCACertificate, Go, Skip, disk, history
  <2>2. PhaseInv'
    BY <1>4 DEF IInv, PhaseInv, Constructing, Issuing, CASteps,
        FindCACertificate, Go, Skip, Running
  <2>3. CertInv'
    BY <1>4 DEF IInv, CertInv, FindCACertificate, Go, Skip, disk, Running
  <2>4. OpenInv'
    BY <1>4 DEF IInv, OpenInv, FindCACertificate, Go, Skip
  <2>5. ListInv'
    BY <1>4 DEF IInv, ListInv, Unlisted, Revoked, FindCACertificate, Go,
        Skip, disk, Running
  <2>6. RevokeInv'
    BY <1>4 DEF IInv, RevokeInv, Unrevoked, FindCACertificate, Go, Skip,
        disk, history, Running
  <2> QED BY <2>1, <2>2, <2>3, <2>4, <2>5, <2>6 DEF IInv
<1>5. CASE RemoveInvalid
  <2>1. TypeOK'
    <3>1. open = None
      BY <1>5 DEF IInv, OpenInv, RemoveInvalid, Go
    <3>2. cert' \in [Owners -> Certificate \cup {None}]
      BY <1>5 DEF IInv, TypeOK, RemoveInvalid
    <3>3. DOMAIN crl' \subseteq Levels /\ crl' \in [DOMAIN crl' -> SUBSET Nat]
      BY <1>5 DEF IInv, TypeOK, RemoveInvalid
    <3> QED BY <1>5, <3>1, <3>2, <3>3 DEF IInv, TypeOK, Steps,
        RemoveInvalid, Go, history
  <2>2. PhaseInv'
    BY <1>5 DEF IInv, PhaseInv, Constructing, Issuing, CASteps,
        CertificateSteps, RemoveInvalid, Go, Running
  <2>3. CertInv'
    <3>1. pc = "invalid" /\ Running /\ dictionary' = dictionary
      BY <1>5 DEF RemoveInvalid, Go, Running
    <3>2. \A c \in dictionary : c # self /\ c \in Levels /\ c \in Owners
      <4>1. CASE Constructing
        BY <3>1, <4>1 DEF Constructing, Levels, Owners
      <4>2. CASE Issuing
        BY <3>1, <4>2 DEF Issuing, Owners
      <4> QED BY <3>1, <4>1, <4>2 DEF IInv, PhaseInv
    <3>3. \A c \in dictionary : cert'[c] = cert[c]
      BY <1>5, <3>2 DEF IInv, RemoveInvalid
    <3> QED BY <1>5, <3>1, <3>3 DEF IInv, CertInv, RemoveInvalid, Go
  <2>4. OpenInv'
    BY <1>5 DEF IInv, OpenInv, RemoveInvalid, Go
  <2>5. ListInv'
    <3>1. pc = "invalid" /\ Running /\ dictionary' = dictionary
      BY <1>5 DEF RemoveInvalid, Go, Running
    <3>2. \A c \in dictionary : c # self /\ c \in Levels /\ c \in Owners
      <4>1. CASE Constructing
        BY <3>1, <4>1 DEF Constructing, Levels, Owners
      <4>2. CASE Issuing
        BY <3>1, <4>2 DEF Issuing, Owners
      <4> QED BY <3>1, <4>1, <4>2 DEF IInv, PhaseInv
    <3>3. \A c \in dictionary : c \in DOMAIN crl =>
            c \in DOMAIN crl' /\ crl'[c] = crl[c] /\ Revoked(c)' = Revoked(c)
      BY <1>5, <3>2 DEF RemoveInvalid, Revoked
    <3> QED BY <1>5, <3>1, <3>3 DEF IInv, ListInv, Unlisted
  <2>6. RevokeInv'
    BY <1>5 DEF IInv, RevokeInv, Unrevoked, ListSteps, RemoveInvalid, Go,
        history, Running
  <2> QED BY <2>1, <2>2, <2>3, <2>4, <2>5, <2>6 DEF IInv
<1>6. CASE SelfSign
  <2>1. TypeOK'
    <3>1. 1 \in Levels /\ open = None /\ pc = "selfSign"
      BY <1>6 DEF SelfSign, Go, IInv, OpenInv, Levels
    <3>2. [subject |-> 1, serial |-> 0, chain |-> {}] \in Certificate
      BY <3>1 DEF Certificate
    <3> QED BY <1>6, <3>1, <3>2 DEF IInv, TypeOK, Steps, SelfSign, Go, history
  <2>2. PhaseInv'
    BY <1>6 DEF IInv, PhaseInv, Constructing, Issuing, CASteps,
        CertificateSteps, ListSteps, SelfSign, Go, Running
  <2>3. CertInv'
    <3>1. self = 1 /\ dictionary = {} /\ 1 \in Owners
      BY <1>6 DEF SelfSign, Go, IInv, PhaseInv, Constructing, Issuing,
          CertificateSteps, ListSteps, Running, Owners
    <3>2. [subject |-> 1, serial |-> 0, chain |-> {}] # None
      <4>1. [subject |-> 1, serial |-> 0, chain |-> {}] \in Certificate
        BY DEF Certificate, Levels
      <4> QED BY <4>1
    <3> QED BY <1>6, <3>1, <3>2 DEF IInv, TypeOK, CertInv, SelfSign, Go
  <2>4. OpenInv'
    BY <1>6 DEF IInv, OpenInv, SelfSign, Go
  <2>5. ListInv'
    BY <1>6 DEF IInv, ListInv, Unlisted, Revoked, SelfSign, Go, Running
  <2>6. RevokeInv'
    <3>1. self = 1 /\ 1 \in Levels
      BY <1>6 DEF SelfSign, Go, IInv, PhaseInv, Constructing, Issuing,
          CertificateSteps, ListSteps, Running
    <3>2. \A d \in Dirs : d # self /\ cert'[d] = cert[d]
      BY <1>6, <3>1 DEF SelfSign, IInv
    <3> QED BY <1>6, <3>2 DEF IInv, RevokeInv, Unrevoked, SelfSign, Go,
        history, Running
  <2> QED BY <2>1, <2>2, <2>3, <2>4, <2>5, <2>6 DEF IInv
<1>7. CASE MakeRequest
  <2>1. TypeOK'
    BY <1>7 DEF IInv, TypeOK, Steps, MakeRequest, Go, Skip, disk, history
  <2>2. PhaseInv'
    BY <1>7 DEF IInv, PhaseInv, Constructing, Issuing, CASteps,
        CertificateSteps, MakeRequest, Go, Skip, Running
  <2>3. CertInv'
    BY <1>7 DEF IInv, CertInv, MakeRequest, Go, Skip, disk, Running
  <2>4. OpenInv'
    BY <1>7 DEF IInv, OpenInv, MakeRequest, Go, Skip
  <2>5. ListInv'
    BY <1>7 DEF IInv, ListInv, Unlisted, Revoked, MakeRequest, Go, Skip,
        disk, Running
  <2>6. RevokeInv'
    BY <1>7 DEF IInv, RevokeInv, Unrevoked, ListSteps, MakeRequest, Go,
        Skip, disk, history, Running
  <2> QED BY <2>1, <2>2, <2>3, <2>4, <2>5, <2>6 DEF IInv
<1>8. CASE Sign
  <2>1. TypeOK'
    <3>1. pc = "sign"
      BY <1>8 DEF Sign, Go
    <3>2. Issuer(self) \in Levels /\ index[Issuer(self)] \in Seq(Entry)
      BY <3>1, SubjectOfRequest, Issuers DEF IInv, TypeOK
    <3>3. [subject |-> Subject, revoked |-> FALSE] \in Entry
      BY <3>1, SubjectOfRequest DEF Entry
    <3>4. index' \in [Levels -> Seq(Entry)]
      BY <1>8, <3>2, <3>3, AppendedIndex DEF IInv, TypeOK, Sign
    <3> QED BY <1>8, <3>4 DEF IInv, TypeOK, Steps, Sign, Go, history
  <2>2. PhaseInv'
    BY <1>8 DEF IInv, PhaseInv, Constructing, Issuing, CASteps,
        CertificateSteps, Sign, Go, Running
  <2>3. CertInv'
    BY <1>8 DEF IInv, CertInv, Sign, Go, Running
  <2>4. OpenInv'
    BY <1>8 DEF IInv, OpenInv, Sign, Go
  <2>5. ListInv'
    BY <1>8 DEF IInv, ListInv, Unlisted, Revoked, Sign, Go, Running
  <2>6. RevokeInv'
    BY <1>8 DEF IInv, RevokeInv, Unrevoked, ListSteps, Sign, Go, history,
        Running
  <2> QED BY <2>1, <2>2, <2>3, <2>4, <2>5, <2>6 DEF IInv
<1>9. CASE Rename
  <2>1. TypeOK'
    <3>1. pc = "rename"
      BY <1>9 DEF Rename, Go
    <3>2. index[Issuer(self)] \in Seq(Entry)
      BY <3>1, SubjectOfRequest, Issuers DEF IInv, TypeOK
    <3> DEFINE new == [subject |-> Subject, serial |-> Len(index[Issuer(self)]),
                       chain |-> {}]
    <3>3. new \in Certificate /\ new # None
      <4>1. Len(index[Issuer(self)]) \in Nat
        BY <3>2
      <4> QED BY <3>1, <4>1, SubjectOfRequest DEF Certificate
    <3>4. self \in Owners /\ cert' = [cert EXCEPT ![self] = new] /\ open' = self
      BY <1>9, <3>1, SubjectOfRequest DEF Rename
    <3>5. cert' \in [Owners -> Certificate \cup {None}] /\ cert'[open'] # None
      <4> HIDE DEF new
      <4> QED BY <3>3, <3>4 DEF IInv, TypeOK
    <3> QED BY <1>9, <3>4, <3>5 DEF IInv, TypeOK, Steps, Rename, Go, history
  <2>2. PhaseInv'
    BY <1>9 DEF IInv, PhaseInv, Constructing, Issuing, CASteps,
        CertificateSteps, Rename, Go, Running
  <2>3. CertInv'
    <3>1. cert'[open'] # None /\ open' = self /\ self' = self
      BY <1>9, <2>1, SubjectOfRequest DEF Rename, TypeOK
    <3>2. \A o \in Owners : o # self => cert'[o] = cert[o]
      BY <1>9 DEF IInv, Rename
    <3>3. dictionary' = dictionary /\ dictionary \subseteq Owners /\ Running
      BY <1>9 DEF IInv, TypeOK, Rename, Go, Owners, Running
    <3>4. pc' # "crl"
      BY <1>9 DEF Rename, Go
    <3> QED BY <3>1, <3>2, <3>3, <3>4 DEF IInv, CertInv
  <2>4. OpenInv'
    <3>1. pc = "rename" /\ Running
      BY <1>9 DEF Rename, Go, Running
    <3>2. self # 1
      BY <3>1 DEF IInv, PhaseInv, Constructing, Issuing, Levels
    <3> QED BY <1>9, <3>1, <3>2 DEF OpenInv, Rename, Go, Running
  <2>5. ListInv'
    BY <1>9 DEF IInv, ListInv, Unlisted, Revoked, Rename, Go, Running
  <2>6. RevokeInv'
    BY <1>9 DEF IInv, RevokeInv, Unrevoked, ListSteps, Rename, Go, history,
        Running
  <2> QED BY <2>1, <2>2, <2>3, <2>4, <2>5, <2>6 DEF IInv
<1>10. CASE Flush
  <2>1. TypeOK'
    <3>1. /\ Flushed \in [Owners -> Certificate \cup {None}]
          /\ \A o \in Owners : Flushed[o] = None <=> cert[o] = None
      BY FlushedFiles
    <3> QED BY <1>10, <3>1 DEF IInv, TypeOK, Steps, Flush, Go, history
  <2>2. PhaseInv'
    BY <1>10 DEF IInv, PhaseInv, Constructing, Issuing, CASteps,
        CertificateSteps, Flush, Go, Running
  <2>3. CertInv'
    <3>1. /\ Flushed \in [Owners -> Certificate \cup {None}]
          /\ \A o \in Owners : Flushed[o] = None <=> cert[o] = None
      BY FlushedFiles
    <3> QED BY <1>10, <3>1 DEF IInv, TypeOK, CertInv, Flush, Go, Running,
        Owners
  <2>4. OpenInv'
    BY <1>10 DEF IInv, OpenInv, Flush
  <2>5. ListInv'
    BY <1>10 DEF IInv, ListInv, Unlisted, Revoked, Flush, Go, Running
  <2>6. RevokeInv'
    <3>1. /\ Flushed \in [Owners -> Certificate \cup {None}]
          /\ \A o \in Owners : Flushed[o] = None <=> cert[o] = None
      BY FlushedFiles
    <3> QED BY <1>10, <3>1 DEF IInv, RevokeInv, Unrevoked,
        ListSteps, Flush, Go, history, Running, Owners
  <2> QED BY <2>1, <2>2, <2>3, <2>4, <2>5, <2>6 DEF IInv
<1>11. CASE Verify
  <2>1. TypeOK'
    BY <1>11 DEF IInv, TypeOK, Steps, Verify, Go, Skip, disk, history
  <2>2. PhaseInv'
    BY <1>11 DEF IInv, PhaseInv, Constructing, Issuing, CASteps,
        CertificateSteps, Verify, Go, Skip, Running
  <2>3. CertInv'
    BY <1>11 DEF IInv, CertInv, Verify, Go, Skip, disk, Running
  <2>4. OpenInv'
    <3>1. self \in Levels \/ self \in Dirs
      BY DEF IInv, TypeOK, Owners
    <3> QED BY <1>11, <3>1 DEF IInv, OpenInv, Verify, Go, Skip, Running
  <2>5. ListInv'
    BY <1>11 DEF IInv, ListInv, Unlisted, Revoked, Verify, Go, Skip, disk,
        Running
  <2>6. RevokeInv'
    BY <1>11 DEF IInv, RevokeInv, Unrevoked, ListSteps, Verify, Go, Skip,
        disk, history, Running
  <2> QED BY <2>1, <2>2, <2>3, <2>4, <2>5, <2>6 DEF IInv
<1>12. CASE Return
  <2>1. TypeOK'
    <3>1. /\ Flushed \in [Owners -> Certificate \cup {None}]
          /\ \A o \in Owners : Flushed[o] = None <=> cert[o] = None
      BY FlushedFiles
    <3>2. self \in Levels
      BY <1>12 DEF Return, Go, IInv, PhaseInv, Constructing, Issuing,
          CertificateSteps, ListSteps, Running
    <3>3. self' \in Owners
      BY <1>12, <3>2 DEF Return, Owners, Levels
    <3> QED BY <1>12, <3>1, <3>3 DEF IInv, TypeOK, Steps, Return, Go, history
  <2>2. PhaseInv'
    <3>1. Constructing /\ pc = "return" /\ Running
      BY <1>12 DEF Return, Go, IInv, PhaseInv, Issuing, CertificateSteps,
          ListSteps, Running
    <3>2. self \in Levels /\ dictionary = 1 .. self /\ then = "return" /\ request = None
      BY <3>1 DEF Constructing, CASteps
    <3>3. CASE self = N
      BY <1>12, <3>2, <3>3 DEF Return, Go, PhaseInv, Issuing, Levels
    <3>4. CASE self # N
      <4>1. self + 1 \in Levels /\ (self + 1) - 1 = self
        <5>1. self \in 1 .. N /\ N \in Nat
          BY <3>2 DEF Levels
        <5>2. self \in Nat /\ (self + 1) - 1 = self /\ self + 1 \in 1 .. N
          BY <3>4, <5>1
        <5> QED BY <5>2 DEF Levels
      <4>2. self' = self + 1 /\ pc' = "create"
        BY <1>12, <3>4 DEF Return, Go
      <4>3. dictionary' = 1 .. self' - 1 /\ self' \in Levels
        <5>1. dictionary' = dictionary
          BY <1>12 DEF Return, Go
        <5>2. self' - 1 = self
          BY <4>1, <4>2, Zenon
        <5>3. dictionary' = 1 .. (self' - 1)
          BY <3>2, <5>1, <5>2, Zenon
        <5> QED BY <4>1, <4>2, <5>3
      <4> QED BY <1>12, <3>2, <4>2, <4>3 DEF Return, PhaseInv,
          Constructing, CASteps
    <3> QED BY <3>3, <3>4
  <2>3. CertInv'
    <3>1. /\ Flushed \in [Owners -> Certificate \cup {None}]
          /\ \A o \in Owners : Flushed[o] = None <=> cert[o] = None
      BY FlushedFiles
    <3> QED BY <1>12, <3>1 DEF IInv, TypeOK, CertInv, Return, Go, Running,
        Owners
  <2>4. OpenInv'
    BY <1>12 DEF IInv, OpenInv, Return
  <2>5. ListInv'
    BY <1>12 DEF IInv, ListInv, Unlisted, Revoked, Return, Go, Running
  <2>6. RevokeInv'
    <3>1. /\ Flushed \in [Owners -> Certificate \cup {None}]
          /\ \A o \in Owners : Flushed[o] = None <=> cert[o] = None
      BY FlushedFiles
    <3>2. self \in Levels /\ \A d \in Dirs : d # self
      BY <1>12 DEF Return, Go, IInv, PhaseInv, Constructing, Issuing,
          CertificateSteps, ListSteps, Running
    <3> QED BY <1>12, <3>1, <3>2 DEF IInv, RevokeInv, Unrevoked, Return,
        Go, history, Running, Owners
  <2> QED BY <2>1, <2>2, <2>3, <2>4, <2>5, <2>6 DEF IInv
<1>13. ASSUME NEW subject \in Subjects, Ask(subject) PROVE IInv'
  <2>1. TypeOK'
    BY <1>13 DEF IInv, TypeOK, Steps, Owners, Ask, disk
  <2>2. PhaseInv'
    BY <1>13 DEF IInv, PhaseInv, Constructing, Issuing, CASteps,
        CertificateSteps, Ask, Running
  <2>3. CertInv'
    BY <1>13 DEF IInv, CertInv, Ask, disk, Running
  <2>4. OpenInv'
    BY <1>13 DEF IInv, OpenInv, Ask
  <2>5. ListInv'
    BY <1>13 DEF IInv, ListInv, Unlisted, Revoked, Ask, disk, Running
  <2>6. RevokeInv'
    BY <1>13 DEF IInv, RevokeInv, Unrevoked, ListSteps, Ask, disk, Running
  <2> QED BY <2>1, <2>2, <2>3, <2>4, <2>5, <2>6 DEF IInv
<1>14. CASE MakeKey
  <2>1. TypeOK'
    BY <1>14 DEF IInv, TypeOK, Steps, PhaseInv, Constructing, Issuing,
        CASteps, MakeKey, Go, history, Running
  <2>2. PhaseInv'
    BY <1>14 DEF IInv, PhaseInv, Constructing, Issuing, CASteps,
        CertificateSteps, MakeKey, Go, Running
  <2>3. CertInv'
    BY <1>14 DEF IInv, CertInv, MakeKey, Go, Running
  <2>4. OpenInv'
    BY <1>14 DEF IInv, OpenInv, MakeKey, Go
  <2>5. ListInv'
    BY <1>14 DEF IInv, ListInv, Unlisted, Revoked, MakeKey, Go, Running
  <2>6. RevokeInv'
    BY <1>14 DEF IInv, RevokeInv, Unrevoked, ListSteps, MakeKey, Go,
        history, Running
  <2> QED BY <2>1, <2>2, <2>3, <2>4, <2>5, <2>6 DEF IInv
<1>15. CASE FindKey
  <2>1. TypeOK'
    BY <1>15 DEF IInv, TypeOK, Steps, FindKey, Go, Skip, disk, history
  <2>2. PhaseInv'
    BY <1>15 DEF IInv, PhaseInv, Constructing, Issuing, CASteps,
        CertificateSteps, FindKey, Go, Skip, Running
  <2>3. CertInv'
    BY <1>15 DEF IInv, CertInv, FindKey, Go, Skip, disk, Running
  <2>4. OpenInv'
    BY <1>15 DEF IInv, OpenInv, FindKey, Go, Skip
  <2>5. ListInv'
    BY <1>15 DEF IInv, ListInv, Unlisted, Revoked, FindKey, Go, Skip, disk,
        Running
  <2>6. RevokeInv'
    BY <1>15 DEF IInv, RevokeInv, Unrevoked, ListSteps, FindKey, Go, Skip,
        disk, history, Running
  <2> QED BY <2>1, <2>2, <2>3, <2>4, <2>5, <2>6 DEF IInv
<1>16. CASE Revoke
  <2>1. TypeOK'
    <3>1. N \in Levels /\ index[N] \in Seq(Entry)
      BY DEF IInv, TypeOK, Levels
    <3>2. index' = [index EXCEPT ![N] =
                      [index[N] EXCEPT ![cert[self].serial].revoked = TRUE]]
      BY <1>16 DEF Revoke
    <3>3. index' \in [Levels -> Seq(Entry)]
      BY <3>1, <3>2, MarkedIndex DEF IInv, TypeOK
    <3> QED BY <1>16, <3>3 DEF IInv, TypeOK, Steps, Revoke, Go, history
  <2>2. PhaseInv'
    BY <1>16 DEF IInv, PhaseInv, Constructing, Issuing, CASteps, ListSteps,
        Revoke, Go, Running
  <2>3. CertInv'
    BY <1>16 DEF IInv, CertInv, PhaseInv, Constructing, Issuing, CASteps,
        Revoke, Go, Running
  <2>4. OpenInv'
    BY <1>16 DEF IInv, OpenInv, Revoke
  <2>5. ListInv'
    BY <1>16 DEF IInv, ListInv, Unlisted, Revoked, Revoke, Go, Running
  <2>6. RevokeInv'
    BY <1>16 DEF IInv, RevokeInv, Unrevoked, Revoke, Go, history, Running
  <2> QED BY <2>1, <2>2, <2>3, <2>4, <2>5, <2>6 DEF IInv
<1>17. CASE RemoveRevoked
  <2>1. TypeOK'
    BY <1>17 DEF IInv, TypeOK, Steps, OpenInv, RemoveRevoked, Go, history
  <2>2. PhaseInv'
    BY <1>17 DEF IInv, PhaseInv, Constructing, Issuing, CASteps,
        CertificateSteps, RemoveRevoked, Go, Running
  <2>3. CertInv'
    BY <1>17 DEF IInv, CertInv, PhaseInv, Constructing, Issuing, CASteps,
        RemoveRevoked, Go, Running
  <2>4. OpenInv'
    BY <1>17 DEF IInv, OpenInv, RemoveRevoked, Go
  <2>5. ListInv'
    BY <1>17 DEF IInv, ListInv, Unlisted, Revoked, RemoveRevoked, Go, Running
  <2>6. RevokeInv'
    BY <1>17 DEF IInv, TypeOK, RevokeInv, Unrevoked, RemoveRevoked, Go,
        history, Running
  <2> QED BY <2>1, <2>2, <2>3, <2>4, <2>5, <2>6 DEF IInv
<1>18. CASE EndOfRequests
  <2>1. TypeOK'
    BY <1>18 DEF IInv, TypeOK, Steps, EndOfRequests, Go, disk, history
  <2>2. PhaseInv'
    BY <1>18 DEF IInv, PhaseInv, Constructing, Issuing, ListSteps,
        EndOfRequests, Go, Running
  <2>3. CertInv'
    BY <1>18 DEF IInv, CertInv, PhaseInv, Constructing, Issuing,
        EndOfRequests, Go, disk, Running
  <2>4. OpenInv'
    BY <1>18 DEF IInv, OpenInv, EndOfRequests, Go
  <2>5. ListInv'
    BY <1>18 DEF IInv, ListInv, Unlisted, Revoked, EndOfRequests, Go, disk,
        Running
  <2>6. RevokeInv'
    BY <1>18 DEF IInv, RevokeInv, Unrevoked, EndOfRequests, Go, disk,
        history, Running
  <2> QED BY <2>1, <2>2, <2>3, <2>4, <2>5, <2>6 DEF IInv
<1>19. CASE GenerateCRL
  <2>1. TypeOK'
    <3>1. Lister \in Levels
      BY <1>19 DEF GenerateCRL, Lister, IInv, PhaseInv, Constructing,
          Issuing, CertificateSteps, Running, Levels
    <3>2. Revoked(Lister) \in SUBSET Nat
      BY <3>1 DEF Revoked, IInv, TypeOK
    <3>3. dictionary' \in SUBSET Levels
      BY <1>19 DEF GenerateCRL, IInv, TypeOK, PhaseInv, Constructing,
          Issuing, CertificateSteps, Running
    <3> QED BY <1>19, <3>1, <3>2, <3>3 DEF IInv, TypeOK, Steps,
        GenerateCRL, history
  <2>2. PhaseInv'
    <3>1. pc = "crl" /\ Running
      BY <1>19 DEF GenerateCRL, Running
    <3>2. CASE Constructing
      <4>1. self \in Levels /\ (1 .. self - 1) \cup {self} = 1 .. self
        BY <3>2 DEF Constructing, Levels
      <4> QED BY <1>19, <3>1, <3>2, <4>1 DEF GenerateCRL, PhaseInv,
          Constructing
    <3>3. CASE Issuing
      BY <1>19, <3>1, <3>3 DEF GenerateCRL, PhaseInv, Issuing,
          CertificateSteps, ListSteps
    <3> QED BY <3>1, <3>2, <3>3 DEF IInv, PhaseInv
  <2>3. CertInv'
    BY <1>19 DEF IInv, CertInv, PhaseInv, Constructing, Issuing,
        CertificateSteps, GenerateCRL, Running
  <2>4. OpenInv'
    BY <1>19 DEF IInv, OpenInv, GenerateCRL, Running
  <2>5. ListInv'
    <3>1. Lister \in Levels
      BY <1>19 DEF GenerateCRL, Lister, IInv, PhaseInv, Constructing,
          Issuing, CertificateSteps, Running, Levels
    <3>2. crl' = [c \in DOMAIN crl \cup {Lister} |->
                    IF c = Lister THEN Revoked(c) ELSE crl[c]]
      BY <1>19 DEF GenerateCRL
    <3>3. /\ Lister \in DOMAIN crl' /\ crl'[Lister] = Revoked(Lister)
          /\ \A c \in DOMAIN crl : c # Lister =>
                c \in DOMAIN crl' /\ crl'[c] = crl[c]
      BY <3>2
    <3>4. \A c \in dictionary : c \in DOMAIN crl' /\ crl'[c] = Revoked(c)
      <4> TAKE c \in dictionary
      <4>1. c \in DOMAIN crl /\ (Unlisted(c) \/ crl[c] = Revoked(c))
        BY <1>19 DEF GenerateCRL, Running, IInv, ListInv
      <4>2. Unlisted(c) => c = Lister
        BY DEF Unlisted, Lister
      <4> QED BY <3>3, <4>1, <4>2
    <3>5. then = "return" => Lister = self
      BY DEF Lister
    <3>6. \A c \in dictionary' : c \in DOMAIN crl' /\ crl'[c] = Revoked(c)
      BY <1>19, <3>3, <3>4, <3>5 DEF GenerateCRL
    <3>7. \A c : Revoked(c)' = Revoked(c)
      BY <1>19 DEF GenerateCRL, Revoked
    <3> QED BY <3>6, <3>7 DEF ListInv
  <2>6. RevokeInv'
    BY <1>19 DEF IInv, RevokeInv, Unrevoked, ListSteps, GenerateCRL,
        history, Running
  <2> QED BY <2>1, <2>2, <2>3, <2>4, <2>5, <2>6 DEF IInv
<1>20. CASE Truncate
  <2>1. TypeOK'
    BY <1>20 DEF IInv, TypeOK, Steps, Truncate, Go, history
  <2>2. PhaseInv'
    BY <1>20 DEF IInv, PhaseInv, Constructing, Issuing, CASteps,
        CertificateSteps, ListSteps, Truncate, Go, Running
  <2>3. CertInv'
    BY <1>20 DEF IInv, CertInv, Truncate, Go, Running
  <2>4. OpenInv'
    BY <1>20 DEF IInv, OpenInv, Truncate, Go, Running
  <2>5. ListInv'
    BY <1>20 DEF IInv, ListInv, Unlisted, Revoked, Truncate, Go, Running
  <2>6. RevokeInv'
    BY <1>20 DEF IInv, RevokeInv, Unrevoked, ListSteps, Truncate, Go,
        history, Running
  <2> QED BY <2>1, <2>2, <2>3, <2>4, <2>5, <2>6 DEF IInv
<1>21. CASE Concatenate
  <2>1. TypeOK'
    BY <1>21 DEF IInv, TypeOK, Steps, Concatenate, Go, history
  <2>2. PhaseInv'
    <3>1. pc = "cat" /\ Running
      BY <1>21 DEF Concatenate, Go, Running
    <3>2. CASE Constructing
      <4>1. then = "return" /\ pc' = "return"
        BY <1>21, <3>2 DEF Constructing, Concatenate, Go
      <4> QED BY <1>21, <3>1, <3>2, <4>1 DEF Concatenate, Go, PhaseInv,
          Constructing, CASteps
    <3>3. CASE Issuing
      <4>1. then \in {"replace", "revoke", "end"} /\ self \in Dirs
        BY <3>1, <3>3 DEF Issuing, CertificateSteps, IInv, TypeOK
      <4>2. CASE then = "end"
        <5>1. pc' = "done"
          BY <1>21, <4>2 DEF Concatenate, Go
        <5> QED BY <1>21, <3>3, <5>1 DEF Concatenate, Go, PhaseInv,
            Issuing, Running
      <4>3. CASE then # "end"
        <5>1. pc' = "remove"
          BY <1>21, <4>1, <4>3 DEF Concatenate, Go
        <5> QED BY <1>21, <3>3, <4>1, <4>3, <5>1 DEF Concatenate, Go,
            PhaseInv, Issuing, CertificateSteps
      <4> QED BY <4>2, <4>3
    <3> QED BY <3>1, <3>2, <3>3 DEF IInv, PhaseInv
  <2>3. CertInv'
    BY <1>21 DEF IInv, CertInv, Concatenate, Go, Running
  <2>4. OpenInv'
    <3>1. pc = "cat" /\ Running
      BY <1>21 DEF Concatenate, Go, Running
    <3>2. CASE Constructing
      <4>1. pc' = "return" /\ Running'
        BY <1>21, <3>2 DEF Constructing, Concatenate, Go, Running
      <4> QED BY <1>21, <3>1, <3>2, <4>1 DEF IInv, Concatenate, OpenInv
    <3>3. CASE Issuing
      BY <1>21, <3>1, <3>3 DEF IInv, OpenInv, Issuing, Concatenate
    <3> QED BY <3>1, <3>2, <3>3 DEF IInv, PhaseInv
  <2>5. ListInv'
    BY <1>21 DEF IInv, ListInv, Unlisted, Revoked, Concatenate, Go, Running
  <2>6. RevokeInv'
    <3>1. pc = "cat" /\ Running
      BY <1>21 DEF Concatenate, Go, Running
    <3>2. CASE then = "return"
      <4>1. self \in Levels /\ \A d \in Dirs : d # self
        BY <3>1, <3>2 DEF IInv, PhaseInv, Constructing, Issuing,
            CertificateSteps
      <4> QED BY <1>21, <3>1, <4>1 DEF IInv, RevokeInv, Unrevoked,
          Concatenate, Go, history
    <3>3. CASE then = "end"
      BY <1>21, <3>1, <3>3 DEF IInv, RevokeInv, Unrevoked, ListSteps,
          Concatenate, Go, history
    <3>4. CASE then \in {"replace", "revoke"}
      <4>1. pc' = "remove"
        BY <1>21, <3>4 DEF Concatenate, Go
      <4> QED BY <1>21, <3>1, <3>4, <4>1 DEF IInv, RevokeInv, Unrevoked,
          Concatenate, Go, history
    <3> QED BY <3>2, <3>3, <3>4 DEF IInv, TypeOK
  <2> QED BY <2>1, <2>2, <2>3, <2>4, <2>5, <2>6 DEF IInv
<1>22. CASE Refused
  <2>1. TypeOK'
    <3>1. /\ Flushed \in [Owners -> Certificate \cup {None}]
          /\ \A o \in Owners : Flushed[o] = None <=> cert[o] = None
      BY FlushedFiles
    <3> QED BY <1>22, <3>1 DEF IInv, TypeOK, Steps, Refused, history
  <2>2. PhaseInv'
    BY <1>22 DEF IInv, PhaseInv, Refused, Running
  <2>3. CertInv'
    BY <1>22 DEF IInv, CertInv, Refused, Running
  <2>4. OpenInv'
    BY <1>22 DEF IInv, OpenInv, Refused
  <2>5. ListInv'
    BY <1>22 DEF IInv, ListInv, Refused, Running
  <2>6. RevokeInv'
    BY <1>22 DEF IInv, RevokeInv, Refused, Running
  <2> QED BY <2>1, <2>2, <2>3, <2>4, <2>5, <2>6 DEF IInv
<1>23. CASE Stop
  <2>1. TypeOK'
    <3>1. /\ Flushed \in [Owners -> Certificate \cup {None}]
          /\ \A o \in Owners : Flushed[o] = None <=> cert[o] = None
      BY FlushedFiles
    <3> QED BY <1>23, <3>1 DEF IInv, TypeOK, Steps, Stop
  <2>2. PhaseInv'
    BY <1>23 DEF IInv, PhaseInv, Stop, Running
  <2>3. CertInv'
    BY <1>23 DEF IInv, CertInv, Stop, Running
  <2>4. OpenInv'
    BY <1>23 DEF IInv, OpenInv, Stop
  <2>5. ListInv'
    BY <1>23 DEF IInv, ListInv, Stop, Running
  <2>6. RevokeInv'
    BY <1>23 DEF IInv, RevokeInv, Stop, Running
  <2> QED BY <2>1, <2>2, <2>3, <2>4, <2>5, <2>6 DEF IInv
<1>24. CASE UNCHANGED vars
  BY <1>24 DEF IInv, TypeOK, PhaseInv, Constructing, Issuing, CertInv,
      OpenInv, ListInv, Unlisted, Revoked, RevokeInv, Unrevoked, Running, vars,
      disk, history
<1> QED BY <1>1, <1>2, <1>3, <1>4, <1>5, <1>6, <1>7, <1>8, <1>9, <1>10,
    <1>11, <1>12, <1>13, <1>14, <1>15, <1>16, <1>17, <1>18, <1>19, <1>20,
    <1>21, <1>22, <1>23, <1>24 DEF Next

-----------------------------------------------------------------------------
(* The theorems.                                                            *)

\* Type correctness: a file of a CA is absent, empty or whole, an index is a
\* sequence of entries, and the buffer is that of a file there is, whenever
\* runs are stopped.
THEOREM TypeCorrect == Spec => []TypeOK
<1>1. IInv => TypeOK
  BY DEF IInv
<1> QED BY <1>1, Initially, Inductive, PTL DEF Spec

\* A run that ends well has published every revocation of every CA, also
\* those of earlier runs that were stopped, in the CA's CRL and in the global
\* one; and a run that revokes leaves no certificate it was asked for.
THEOREM AllPublished == Spec => []Published
<1>1. IInv => Published
  <2> SUFFICES ASSUME IInv, pc = "done"
               PROVE  /\ crl = [c \in Levels |-> Revoked(c)] /\ global = crl
                      /\ opts.revoke =>
                            \A d \in Dirs : asked[d] # None => cert[d] = None
    BY DEF Published
  <2>1. dictionary = Levels /\ global = [c \in dictionary |-> crl[c]] /\ ~Running
    BY DEF IInv, PhaseInv, Running
  <2>2. \A c \in Levels : c \in DOMAIN crl /\ crl[c] = Revoked(c)
    BY <2>1 DEF IInv, ListInv, Unlisted
  <2>3. crl = [c \in Levels |-> crl[c]]
    BY <2>2 DEF IInv, TypeOK
  <2>4. crl = [c \in Levels |-> Revoked(c)]
    BY <2>2, <2>3
  <2>5. global = crl
    BY <2>1, <2>3
  <2>6. opts.revoke => \A d \in Dirs : asked[d] # None => cert[d] = None
    BY <2>1 DEF IInv, RevokeInv, Unrevoked
  <2> QED BY <2>4, <2>5, <2>6
<1> QED BY <1>1, Initially, Inductive, PTL DEF Spec

-----------------------------------------------------------------------------
(* That OpenSSL refuses nothing and no certificate is lost as long as no    *)
(* run is stopped, and that a run leaves fresh certificates whatever was    *)
(* stopped before it: the invariants.                                       *)

\* A CA's files are made in their order, and all of them before its
\* certificate; nothing removes one.
FilesInv ==
    /\ \A c \in Levels : \A i, j \in DOMAIN Files :
         i < j /\ files[c][Files[j]] # "absent" => files[c][Files[i]] # "absent"
    /\ \A c \in dictionary : Missing(c) = {}
    /\ self \in Levels /\ pc \in {"selfSign", "csr", "sign", "rename", "verify", "crl"} =>
         Missing(self) = {}
    /\ pc = "close" => self \in Levels /\ Missing(self) # DOMAIN Files

\* What a certificate file says is what the index of its issuer says of the
\* serial number; a request is for a subject of the directory at hand.
SerialInv ==
    /\ \A d \in Dirs : cert[d] # None =>
         /\ cert[d].subject \in Subjects /\ DirOf[cert[d].subject] = d
         /\ cert[d].serial \in DOMAIN index[N]
         /\ index[N][cert[d].serial].subject = cert[d].subject
    /\ cert[1] # None => cert[1].serial = 0
    /\ \A c \in Levels : c # N => Revoked(c) = {}
    /\ \A d \in Dirs : asked[d] # None => DirOf[asked[d]] = d
    /\ Running /\ self \in Dirs => DirOf[request] = self /\ asked[self] = request

\* Where a certificate is in the making.
MakingInv ==
    /\ pc \in {"csr", "sign", "rename"} => cert[self] = None
    /\ pc = "rename" =>
         LET s == index[Issuer(self)]
         IN s # <<>> /\ s[Len(s)] = [subject |-> Subject, revoked |-> FALSE]
    /\ pc \in {"replace", "revoke"} => cert[self] # None
    /\ pc \in ListSteps \cup {"remove"} /\ then \in {"replace", "revoke"} =>
         cert[self] # None /\ cert[self].serial \in Revoked(N)
    /\ then = "revoke" \/ pc = "revoke" => opts.revoke

\* As long as no run was stopped no file is empty but the one being written,
\* and no certificate precedes what belongs to it.
WholeInv ==
    ~cut =>
        /\ \A c \in Levels : \A i \in DOMAIN Files : files[c][Files[i]] = "empty" =>
             /\ pc = "close" /\ c = self
             /\ \A j \in DOMAIN Files : i < j => files[c][Files[j]] = "absent"
        /\ \A c \in Levels : cert[c] # None => Missing(c) = {}
        /\ \A d \in Dirs : cert[d] # None => d \in keys
        /\ pc \in {"close", "invalid"} => cert[self] = None
        /\ pc # "stopped"

\* No certificate of a CA is signed twice, and those that lead to a
\* certificate are in its file, once it is written.
ChainInv ==
    ~cut =>
        /\ \A c \in Levels : c # 1 /\ cert[c] = None /\ ~(pc = "rename" /\ self = c) =>
             index[c - 1] = <<>>
        /\ \A o \in Owners : cert[o] # None /\ open # o =>
             Between(o) \subseteq cert[o].chain

\* Each valid certificate has a file or is about to get it; each file is of a
\* valid certificate or of the one being revoked.
AccountInv ==
    ~cut =>
        /\ \A s \in DOMAIN index[N] : ~index[N][s].revoked =>
             \/ \E d \in Dirs : cert[d] # None /\ cert[d].serial = s
             \/ pc = "rename" /\ self \in Dirs /\ s = Len(index[N])
        /\ \A d \in Dirs : cert[d] # None /\ cert[d].serial \in Revoked(N) =>
             d = self /\ pc \in ListSteps \cup {"remove"} /\ then \in {"replace", "revoke"}

\* The certificate of a directory is the one the run was asked for last.
Good(d) ==
    /\ d \in keys /\ cert[d] # None /\ cert[d].subject = asked[d]
    /\ Valid(N, asked[d]) = {cert[d].serial}
    /\ Between(d) \subseteq cert[d].chain

\* How far the certificate being made has come.
ProgressInv ==
    self \in Dirs =>
        /\ pc \in {"invalid", "csr", "sign", "rename", "flush", "verify"} => self \in keys
        /\ pc = "rename" => Valid(N, request) = {Len(index[N])}
        /\ pc \in {"flush", "verify"} =>
             cert[self].subject = request /\ Valid(N, request) = {cert[self].serial}
        /\ pc = "flush" => open = self
        /\ pc = "verify" => cert[self].chain = Chain(self)

Replacing == opts = [revokeIfExisting |-> TRUE, revoke |-> FALSE]

\* A run that replaces certificates has made those asked for, but for the one
\* at hand.
FreshInv ==
    Replacing =>
        /\ pc = "certKey" => cert[self] = None
        /\ Running \/ pc = "done" =>
             \A d \in Dirs : asked[d] # None => Good(d) \/ Unrevoked(d)

JInv ==
    /\ FilesInv /\ SerialInv /\ MakingInv /\ WholeInv /\ ChainInv /\ AccountInv
    /\ ProgressInv /\ FreshInv /\ NeverRefused

-----------------------------------------------------------------------------
(* What a step does.                                                        *)

\* The commands that change a variable.
LEMMA Effects ==
    ASSUME [Next]_vars
    PROVE  /\ files' = files \/ Create \/ Close
           /\ keys' = keys \/ MakeKey
           /\ index' = index \/ Sign \/ Revoke
           /\ \/ cert' = cert \/ RemoveInvalid \/ SelfSign \/ Rename \/ Flush
              \/ Return \/ RemoveRevoked \/ Refused \/ Stop
           /\ \/ open' = open \/ Start \/ Rename \/ Flush \/ Return \/ Refused \/ Stop
           /\ self' = self \/ Start \/ Return \/ \E subject \in Subjects : Ask(subject)
           /\ request' = request \/ Start \/ \E subject \in Subjects : Ask(subject)
           /\ asked' = asked \/ Start \/ \E subject \in Subjects : Ask(subject)
           /\ opts' = opts \/ Start
           /\ dictionary' = dictionary \/ Start \/ GenerateCRL
           /\ then' = then \/ Start \/ Revoke \/ EndOfRequests
           /\ crl' = crl \/ RemoveInvalid \/ GenerateCRL
           /\ cut => cut'
           /\ Running' => Running \/ Start
<1> USE DEF Next, vars, disk, history, Start, Create, Close, FindCACertificate,
        RemoveInvalid, SelfSign, MakeRequest, Sign, Rename, Flush, Verify, Return, Ask,
        MakeKey, FindKey, Revoke, RemoveRevoked, EndOfRequests, GenerateCRL, Truncate,
        Concatenate, Refused, Stop, Go, Skip
<1>1. files' = files \/ Create \/ Close
  OBVIOUS
<1>2. keys' = keys \/ MakeKey
  OBVIOUS
<1>3. index' = index \/ Sign \/ Revoke
  OBVIOUS
<1>4. \/ cert' = cert \/ RemoveInvalid \/ SelfSign \/ Rename \/ Flush
     \/ Return \/ RemoveRevoked \/ Refused \/ Stop
  OBVIOUS
<1>5. open' = open \/ Start \/ Rename \/ Flush \/ Return \/ Refused \/ Stop
  OBVIOUS
<1>6. self' = self \/ Start \/ Return \/ \E subject \in Subjects : Ask(subject)
  OBVIOUS
<1>7. request' = request \/ Start \/ \E subject \in Subjects : Ask(subject)
  OBVIOUS
<1>8. asked' = asked \/ Start \/ \E subject \in Subjects : Ask(subject)
  OBVIOUS
<1>9. opts' = opts \/ Start
  OBVIOUS
<1>10. dictionary' = dictionary \/ Start \/ GenerateCRL
  OBVIOUS
<1>11. then' = then \/ Start \/ Revoke \/ EndOfRequests
  OBVIOUS
<1>12. crl' = crl \/ RemoveInvalid \/ GenerateCRL
  OBVIOUS
<1>13. cut => cut'
  OBVIOUS
<1>14. Running' => Running \/ Start
  BY DEF Running
<1> QED BY <1>1, <1>2, <1>3, <1>4, <1>5, <1>6, <1>7, <1>8, <1>9, <1>10, <1>11, <1>12,
           <1>13, <1>14

\* Where the script is tells whose files it makes.
LEMMA Phases ==
    ASSUME IInv
    PROVE  /\ self \in Owners /\ (self \in Dirs => self \notin Levels)
           /\ pc \in {"create", "close", "selfSign", "return"} => self \in Levels
           /\ pc \in {"certKey", "flush", "replace", "revoke", "remove"} => self \in Dirs
           /\ pc = "selfSign" => self = 1
           /\ self \in Levels /\ pc \in {"csr", "sign", "rename", "verify"} =>
                self # 1 /\ self - 1 \in dictionary
           /\ Running /\ self \in Dirs => dictionary = Levels /\ request \in Subjects
           /\ Running /\ self \in Levels => request = None
           /\ pc \in ListSteps /\ then # "return" => self \in Dirs
           /\ pc \in ListSteps /\ self \in Dirs => then # "return"
<1> USE DirAssumption
<1>1. self \in Owners /\ (self \in Dirs => self \notin Levels)
  BY DEF IInv, TypeOK
<1>2. CASE ~Running
  BY <1>1, <1>2 DEF Running, ListSteps
<1>3. CASE Constructing
  BY <1>1, <1>3, ChainAssumption DEF Constructing, CASteps, ListSteps, Levels
<1>4. CASE Issuing
  BY <1>1, <1>4 DEF Issuing, CertificateSteps, ListSteps
<1> QED BY <1>2, <1>3, <1>4 DEF IInv, PhaseInv

-----------------------------------------------------------------------------
(* The files of a CA.                                                       *)

LEMMA FileList ==
    /\ DOMAIN Files = 1 .. 6
    /\ \A i, j \in 1 .. 6 : Files[i] = Files[j] => i = j
    /\ \A i \in 1 .. 6 : Files[i] \in FileNames
BY DEF Files, FileNames

\* There is a first and a last one of some files.
LEMMA FirstAndLast ==
    ASSUME NEW S, S \subseteq 1 .. 6, S # {}
    PROVE  (\E i \in S : \A j \in S : i <= j) /\ (\E i \in S : \A j \in S : j <= i)
<1>1. PICK x \in S : TRUE
  OBVIOUS
<1>2. \E i \in S : \A j \in S : i <= j
  OBVIOUS
<1>3. 6 \in S \/ 5 \in S \/ 4 \in S \/ 3 \in S \/ 2 \in S \/ 1 \in S
  BY <1>1
<1>4. \E i \in S : \A j \in S : j <= i
  <2>1. CASE 6 \in S
    BY <2>1
  <2>2. CASE 5 \in S /\ 6 \notin S
    BY <2>2
  <2>3. CASE 4 \in S /\ 5 \notin S /\ 6 \notin S
    BY <2>3
  <2>4. CASE 3 \in S /\ 4 \notin S /\ 5 \notin S /\ 6 \notin S
    BY <2>4
  <2>5. CASE 2 \in S /\ 3 \notin S /\ 4 \notin S /\ 5 \notin S /\ 6 \notin S
    BY <2>5
  <2>6. CASE S = {1}
    BY <2>6
  <2> QED BY <1>3, <2>1, <2>2, <2>3, <2>4, <2>5, <2>6
<1> QED BY <1>2, <1>4

\* What Create and Close do to the files.
LEMMA FilesChange ==
    ASSUME IInv, FilesInv, [Next]_vars
    PROVE  \/ /\ files' = files
              /\ pc' = "close" => UNCHANGED <<pc, self>>
              /\ pc = "close" => UNCHANGED <<pc, self>> \/ Stop
           \/ /\ pc = "create" /\ self \in Levels
              /\ \E i \in Missing(self) :
                   /\ \A j \in Missing(self) : i <= j
                   /\ files' = [files EXCEPT ![self][Files[i]] =
                                  IF pc' = "close" THEN "empty" ELSE "full"]
                   /\ pc' \in {"close", "invalid", "create"}
           \/ /\ pc = "close" /\ self \in Levels /\ pc' = "create"
              /\ \E i \in DOMAIN Files \ Missing(self) :
                   /\ \A j \in DOMAIN Files \ Missing(self) : j <= i
                   /\ files' = [files EXCEPT ![self][Files[i]] = "full"]
<1>1. CASE Create
  <2>1. pc = "create" /\ self \in Levels /\ Missing(self) # {}
    BY <1>1 DEF Create, Go
  <2> DEFINE i == CHOOSE i \in Missing(self) : \A j \in Missing(self) : i <= j
  <2>2. i \in Missing(self) /\ \A j \in Missing(self) : i <= j
    <3>1. Missing(self) \subseteq 1 .. 6
      BY FileList DEF Missing
    <3> QED BY <2>1, <3>1, FirstAndLast
  <2>3. /\ files' = [files EXCEPT ![self][Files[i]] =
                       IF pc' = "close" THEN "empty" ELSE "full"]
        /\ pc' \in {"close", "invalid", "create"}
    <3>1. CASE Files[i] \in {"serial", "crlnumber", "conf"}
      BY <1>1, <3>1 DEF Create, Go
    <3>2. CASE Files[i] \notin {"serial", "crlnumber", "conf"}
      BY <1>1, <3>2 DEF Create, Go
    <3> QED BY <3>1, <3>2
  <2> QED BY <2>1, <2>2, <2>3
<1>2. CASE Close
  <2>1. pc = "close" /\ pc' = "create"
    BY <1>2 DEF Close, Go
  <2>2. self \in Levels /\ Missing(self) # DOMAIN Files
    BY <2>1 DEF FilesInv
  <2> DEFINE i == CHOOSE i \in DOMAIN Files \ Missing(self) :
                      \A j \in DOMAIN Files \ Missing(self) : j <= i
  <2>3. /\ i \in DOMAIN Files \ Missing(self)
        /\ \A j \in DOMAIN Files \ Missing(self) : j <= i
    <3> DEFINE S == DOMAIN Files \ Missing(self)
    <3>1. S \subseteq 1 .. 6 /\ S # {}
      BY <2>2, FileList DEF Missing
    <3>2. \E k \in S : \A j \in S : j <= k
      <4> HIDE DEF S
      <4> QED BY <3>1, FirstAndLast
    <3> QED BY <3>2
  <2>4. files' = [files EXCEPT ![self][Files[i]] = "full"]
    BY <1>2 DEF Close
  <2> QED BY <2>1, <2>2, <2>3, <2>4
<1>3. CASE ~Create /\ ~Close
  <2>1. pc' = "close" => UNCHANGED <<pc, self>>
    BY <1>3 DEF Next, vars, Start, FindCACertificate, RemoveInvalid, SelfSign,
       MakeRequest, Sign, Rename, Flush, Verify, Return, Ask, MakeKey, FindKey, Revoke,
       RemoveRevoked, EndOfRequests, GenerateCRL, Truncate, Concatenate, Refused,
       Stop, Go, Skip
  <2>2. pc = "close" => UNCHANGED <<pc, self>> \/ Stop
    BY <1>3 DEF Next, vars, Start, FindCACertificate, RemoveInvalid, SelfSign,
       MakeRequest, Sign, Rename, Flush, Verify, Return, Ask, MakeKey, FindKey, Revoke,
       RemoveRevoked, EndOfRequests, GenerateCRL, Truncate, Concatenate, Refused,
       Stop, Go, Skip, Running
  <2> QED BY <1>3, <2>1, <2>2, Effects
<1> QED BY <1>1, <1>2, <1>3

\* A file that is there stays.
LEMMA FilesGrow ==
    ASSUME IInv, FilesInv, [Next]_vars
    PROVE  \A c \in Levels : Missing(c)' \subseteq Missing(c)
<1>1. files \in [Levels -> [FileNames -> {"absent", "empty", "full"}]]
  BY DEF IInv, TypeOK
<1>2. CASE files' = files
  BY <1>2 DEF Missing
<1>3. ASSUME NEW i \in DOMAIN Files, self \in Levels, NEW v, v # "absent",
             files' = [files EXCEPT ![self][Files[i]] = v]
      PROVE  \A c \in Levels : Missing(c)' \subseteq Missing(c)
  BY <1>1, <1>3, FileList DEF Missing
<1> QED BY <1>2, <1>3, FilesChange DEF Missing

\* The order of the files is kept, and what is done is done with all of them.
LEMMA FilesStep ==
    ASSUME IInv, IInv', FilesInv, [Next]_vars
    PROVE  FilesInv'
<1>1. files \in [Levels -> [FileNames -> {"absent", "empty", "full"}]]
  BY DEF IInv, TypeOK
<1>2. /\ \A c \in Levels : \A k, j \in DOMAIN Files :
           k < j /\ files'[c][Files[j]] # "absent" => files'[c][Files[k]] # "absent"
      /\ pc' = "close" => self' \in Levels /\ Missing(self)' # DOMAIN Files
  <2> USE FileList
  <2>1. CASE files' = files /\ (pc' = "close" => UNCHANGED <<pc, self>>)
    BY <2>1 DEF FilesInv, Missing
  <2>2. ASSUME NEW i \in Missing(self), pc = "create", self \in Levels,
               \A j \in Missing(self) : i <= j, NEW v, v # "absent",
               files' = [files EXCEPT ![self][Files[i]] = v]
        PROVE  /\ \A c \in Levels : \A k, j \in DOMAIN Files :
                    k < j /\ files'[c][Files[j]] # "absent"
                      => files'[c][Files[k]] # "absent"
               /\ pc' = "close" => self' \in Levels /\ Missing(self)' # DOMAIN Files
    <3>1. \A c \in Levels, j \in DOMAIN Files :
            files'[c][Files[j]] = "absent"
              <=> files[c][Files[j]] = "absent" /\ ~(c = self /\ j = i)
      BY <1>1, <2>2 DEF Missing
    <3>2. pc' = "close" => self' = self
      BY <2>2, Effects DEF Start, Return, Ask, Go
    <3>3. i \in DOMAIN Files
      BY DEF Missing
    <3> QED BY <2>2, <3>1, <3>2, <3>3 DEF Missing, FilesInv
  <2>3. ASSUME NEW i \in DOMAIN Files \ Missing(self), self \in Levels, pc' = "create",
               files' = [files EXCEPT ![self][Files[i]] = "full"]
        PROVE  \A c \in Levels : \A k, j \in DOMAIN Files :
                 k < j /\ files'[c][Files[j]] # "absent"
                   => files'[c][Files[k]] # "absent"
    <3>1. \A c \in Levels, j \in DOMAIN Files :
            files'[c][Files[j]] = "absent" <=> files[c][Files[j]] = "absent"
      BY <1>1, <2>3 DEF Missing
    <3> QED BY <3>1 DEF FilesInv
  <2> QED BY <2>1, <2>2, <2>3, FilesChange
<1>3. \A c \in dictionary' : Missing(c)' = {}
  <2>1. \A c \in dictionary : c \in Levels /\ Missing(c) = {}
    BY DEF IInv, TypeOK, FilesInv
  <2>2. \A c \in dictionary : Missing(c)' = {}
    BY <2>1, FilesGrow
  <2>3. CASE dictionary' = dictionary \/ dictionary' = {}
    BY <2>2, <2>3
  <2>4. CASE GenerateCRL /\ then = "return"
    <3>1. self \in Levels /\ Missing(self) = {}
      BY <2>4, Phases DEF GenerateCRL, ListSteps, FilesInv, Owners
    <3>2. Missing(self)' = {} /\ self' = self /\ dictionary' = dictionary \cup {self}
      <4>1. files' = files /\ self' = self
        BY <2>4 DEF GenerateCRL
      <4> QED BY <2>4, <3>1, <4>1 DEF GenerateCRL, Missing
    <3>3. Missing(self)' = {j \in DOMAIN Files : files'[self][Files[j]] = "absent"}
      BY <3>2 DEF Missing
    <3> QED BY <2>2, <3>2, <3>3 DEF Missing
  <2> QED BY <2>3, <2>4, Effects DEF Start, GenerateCRL
<1>4. self' \in Levels /\ pc' \in {"selfSign", "csr", "sign", "rename", "verify", "crl"}
        => Missing(self)' = {}
  <2> SUFFICES ASSUME self' \in Levels,
                      pc' \in {"selfSign", "csr", "sign", "rename", "verify", "crl"}
               PROVE  self' = self /\ Missing(self) = {}
    BY FilesGrow DEF Missing
  <2>1. self' = self
    BY Effects DEF Start, Return, Ask, Go
  <2>2. CASE pc \in {"selfSign", "csr", "sign", "rename", "verify", "crl"}
    BY <2>1, <2>2 DEF FilesInv
  <2>3. CASE pc \notin {"selfSign", "csr", "sign", "rename", "verify", "crl"}
    <3>1. CASE FindCACertificate
      BY <2>1, <3>1 DEF FindCACertificate
    <3>2. CASE ~FindCACertificate
      <4>1. \/ pc \in {"certKey", "flush", "replace", "revoke"}
            \/ Running /\ request # None
            \/ pc' = "csr" /\ self \in Dirs
        <5>1. \/ RemoveInvalid \/ FindKey \/ Revoke \/ EndOfRequests
              \/ pc \in {"selfSign", "csr", "sign", "rename", "flush", "verify", "crl"}
          BY <3>2 DEF Next, vars, Start, Create, Close, SelfSign, MakeRequest, Sign,
             Rename, Flush, Verify, Return, Ask, MakeKey, RemoveRevoked, GenerateCRL,
             Truncate, Concatenate, Refused, Stop, Go, Skip
        <5> QED BY <2>3, <5>1 DEF RemoveInvalid, FindKey, Revoke, EndOfRequests, Go,
             Skip, Running
      <4> QED BY <2>1, <4>1, Phases
    <3> QED BY <3>1, <3>2
  <2> QED BY <2>2, <2>3
<1> QED BY <1>2, <1>3, <1>4 DEF FilesInv

-----------------------------------------------------------------------------
(* The certificates and the indices.                                        *)

\* Writing the buffer adds the chain, and nothing else.
LEMMA FlushedFields ==
    ASSUME IInv, NEW o \in Owners, Flushed[o] # cert[o]
    PROVE  /\ o = open /\ cert[o] \in Certificate
           /\ Flushed[o] = [cert[o] EXCEPT !.chain = Chain(o)] /\ Flushed[o] # None
<1>1. open # None /\ open \in Owners /\ cert[open] \in Certificate
  BY DEF Flushed, IInv, TypeOK
<1>2. Flushed = [cert EXCEPT ![open] = [cert[open] EXCEPT !.chain = Chain(open)]]
  BY <1>1 DEF Flushed
<1>3. o = open /\ Flushed[o] = [cert[o] EXCEPT !.chain = Chain(o)]
  BY <1>1, <1>2 DEF IInv, TypeOK
<1>4. Flushed[o] # None
  BY <1>1, <1>3, FlushedFiles, NoneAssumption
<1> QED BY <1>1, <1>3, <1>4

\* How a certificate file changes.
LEMMA CertChange ==
    ASSUME IInv, [Next]_vars, NEW o \in Owners
    PROVE  \/ cert'[o] = cert[o]
           \/ o = self /\ cert'[o] = None /\ (RemoveInvalid \/ RemoveRevoked)
           \/ SelfSign /\ o = 1 /\ cert'[o] = [subject |-> 1, serial |-> 0, chain |-> {}]
           \/ /\ Rename /\ o = self
              /\ cert'[o] = [subject |-> Subject, serial |-> Len(index[Issuer(self)]),
                             chain |-> {}]
           \/ /\ o = open /\ cert[o] \in Certificate /\ cert'[o] # None
              /\ cert'[o] = [cert[o] EXCEPT !.chain = Chain(o)]
              /\ Flush \/ Return \/ Refused \/ Stop
<1>1. cert \in [Owners -> Certificate \cup {None}]
  BY DEF IInv, TypeOK
<1>2. CASE Flush \/ Return \/ Refused \/ Stop
  BY <1>2, FlushedFields DEF Flush, Return, Refused, Stop
<1>3. CASE SelfSign
  BY <1>1, <1>3 DEF SelfSign
<1>4. CASE Rename
  BY <1>1, <1>4 DEF Rename
<1>5. CASE RemoveInvalid \/ RemoveRevoked
  BY <1>1, <1>5 DEF RemoveInvalid, RemoveRevoked
<1> QED BY <1>2, <1>3, <1>4, <1>5, Effects

\* A certificate that is signed comes last in its issuer's index.
LEMMA SignChange ==
    ASSUME IInv, Sign
    PROVE  /\ Issuer(self) \in Levels /\ index[Issuer(self)] \in Seq(Entry)
           /\ index'[Issuer(self)] =
                Append(index[Issuer(self)], [subject |-> Subject, revoked |-> FALSE])
           /\ \A c \in Levels : c # Issuer(self) => index'[c] = index[c]
           /\ self \in Dirs => Issuer(self) = N /\ Subject = request
           /\ self \in Levels => Issuer(self) = self - 1 /\ Issuer(self) # N
<1>1. pc = "sign" /\ Running
  BY DEF Sign, Go, Running
<1>2. self \in Owners /\ (self \in Levels => self # 1)
  BY <1>1, Phases
<1>3. Issuer(self) \in Levels /\ (self \in Levels => Issuer(self) = self - 1)
  BY <1>2, Issuers
<1>4. self \in Dirs => Issuer(self) = N /\ Subject = request
  BY <1>2, Issuers DEF Subject
<1>5. self \in Levels => Issuer(self) # N
  BY <1>3, ChainAssumption DEF Levels
<1> QED BY <1>3, <1>4, <1>5 DEF Sign, IInv, TypeOK

\* A revocation marks the certificate at hand, and no other.
LEMMA RevokeChange ==
    ASSUME IInv, SerialInv, MakingInv, Revoke
    PROVE  /\ self \in Dirs /\ cert[self] # None
           /\ cert[self].serial \in DOMAIN index[N]
           /\ index[N] \in Seq(Entry) /\ DOMAIN index'[N] = DOMAIN index[N]
           /\ Len(index'[N]) = Len(index[N])
           /\ \A s \in DOMAIN index[N] :
                /\ index'[N][s].subject = index[N][s].subject
                /\ index'[N][s].revoked <=> index[N][s].revoked \/ s = cert[self].serial
           /\ \A c \in Levels : c # N => index'[c] = index[c]
<1>1. self \in Dirs /\ cert[self] # None
  BY Phases DEF Revoke, MakingInv
<1>2. N \in Levels /\ index \in [Levels -> Seq(Entry)] /\ index[N] \in Seq(Entry)
  BY ChainAssumption DEF Levels, IInv, TypeOK
<1>3. cert[self].serial \in DOMAIN index[N]
  BY <1>1 DEF SerialInv
<1>4. index' = [index EXCEPT ![N] = [index[N] EXCEPT ![cert[self].serial] =
                    [index[N][cert[self].serial] EXCEPT !.revoked = TRUE]]]
  BY DEF Revoke
<1>5. index'[N] = [index[N] EXCEPT ![cert[self].serial] =
                    [index[N][cert[self].serial] EXCEPT !.revoked = TRUE]]
  BY <1>2, <1>4
<1>6. DOMAIN index'[N] = DOMAIN index[N] /\ Len(index'[N]) = Len(index[N])
  BY <1>2, <1>3, <1>5
<1>7. ASSUME NEW s \in DOMAIN index[N]
      PROVE  /\ index'[N][s].subject = index[N][s].subject
             /\ index'[N][s].revoked <=> index[N][s].revoked \/ s = cert[self].serial
  <2>1. index[N][s] \in Entry
    BY <1>2
  <2> QED BY <1>5, <2>1 DEF Entry
<1> QED BY <1>1, <1>2, <1>3, <1>4, <1>6, <1>7

\* An index grows, and what it says of a subject stays.
LEMMA IndexGrows ==
    ASSUME IInv, SerialInv, MakingInv, [Next]_vars, NEW c \in Levels,
           NEW s \in DOMAIN index[c]
    PROVE  s \in DOMAIN index'[c] /\ index'[c][s].subject = index[c][s].subject
<1>1. CASE Sign
  <2>1. index[c] \in Seq(Entry)
    BY DEF IInv, TypeOK
  <2> QED BY <1>1, <2>1, SignChange
<1>2. CASE Revoke
  BY <1>2, RevokeChange
<1> QED BY <1>1, <1>2, Effects

\* Only a revocation revokes.
LEMMA RevokedChange ==
    ASSUME IInv, [Next]_vars, NEW c \in Levels, ~Revoke
    PROVE  Revoked(c)' = Revoked(c)
<1>1. CASE Sign
  <2>1. index[c] \in Seq(Entry)
    BY DEF IInv, TypeOK
  <2>2. CASE c = Issuer(self)
    <3>1. [subject |-> Subject, revoked |-> FALSE] \in Entry
      BY <1>1, SubjectOfRequest DEF Sign, Go, Entry
    <3> QED BY SMTT(30), <1>1, <2>1, <2>2, <3>1, SignChange, AppendedIndex DEF Revoked
  <2>3. CASE c # Issuer(self)
    BY <1>1, <2>3, SignChange DEF Revoked
  <2> QED BY <2>2, <2>3
<1>2. CASE index' = index
  BY <1>2 DEF Revoked
<1> QED BY <1>1, <1>2, Effects

\* A file and the index of its issuer agree.
LEMMA SerialStep ==
    ASSUME IInv, IInv', SerialInv, MakingInv, [Next]_vars
    PROVE  SerialInv'
<1> USE DirAssumption
<1>0. N \in Levels /\ 1 \in Levels /\ 1 \in Owners /\ Dirs \subseteq Owners
  BY ChainAssumption DEF Levels, Owners
<1>1. ASSUME NEW d \in Dirs, cert'[d] # None
      PROVE  /\ cert'[d].subject \in Subjects /\ DirOf[cert'[d].subject] = d
             /\ cert'[d].serial \in DOMAIN index'[N]
             /\ index'[N][cert'[d].serial].subject = cert'[d].subject
  <2>1. CASE Rename /\ d = self
    <3>1. pc = "rename" /\ Running /\ index' = index
      BY <2>1 DEF Rename, Go, Running
    <3>2. Issuer(self) = N /\ Subject = request /\ request \in Subjects
      BY <1>0, <2>1, <3>1, Phases, Issuers DEF Subject
    <3>3. cert'[d] = [subject |-> request, serial |-> Len(index[N]), chain |-> {}]
      BY <1>0, <2>1, <3>2 DEF Rename, IInv, TypeOK
    <3>4. index[N] \in Seq(Entry) /\ index[N] # <<>>
          /\ index[N][Len(index[N])].subject = request
      BY <1>0, <3>1, <3>2 DEF MakingInv, IInv, TypeOK
    <3>5. Len(index[N]) \in DOMAIN index[N]
      BY <3>4
    <3> QED BY <2>1, <3>1, <3>2, <3>3, <3>4, <3>5 DEF SerialInv
  <2>2. CASE ~(Rename /\ d = self)
    <3>1. ~(SelfSign /\ d = 1) 
      BY ChainAssumption DEF Levels
    <3>2. cert[d] # None /\ cert'[d].subject = cert[d].subject
          /\ cert'[d].serial = cert[d].serial
      <4>1. CASE cert'[d] = cert[d]
        BY <1>1, <4>1
      <4>2. CASE cert[d] \in Certificate /\ cert'[d] = [cert[d] EXCEPT !.chain = Chain(d)]
        BY <4>2, NoneAssumption DEF Certificate
      <4> QED BY <1>0, <1>1, <2>2, <3>1, <4>1, <4>2, CertChange
    <3> QED BY <1>0, <3>2, IndexGrows DEF SerialInv
  <2> QED BY <2>1, <2>2
<1>2. cert'[1] # None => cert'[1].serial = 0
  <2>1. ~(Rename /\ self = 1)
    BY <1>0, Phases DEF Rename, Go
  <2>2. CASE cert'[1] = cert[1]
    BY <2>2 DEF SerialInv
  <2>3. CASE cert'[1] = None
    BY <2>3
  <2>4. CASE cert'[1] = [subject |-> 1, serial |-> 0, chain |-> {}]
    BY <2>4
  <2>5. CASE cert[1] \in Certificate /\ cert'[1] = [cert[1] EXCEPT !.chain = Chain(1)]
    BY <2>5, NoneAssumption DEF SerialInv, Certificate
  <2> QED BY <1>0, <2>1, <2>2, <2>3, <2>4, <2>5, CertChange
<1>3. \A c \in Levels : c # N => Revoked(c)' = {}
  <2>1. CASE Revoke
    BY <2>1, RevokeChange DEF SerialInv, Revoked
  <2> QED BY <2>1, RevokedChange DEF SerialInv
<1>4. \A d \in Dirs : asked'[d] # None => DirOf[asked'[d]] = d
  <2>1. ASSUME NEW subject \in Subjects, Ask(subject)
        PROVE  \A d \in Dirs : asked'[d] # None => DirOf[asked'[d]] = d
    BY <2>1 DEF Ask, SerialInv, IInv, TypeOK
  <2> QED BY <2>1, Effects DEF Start, SerialInv
<1>5. ASSUME Running', self' \in Dirs
      PROVE  DirOf[request'] = self' /\ asked'[self'] = request'
  <2>1. ASSUME NEW subject \in Subjects, Ask(subject)
        PROVE  DirOf[request'] = self' /\ asked'[self'] = request'
    BY <2>1 DEF Ask, IInv, TypeOK
  <2>2. ~Start
    BY <1>5, ChainAssumption DEF Start, Levels
  <2>3. ASSUME Return  PROVE FALSE
    <3>1. self \in Levels
      BY <2>3, Phases DEF Return, Go
    <3>2. self' \in Levels
      BY <2>3, <3>1, ChainAssumption DEF Return, Levels
    <3> QED BY <1>5, <3>2
  <2> QED BY <1>5, <2>1, <2>2, <2>3, Effects DEF SerialInv
<1> QED BY <1>1, <1>2, <1>3, <1>4, <1>5 DEF SerialInv

\* A certificate is made where there is none, and removed when it is revoked.
LEMMA MakingStep ==
    ASSUME IInv, IInv', SerialInv, MakingInv, [Next]_vars
    PROVE  MakingInv'
<1> USE DirAssumption
<1>0. N \in Levels /\ 1 \in Levels /\ Dirs \subseteq Owners
  BY ChainAssumption DEF Levels, Owners
<1>1. CASE UNCHANGED vars
  BY <1>1 DEF vars, disk, MakingInv, Revoked, ListSteps, Subject, Issuer
<1>2. CASE Start
  BY <1>2 DEF Start, MakingInv, ListSteps
<1>3. CASE Create
  BY <1>3 DEF Create, Go, MakingInv, ListSteps
<1>4. CASE Close
  BY <1>4 DEF Close, Go, MakingInv, ListSteps
<1>5. CASE FindCACertificate
  <2>1. then = "return"
    BY <1>5 DEF FindCACertificate, Skip, Go, IInv, PhaseInv, Constructing, Issuing,
       CertificateSteps, ListSteps, Running
  <2> QED BY <1>5, <2>1 DEF FindCACertificate, Skip, Go, disk, MakingInv, ListSteps
<1>6. CASE RemoveInvalid
  <2>1. cert'[self] = None
    BY <1>6, Phases DEF RemoveInvalid, IInv, TypeOK
  <2> QED BY <1>6, <2>1 DEF RemoveInvalid, Go, MakingInv, ListSteps
<1>7. CASE SelfSign
  <2>1. then = "return"
    BY <1>7 DEF SelfSign, Skip, Go, IInv, PhaseInv, Constructing, Issuing,
       CertificateSteps, ListSteps, Running
  <2> QED BY <1>7, <2>1 DEF SelfSign, Go, MakingInv, ListSteps
<1>8. CASE MakeRequest
  BY <1>8 DEF MakeRequest, Skip, Go, disk, MakingInv, ListSteps
<1>9. CASE Sign
  <2>1. /\ self' = self /\ Issuer(self)' = Issuer(self) /\ Subject' = Subject
        /\ cert' = cert /\ pc = "sign" /\ pc' = "rename" /\ then' = then
        /\ opts' = opts
    BY <1>9 DEF Sign, Go, Issuer, Subject
  <2>2. LET s == index'[Issuer(self)]
        IN s # <<>> /\ s[Len(s)] = [subject |-> Subject, revoked |-> FALSE]
    <3>1. index[Issuer(self)] \in Seq(Entry)
      BY <1>9, SignChange
    <3> QED BY <1>9, <3>1, SignChange
  <2> QED BY <2>1, <2>2 DEF MakingInv, ListSteps
<1>10. CASE Rename
  <2>1. cert'[self] # None /\ self' = self
    BY <1>10 DEF IInv, CertInv, Rename, Go, Running
  <2> QED BY <1>10, <2>1 DEF Rename, Go, MakingInv, ListSteps
<1>11. CASE Flush
  BY <1>11 DEF Flush, Go, MakingInv, ListSteps
<1>12. CASE Verify
  <2>1. cert[self] # None
    BY <1>12 DEF Verify, Skip, Go, IInv, CertInv, Running
  <2>2. self \in Levels => then = "return"
    BY <1>12 DEF Verify, Skip, Go, IInv, PhaseInv, Constructing, Issuing,
       CertificateSteps, ListSteps, Running
  <2> QED BY <1>12, <2>1, <2>2 DEF Verify, Skip, Go, disk, MakingInv, ListSteps
<1>13. CASE Return
  BY <1>13 DEF Return, Go, MakingInv, ListSteps
<1>14. ASSUME NEW subject \in Subjects, Ask(subject)  PROVE MakingInv'
  BY <1>14 DEF Ask, disk, MakingInv, ListSteps
<1>15. CASE MakeKey
  BY <1>15 DEF MakeKey, Go, MakingInv, ListSteps
<1>16. CASE FindKey
  BY <1>16 DEF FindKey, Skip, Go, disk, MakingInv, ListSteps
<1>17. CASE Revoke
  <2>1. self' = self /\ cert' = cert /\ pc' = "crl" /\ then' = pc /\ opts' = opts
    BY <1>17 DEF Revoke, Go
  <2>2. cert[self] # None /\ cert[self].serial \in Revoked(N)'
    BY <1>17, RevokeChange DEF Revoked
  <2> QED BY <1>17, <2>1, <2>2 DEF Revoke, MakingInv, ListSteps
<1>18. CASE RemoveRevoked
  BY <1>18 DEF RemoveRevoked, Go, MakingInv, ListSteps
<1>19. CASE EndOfRequests
  BY <1>19 DEF EndOfRequests, Go, MakingInv, ListSteps
<1>20. CASE GenerateCRL
  BY <1>20 DEF GenerateCRL, MakingInv, ListSteps, Revoked
<1>21. CASE Truncate
  BY <1>21 DEF Truncate, Go, MakingInv, ListSteps, Revoked
<1>22. CASE Concatenate
  <2>1. pc' \in {"return", "done", "remove"} /\ pc = "cat"
    BY <1>22 DEF Concatenate, Go
  <2> QED BY <1>22, <2>1 DEF Concatenate, Go, MakingInv, ListSteps, Revoked
<1>23. CASE Refused
  BY <1>23 DEF Refused, MakingInv, ListSteps
<1>24. CASE Stop
  BY <1>24 DEF Stop, MakingInv, ListSteps
<1> QED BY <1>1, <1>2, <1>3, <1>4, <1>5, <1>6, <1>7, <1>8, <1>9, <1>10, <1>11, <1>12,
           <1>13, <1>14, <1>15, <1>16, <1>17, <1>18, <1>19, <1>20, <1>21, <1>22,
           <1>23, <1>24 DEF Next

-----------------------------------------------------------------------------
(* As long as no run is stopped.                                            *)

\* Nothing is half made, and no certificate precedes its key.
LEMMA WholeStep ==
    ASSUME IInv, IInv', FilesInv, MakingInv, WholeInv, ProgressInv, [Next]_vars
    PROVE  WholeInv'
<1> SUFFICES ASSUME ~cut'
             PROVE  WholeInv'
  BY DEF WholeInv
<1> USE DirAssumption
<1>0. ~cut /\ ~Stop /\ Dirs \subseteq Owners /\ Levels \subseteq Owners /\ 1 \in Levels
  <2>1. ~cut
    BY Effects
  <2>2. ~Stop
    BY DEF Stop
  <2>3. Dirs \subseteq Owners /\ Levels \subseteq Owners /\ 1 \in Levels
    BY ChainAssumption DEF Owners, Levels
  <2> QED BY <2>1, <2>2, <2>3
<1>1. \A c \in Levels : \A i \in DOMAIN Files : files'[c][Files[i]] = "empty" =>
        /\ pc' = "close" /\ c = self'
        /\ \A j \in DOMAIN Files : i < j => files'[c][Files[j]] = "absent"
  <2> USE FileList
  <2>0. files \in [Levels -> [FileNames -> {"absent", "empty", "full"}]]
    BY DEF IInv, TypeOK
  <2>1. CASE files' = files /\ (pc = "close" => UNCHANGED <<pc, self>>)
    BY <1>0, <2>1 DEF WholeInv
  <2>2. ASSUME NEW i \in Missing(self), pc = "create", self \in Levels,
               \A j \in Missing(self) : i <= j,
               files' = [files EXCEPT ![self][Files[i]] =
                           IF pc' = "close" THEN "empty" ELSE "full"]
        PROVE  \A c \in Levels : \A k \in DOMAIN Files : files'[c][Files[k]] = "empty" =>
                 /\ pc' = "close" /\ c = self'
                 /\ \A j \in DOMAIN Files : k < j => files'[c][Files[j]] = "absent"
    <3>1. i \in DOMAIN Files /\ files[self][Files[i]] = "absent"
      BY DEF Missing
    <3>2. self' = self
      BY <2>2, Effects DEF Start, Return, Ask, Go, Running
    <3>3. \A c \in Levels, k \in DOMAIN Files : files[c][Files[k]] # "empty"
      BY <1>0, <2>2 DEF WholeInv
    <3>4. \A c \in Levels, k \in DOMAIN Files :
            ~(c = self /\ k = i) => files'[c][Files[k]] = files[c][Files[k]]
      BY <2>0, <2>2, <3>1
    <3>5. files'[self][Files[i]] = "empty" => pc' = "close"
      BY <2>0, <2>2, <3>1
    <3>6. \A j \in DOMAIN Files : i < j => files[self][Files[j]] = "absent"
      BY <2>2, <3>1 DEF FilesInv
    <3> QED BY <2>2, <3>1, <3>2, <3>3, <3>4, <3>5, <3>6
  <2>3. ASSUME NEW i \in DOMAIN Files \ Missing(self), pc = "close", self \in Levels,
               \A j \in DOMAIN Files \ Missing(self) : j <= i,
               files' = [files EXCEPT ![self][Files[i]] = "full"]
        PROVE  \A c \in Levels, k \in DOMAIN Files : files'[c][Files[k]] # "empty"
    <3>1. \A c \in Levels, k \in DOMAIN Files :
            ~(c = self /\ k = i) => files'[c][Files[k]] = files[c][Files[k]]
      BY <2>0, <2>3
    <3>2. files'[self][Files[i]] = "full"
      BY <2>0, <2>3
    <3>3. ASSUME NEW k \in DOMAIN Files, files[self][Files[k]] = "empty"  PROVE k = i
      <4>1. k \in DOMAIN Files \ Missing(self)
        BY <3>3 DEF Missing
      <4>2. k <= i /\ ~(k < i)
        BY <1>0, <2>3, <3>3, <4>1 DEF WholeInv, Missing
      <4> QED BY <4>2
    <3> QED BY <1>0, <3>1, <3>2, <3>3 DEF WholeInv
  <2> QED BY <1>0, <2>1, <2>2, <2>3, FilesChange
<1>2. \A c \in Levels : cert'[c] # None => Missing(c)' = {}
  <2> SUFFICES ASSUME NEW c \in Levels, cert'[c] # None  PROVE Missing(c) = {}
    BY FilesGrow
  <2>1. CASE cert[c] # None
    BY <1>0, <2>1 DEF WholeInv
  <2>2. CASE cert[c] = None
    <3>1. c = self /\ pc \in {"selfSign", "rename"}
      BY <1>0, <2>2, CertChange, NoneAssumption, Phases
         DEF SelfSign, Rename, Go, Certificate, Owners
    <3> QED BY <3>1 DEF FilesInv
  <2> QED BY <2>1, <2>2
<1>3. \A d \in Dirs : cert'[d] # None => d \in keys'
  <2> SUFFICES ASSUME NEW d \in Dirs, cert'[d] # None  PROVE d \in keys
    BY Effects DEF MakeKey
  <2>1. CASE cert[d] # None
    BY <1>0, <2>1 DEF WholeInv
  <2>2. CASE cert[d] = None
    <3>1. d = self /\ pc = "rename"
      BY <1>0, <2>2, CertChange, NoneAssumption DEF Rename, Go, Owners
    <3> QED BY <3>1 DEF ProgressInv
  <2> QED BY <2>1, <2>2
<1>4. pc' \in {"close", "invalid"} => cert'[self'] = None
  <2>1. pc' \in {"close", "invalid"} => UNCHANGED vars \/ Create \/ MakeKey
    BY DEF Next, vars, Start, Create, Close, FindCACertificate, RemoveInvalid, SelfSign,
       MakeRequest, Sign, Rename, Flush, Verify, Return, Ask, MakeKey, FindKey, Revoke,
       RemoveRevoked, EndOfRequests, GenerateCRL, Truncate, Concatenate, Refused,
       Stop, Go, Skip
  <2>2. CASE UNCHANGED vars
    BY <1>0, <2>2 DEF vars, disk, WholeInv
  <2>3. CASE Create
    BY <1>0, <2>3 DEF Create, WholeInv
  <2>4. CASE MakeKey
    BY <1>0, <2>4, Phases DEF MakeKey, Go, WholeInv
  <2> QED BY <2>1, <2>2, <2>3, <2>4
<1>5. pc' # "stopped"
  BY <1>0 DEF Next, vars, Start, Create, Close, FindCACertificate, RemoveInvalid,
     SelfSign, MakeRequest, Sign, Rename, Flush, Verify, Return, Ask, MakeKey, FindKey,
     Revoke, RemoveRevoked, EndOfRequests, GenerateCRL, Truncate, Concatenate, Refused,
     Go, Skip, WholeInv
<1> QED BY <1>1, <1>2, <1>3, <1>4, <1>5 DEF WholeInv

\* The issuer of the certificate being made has one, and its file is closed.
LEMMA IssuerDone ==
    ASSUME IInv, Running, self # 1
    PROVE  /\ Issuer(self) \in Levels /\ Issuer(self) \in dictionary
           /\ Issuer(self) # self /\ cert[Issuer(self)] # None /\ open # Issuer(self)
<1> USE DirAssumption
<1>1. self \in Owners
  BY Phases
<1>2. Issuer(self) \in Levels /\ Issuer(self) # self
  <2>1. CASE self \in Levels
    BY <1>1, <2>1, Issuers DEF Levels
  <2>2. CASE self \in Dirs
    BY <1>1, <2>2, Issuers
  <2> QED BY <1>1, <2>1, <2>2 DEF Owners
<1>3. Issuer(self) \in dictionary
  <2>1. CASE Constructing
    <3>1. self \in Levels /\ Issuer(self) = self - 1
      BY <1>1, <2>1, Issuers DEF Constructing
    <3> QED BY <2>1, <3>1, ChainAssumption DEF Constructing, Levels
  <2>2. CASE Issuing
    BY <1>2, <2>2 DEF Issuing
  <2> QED BY <2>1, <2>2 DEF IInv, PhaseInv
<1>4. cert[Issuer(self)] # None
  BY <1>3 DEF IInv, CertInv
<1>5. open # Issuer(self)
  BY <1>2, NoneAssumption DEF IInv, OpenInv, Owners
<1> QED BY <1>2, <1>3, <1>4, <1>5

\* What follows a certificate in its file leads to the root, if what follows
\* its issuer's does.
LEMMA ChainLeads ==
    ASSUME IInv, ChainInv, ~cut, NEW o \in Owners, cert[Issuer(o)] # None,
           open # Issuer(o)
    PROVE  Between(o) \subseteq Chain(o)
<1>1. Issuer(o) \in Levels /\ Issuer(o) \in Owners
  BY Issuers DEF Owners
<1>2. Between(Issuer(o)) \subseteq cert[Issuer(o)].chain
  BY <1>1 DEF ChainInv
<1>3. Between(o) \subseteq Between(Issuer(o)) \cup {Issuer(o)}
  <2>1. CASE o = 1
    BY <2>1, ChainAssumption DEF Between, Levels
  <2>2. CASE o \in Levels /\ o # 1
    <3>1. Issuer(o) = o - 1
      BY <2>2, Issuers
    <3> QED BY <1>1, <2>2, <3>1 DEF Between, Levels
  <2>3. CASE o \in Dirs
    <3>1. Issuer(o) = N /\ o \notin Levels
      BY <2>3, Issuers
    <3> QED BY <1>1, <3>1, ChainAssumption DEF Between, Levels
  <2> QED BY <2>1, <2>2, <2>3 DEF Owners
<1> QED BY <1>2, <1>3 DEF Chain

\* Files that are there are whole, unless one is being written.
LEMMA AllFull ==
    ASSUME IInv, WholeInv, ~cut, pc # "close", NEW c \in Levels, Missing(c) = {},
           NEW names \in SUBSET FileNames
    PROVE  Full(c, names)
<1> SUFFICES ASSUME NEW f \in names  PROVE files[c][f] = "full"
  BY DEF Full
<1>1. PICK i \in DOMAIN Files : f = Files[i]
  BY DEF FileNames
<1>2. files[c][f] # "absent" /\ files[c][f] # "empty"
  BY <1>1 DEF Missing, WholeInv
<1>3. files[c] \in [FileNames -> {"absent", "empty", "full"}]
  BY DEF IInv, TypeOK
<1> QED BY <1>2, <1>3

\* OpenSSL refuses nothing.
LEMMA NoRefusal ==
    ASSUME IInv, FilesInv, SerialInv, MakingInv, WholeInv, ChainInv, AccountInv, ~cut
    PROVE  ~Refused
<1> USE DirAssumption
<1>0. /\ N \in Levels /\ 1 \in Levels /\ Dirs \subseteq Owners
      /\ \A f \in {"conf", "serial", "crlnumber"} : f \in FileNames
  <2>1. N \in Levels /\ 1 \in Levels /\ Dirs \subseteq Owners
    BY ChainAssumption DEF Levels, Owners
  <2>2. Files[4] \in FileNames /\ Files[2] \in FileNames /\ Files[3] \in FileNames
    BY FileList
  <2> QED BY <2>1, <2>2 DEF Files
<1>1. ASSUME Running, self \in Dirs
      PROVE  dictionary = Levels /\ Missing(N) = {} /\ Missing(1) = {}
  BY <1>0, <1>1, Phases DEF FilesInv
<1>2. ASSUME pc \in {"selfSign", "csr"}  PROVE CanRequest
  <2>1. Running /\ self \in Owners
    BY <1>2, Phases DEF Running
  <2>2. CASE self \in Levels
    BY <1>0, <1>2, <2>2, AllFull DEF FilesInv, CanRequest
  <2>3. CASE self \in Dirs
    BY <1>0, <1>1, <1>2, <2>1, <2>3, AllFull, Phases DEF CanRequest
  <2> QED BY <2>1, <2>2, <2>3 DEF Owners
<1>3. ASSUME pc = "sign"  PROVE CanSign
  <2>1. Running /\ self \in Owners /\ self # 1 /\ cert[self] = None
    BY <1>0, <1>3, Phases DEF Running, MakingInv
  <2>2. Full(Issuer(self), {"conf", "serial"})
    BY <1>0, <1>3, <2>1, IssuerDone, AllFull DEF FilesInv
  <2>3. CASE self \in Levels
    <3>1. index[Issuer(self)] = <<>>
      BY <1>3, <2>1, <2>3, Issuers DEF ChainInv
    <3>2. Valid(Issuer(self), Subject) = {}
      BY <3>1 DEF Valid
    <3> QED BY <2>2, <3>2 DEF CanSign
  <2>4. CASE self \in Dirs
    <3>1. Issuer(self) = N /\ Subject = request /\ DirOf[request] = self
      BY <2>1, <2>4, Issuers DEF Subject, SerialInv
    <3>2. ASSUME NEW s \in Valid(N, request)  PROVE FALSE
      <4>1. s \in DOMAIN index[N] /\ index[N][s].subject = request
            /\ ~index[N][s].revoked
        BY DEF Valid
      <4>2. PICK d \in Dirs : cert[d] # None /\ cert[d].serial = s
        BY <1>3, <4>1 DEF AccountInv
      <4>3. DirOf[request] = d
        BY <4>1, <4>2 DEF SerialInv
      <4> QED BY <2>1, <3>1, <4>2, <4>3
    <3> QED BY <2>2, <3>1, <3>2 DEF CanSign
  <2> QED BY <2>1, <2>3, <2>4 DEF Owners
<1>4. ASSUME pc = "verify"  PROVE Verifies(self)
  <2>1. Running /\ self \in Owners /\ self # 1 /\ cert[self] # None
    BY <1>0, <1>4, Phases DEF Running, IInv, CertInv
  <2>2. Between(self) \subseteq {Issuer(self)} \cup cert[Issuer(self)].chain
    BY <2>1, IssuerDone, ChainLeads DEF Chain
  <2>3. self \in Dirs => N \in DOMAIN crl /\ cert[self].serial \notin crl[N]
    <3>1. CASE self \in Dirs
      <4>1. N \in DOMAIN crl /\ crl[N] = Revoked(N)
        BY <1>0, <1>1, <1>4, <2>1, <3>1 DEF IInv, ListInv, Unlisted
      <4>2. cert[self].serial \notin Revoked(N)
        BY <1>4, <2>1, <3>1 DEF AccountInv, ListSteps
      <4> QED BY <4>1, <4>2
    <3> QED BY <3>1
  <2> QED BY <2>2, <2>3 DEF Verifies
<1>5. ASSUME pc \in {"replace", "revoke"}  PROVE CanRevoke
  <2>1. Running /\ self \in Dirs /\ cert[self] # None
    BY <1>5, Phases DEF Running, MakingInv
  <2>2. Full(N, {"conf"})
    BY <1>0, <1>1, <1>5, <2>1, AllFull
  <2>3. cert[self].serial \notin Revoked(N)
    BY <1>5, <2>1 DEF AccountInv, ListSteps
  <2> QED BY <2>2, <2>3 DEF CanRevoke
<1>6. ASSUME pc = "crl"  PROVE CanList(Lister)
  <2>1. Lister \in Levels /\ Missing(Lister) = {}
    <3>1. CASE then = "return"
      <4>1. self \in Levels
        BY <1>6, <3>1, Phases DEF ListSteps, Owners
      <4> QED BY <1>6, <3>1, <4>1 DEF Lister, FilesInv
    <3>2. CASE then = "end"
      BY <1>0, <1>1, <1>6, <3>2, Phases DEF Lister, ListSteps, Running
    <3>3. CASE then \in {"replace", "revoke"}
      BY <1>0, <1>1, <1>6, <3>3, Phases DEF Lister, ListSteps, Running
    <3> QED BY <3>1, <3>2, <3>3 DEF IInv, TypeOK
  <2> QED BY <1>0, <1>6, <2>1, AllFull DEF CanList
<1> QED BY <1>2, <1>3, <1>4, <1>5, <1>6 DEF Refused

\* A CA's certificate is not signed twice, and the files lead to the root.
LEMMA ChainStep ==
    ASSUME IInv, IInv', SerialInv, MakingInv, WholeInv, ChainInv, [Next]_vars
    PROVE  ChainInv'
<1> SUFFICES ASSUME ~cut'
             PROVE  ChainInv'
  BY DEF ChainInv
<1> USE DirAssumption
<1>0. ~cut /\ ~Stop /\ 1 \in Levels /\ Levels \subseteq Owners
  <2>1. ~cut
    BY Effects
  <2>2. ~Stop
    BY DEF Stop
  <2>3. 1 \in Levels /\ Levels \subseteq Owners
    BY ChainAssumption DEF Owners, Levels
  <2> QED BY <2>1, <2>2, <2>3
<1>1. ASSUME NEW c \in Levels, c # 1, cert'[c] = None, ~(pc' = "rename" /\ self' = c)
      PROVE  index'[c - 1] = <<>>
  <2>1. c - 1 \in Levels /\ c - 1 # N
    BY <1>1, ChainAssumption DEF Levels
  <2>2. cert[c] = None
    <3>1. ~(c = self /\ RemoveInvalid /\ cert[c] # None)
      BY <1>0 DEF RemoveInvalid, Go, WholeInv
    <3>2. ~(c = self /\ RemoveRevoked)
      BY Phases DEF RemoveRevoked, Go
    <3>3. ~(c = self /\ Rename)
      BY <1>1 DEF IInv, CertInv, Rename, Go, Running
    <3> QED BY <1>0, <1>1, <3>1, <3>2, <3>3, CertChange
  <2>3. ~(pc = "rename" /\ self = c)
    <3> SUFFICES ASSUME pc = "rename", self = c  PROVE FALSE
      OBVIOUS
    <3>1. Rename \/ UNCHANGED vars
      BY <1>0 DEF Next, vars, Start, Create, Close, FindCACertificate, RemoveInvalid,
         SelfSign, MakeRequest, Sign, Flush, Verify, Return, Ask, MakeKey, FindKey,
         Revoke, RemoveRevoked, EndOfRequests, GenerateCRL, Truncate, Concatenate,
         Refused, Go, Skip, Running
    <3>2. CASE Rename
      <4>1. cert'[self] # None
        BY <3>2 DEF IInv, CertInv, Rename, Go, Running
      <4> QED BY <1>1, <4>1
    <3>3. CASE UNCHANGED vars
      BY <1>1, <3>3 DEF vars
    <3> QED BY <3>1, <3>2, <3>3
  <2>4. index[c - 1] = <<>>
    BY <1>0, <1>1, <2>2, <2>3 DEF ChainInv
  <2>5. CASE Sign
    <3>1. pc' = "rename" /\ self' = self
      BY <2>5 DEF Sign, Go
    <3>2. Issuer(self) # c - 1
      BY <1>1, <2>1, <2>5, <3>1, SignChange, Phases DEF Owners, Levels
    <3> QED BY <2>1, <2>4, <2>5, <3>2, SignChange
  <2>6. CASE Revoke
    BY <2>1, <2>4, <2>6, RevokeChange
  <2> QED BY <2>4, <2>5, <2>6, Effects
<1>2. ASSUME NEW o \in Owners, cert'[o] # None, open' # o
      PROVE  Between(o) \subseteq cert'[o].chain
  <2>1. ASSUME open = o  PROVE Between(o) \subseteq Chain(o)
    <3>1. Running /\ o = self /\ self # 1
      BY <2>1, NoneAssumption DEF IInv, OpenInv
    <3> QED BY <1>0, <3>1, IssuerDone, ChainLeads
  <2>2. CASE cert'[o] = cert[o] /\ open # o
    BY <1>0, <1>2, <2>2 DEF ChainInv
  <2>3. CASE cert'[o] = cert[o] /\ open = o
    <3>1. Running /\ pc # "rename"
      BY <2>3, NoneAssumption DEF IInv, OpenInv
    <3>2. cert' = Flushed
      BY <1>0, <1>2, <2>3, <3>1, Effects DEF Start, Rename, Flush, Return, Refused, Go
    <3>3. open # None /\ cert[o] \in Certificate
      BY <2>3, NoneAssumption DEF IInv, TypeOK
    <3>4. Flushed[o].chain = Chain(o)
      BY <2>3, <3>3 DEF Flushed, Certificate, IInv, TypeOK
    <3> QED BY <2>1, <2>3, <3>2, <3>4
  <2>4. CASE /\ o = open /\ cert[o] \in Certificate
             /\ cert'[o] = [cert[o] EXCEPT !.chain = Chain(o)]
    BY <2>1, <2>4 DEF Certificate
  <2>5. CASE SelfSign /\ o = 1
    BY <1>0, <2>5 DEF Between
  <2>6. ~(Rename /\ o = self)
    BY <1>2 DEF Rename
  <2> QED BY <1>2, <2>2, <2>3, <2>4, <2>5, <2>6, CertChange
<1> QED BY <1>0, <1>1, <1>2 DEF ChainInv, Between

\* A certificate is valid as long as it has a file, and the other way round.
LEMMA AccountStep ==
    ASSUME IInv, IInv', FilesInv, SerialInv, MakingInv, WholeInv, ChainInv, AccountInv,
           [Next]_vars
    PROVE  AccountInv'
<1> SUFFICES ASSUME ~cut'
             PROVE  AccountInv'
  BY DEF AccountInv
<1> USE DirAssumption
<1>0. /\ ~cut /\ ~Stop /\ ~Refused
      /\ N \in Levels /\ Dirs \subseteq Owners /\ 1 \notin Dirs
  <2>1. ~cut
    BY Effects
  <2>2. ~Stop
    BY DEF Stop
  <2>3. N \in Levels /\ Dirs \subseteq Owners /\ 1 \notin Dirs
    BY ChainAssumption DEF Owners, Levels
  <2> QED BY <2>1, <2>2, <2>3, NoRefusal
<1>1. ASSUME NEW d \in Dirs, cert[d] # None, ~(RemoveRevoked /\ d = self)
      PROVE  cert'[d] # None /\ cert'[d].serial = cert[d].serial
  <2>1. ~(d = self /\ RemoveInvalid)
    BY <1>0, <1>1 DEF RemoveInvalid, Go, WholeInv
  <2>2. ~(d = self /\ Rename)
    BY <1>1 DEF Rename, Go, MakingInv
  <2>3. CASE cert'[d] = cert[d]
    BY <1>1, <2>3
  <2>4. CASE cert[d] \in Certificate /\ cert'[d] = [cert[d] EXCEPT !.chain = Chain(d)]
             /\ cert'[d] # None
    BY <2>4 DEF Certificate
  <2> QED BY <1>0, <1>1, <2>1, <2>2, <2>3, <2>4, CertChange
<1>2. ASSUME NEW d \in Dirs, cert'[d] # None, ~(Rename /\ d = self)
      PROVE  cert[d] # None /\ cert'[d].serial = cert[d].serial
  <2>1. cert[d] # None
    BY <1>0, <1>2, CertChange, NoneAssumption
  <2> QED BY <1>1, <1>2, <2>1 DEF RemoveRevoked, IInv, TypeOK, Owners
<1>3. index[N] \in Seq(Entry)
  BY <1>0 DEF IInv, TypeOK
<1>4. ASSUME NEW s \in DOMAIN index'[N], ~index'[N][s].revoked
      PROVE  \/ \E d \in Dirs : cert'[d] # None /\ cert'[d].serial = s
             \/ pc' = "rename" /\ self' \in Dirs /\ s = Len(index'[N])
  <2>1. CASE s \notin DOMAIN index[N]
    <3>1. Sign /\ Issuer(self) = N
      BY <1>0, <2>1, Effects, RevokeChange, SignChange
    <3>2. self \in Dirs /\ pc' = "rename" /\ self' = self
      BY <3>1, SignChange, Phases DEF Sign, Go, Owners
    <3>3. s = Len(index'[N])
      BY <1>3, <2>1, <3>1, SignChange
    <3> QED BY <3>2, <3>3
  <2>2. CASE s \in DOMAIN index[N]
    <3>1. ~index[N][s].revoked
      <4>1. CASE Sign /\ Issuer(self) = N
        BY SMTT(30), <1>3, <1>4, <2>2, <4>1, SignChange
      <4>2. CASE Revoke
        BY <1>4, <2>2, <4>2, RevokeChange
      <4> QED BY <1>0, <1>4, <4>1, <4>2, Effects, SignChange
    <3>2. ASSUME NEW d \in Dirs, cert[d] # None, cert[d].serial = s
          PROVE  cert'[d] # None /\ cert'[d].serial = s
      <4>1. ASSUME RemoveRevoked, d = self  PROVE FALSE
        <5>1. pc = "remove" /\ Running
          BY <4>1 DEF RemoveRevoked, Go, Running
        <5>2. then \in {"replace", "revoke"}
          BY <5>1 DEF IInv, PhaseInv, Constructing, Issuing, CASteps
        <5>3. s \in Revoked(N)
          BY <3>2, <4>1, <5>1, <5>2 DEF MakingInv
        <5> QED BY <3>1, <5>3 DEF Revoked
      <4> QED BY <1>1, <3>2, <4>1
    <3>3. ASSUME pc = "rename", self \in Dirs, s = Len(index[N])
          PROVE  \/ \E d \in Dirs : cert'[d] # None /\ cert'[d].serial = s
                 \/ pc' = "rename" /\ self' \in Dirs /\ s = Len(index'[N])
      <4>1. Rename \/ UNCHANGED vars
        BY <1>0, <3>3 DEF Next, vars, Start, Create, Close, FindCACertificate,
           RemoveInvalid, SelfSign, MakeRequest, Sign, Flush, Verify, Return, Ask,
           MakeKey, FindKey, Revoke, RemoveRevoked, EndOfRequests, GenerateCRL,
           Truncate, Concatenate, Go, Skip, Running
      <4>2. CASE Rename
        <5>1. Issuer(self) = N
          BY <1>0, <3>3, Issuers
        <5>2. cert'[self] = [subject |-> Subject, serial |-> s, chain |-> {}]
          BY <1>0, <3>3, <4>2, <5>1 DEF Rename, IInv, TypeOK
        <5>3. cert'[self] # None
          BY <4>2, <3>3 DEF IInv, CertInv, Rename, Go, Running
        <5> QED BY <3>3, <5>2, <5>3
      <4>3. CASE UNCHANGED vars
        BY <3>3, <4>3 DEF vars, disk
      <4> QED BY <4>1, <4>2, <4>3
    <3> QED BY <1>0, <2>2, <3>1, <3>2, <3>3 DEF AccountInv
  <2> QED BY <2>1, <2>2
<1>5. ASSUME NEW d \in Dirs, cert'[d] # None, cert'[d].serial \in Revoked(N)'
      PROVE  /\ d = self' /\ pc' \in ListSteps \cup {"remove"}
             /\ then' \in {"replace", "revoke"}
  <2>1. ASSUME Rename, d = self  PROVE FALSE
    <3>1. pc = "rename" /\ Issuer(self) = N /\ index' = index
      BY <1>0, <2>1, Issuers DEF Rename, Go
    <3>2. cert'[d].serial = Len(index[N])
      BY <1>0, <2>1, <3>1 DEF Rename, IInv, TypeOK
    <3>3. ~index[N][Len(index[N])].revoked
      BY <3>1 DEF MakingInv
    <3> QED BY <1>5, <3>1, <3>2, <3>3 DEF Revoked
  <2>2. cert[d] # None /\ cert[d].serial \in Revoked(N)'
    BY <1>2, <1>5, <2>1
  <2>3. CASE Revoke
    <3>1. cert[d].serial = cert[self].serial
      <4>1. cert[d].serial \notin Revoked(N)
        BY <1>0, <2>2, <2>3 DEF AccountInv, Revoke, ListSteps
      <4> QED BY <2>2, <2>3, <4>1, RevokeChange DEF Revoked
    <3>2. d = self
      BY <2>2, <2>3, <3>1, RevokeChange DEF SerialInv
    <3> QED BY <2>3, <3>2 DEF Revoke, Go, ListSteps
  <2>4. CASE ~Revoke
    <3>1. /\ d = self /\ pc \in ListSteps \cup {"remove"}
          /\ then \in {"replace", "revoke"}
      BY <1>0, <2>2, <2>4, RevokedChange DEF AccountInv
    <3>2. ~RemoveRevoked
      BY <1>0, <1>5, <3>1 DEF RemoveRevoked, IInv, TypeOK
    <3>3. UNCHANGED vars \/ GenerateCRL \/ Truncate \/ Concatenate
      BY <1>0, <3>1, <3>2 DEF Next, vars, Start, Create, Close, FindCACertificate,
         RemoveInvalid, SelfSign, MakeRequest, Sign, Rename, Flush, Verify, Return, Ask,
         MakeKey, FindKey, Revoke, EndOfRequests, Go, Skip, Running, ListSteps
    <3> QED BY <3>1, <3>3 DEF vars, GenerateCRL, Truncate, Concatenate, Go, ListSteps
  <2> QED BY <2>3, <2>4
<1> QED BY <1>4, <1>5 DEF AccountInv, ListSteps

-----------------------------------------------------------------------------
(* Also after runs that were stopped.                                       *)

\* A certificate is made for a key, valid alone, and gets its whole chain.
LEMMA ProgressStep ==
    ASSUME IInv, IInv', SerialInv, MakingInv, ProgressInv, [Next]_vars
    PROVE  ProgressInv'
<1> USE DirAssumption
<1> SUFFICES ASSUME self' \in Dirs,
                    pc' \in {"invalid", "csr", "sign", "rename", "flush", "verify"}
             PROVE  /\ self' \in keys'
                    /\ pc' = "rename" => Valid(N, request)' = {Len(index'[N])}
                    /\ pc' \in {"flush", "verify"} =>
                         /\ cert'[self'].subject = request'
                         /\ Valid(N, request)' = {cert'[self'].serial}
                    /\ pc' = "flush" => open' = self'
                    /\ pc' = "verify" => cert'[self'].chain = Chain(self)'
  BY DEF ProgressInv
<1>0. N \in Levels /\ N \in Owners /\ Dirs \subseteq Owners /\ index[N] \in Seq(Entry)
  BY ChainAssumption DEF Levels, Owners, IInv, TypeOK
<1>1. /\ self' = self /\ request' = request
      /\ \/ UNCHANGED vars \/ RemoveInvalid \/ MakeRequest \/ Sign \/ Rename \/ Flush
         \/ MakeKey \/ FindKey
  <2>1. ~Create /\ ~FindCACertificate
    BY Phases DEF Create, FindCACertificate, Skip, Go
  <2> QED BY <2>1 DEF Next, vars, Start, Close, RemoveInvalid, SelfSign,
     MakeRequest, Sign, Rename, Flush, Verify, Return, Ask, MakeKey, FindKey, Revoke,
     RemoveRevoked, EndOfRequests, GenerateCRL, Truncate, Concatenate, Refused,
     Stop, Go, Skip
<1>2. self' \in keys'
  BY <1>1 DEF vars, disk, RemoveInvalid, MakeRequest, Sign, Rename, Flush, MakeKey,
     FindKey, Go, Skip, ProgressInv
<1>3. CASE UNCHANGED vars
  BY <1>2, <1>3 DEF vars, disk, ProgressInv, Valid, Chain, Issuer
<1>4. CASE RemoveInvalid \/ MakeRequest \/ MakeKey \/ FindKey
  BY <1>2, <1>4 DEF RemoveInvalid, MakeRequest, MakeKey, FindKey, Go, Skip
<1>5. CASE Sign
  <2>1. pc' = "rename" /\ CanSign
    BY <1>5 DEF Sign, Go
  <2>2. Issuer(self) = N /\ Subject = request
    BY <1>1, <1>5, SignChange
  <2>3. Valid(N, request) = {}
    BY <2>1, <2>2 DEF CanSign
  <2>4. index'[N] = Append(index[N], [subject |-> request, revoked |-> FALSE])
    BY <1>5, <2>2, SignChange
  <2>5. Valid(N, request)' = {Len(index'[N])}
    BY <1>0, <1>1, <2>3, <2>4 DEF Valid
  <2> QED BY <1>2, <2>1, <2>5
<1>6. CASE Rename
  <2>1. pc = "rename" /\ pc' = "flush" /\ open' = self /\ index' = index
    BY <1>1, <1>6 DEF Rename, Go
  <2>2. Issuer(self) = N /\ Subject = request
    BY <1>0, <1>1, Issuers DEF Subject
  <2>3. cert'[self] = [subject |-> request, serial |-> Len(index[N]), chain |-> {}]
    BY <1>0, <1>1, <1>6, <2>2 DEF Rename, IInv, TypeOK
  <2>4. Valid(N, request)' = {Len(index[N])}
    BY <1>1, <2>1 DEF ProgressInv, Valid
  <2> QED BY <1>1, <1>2, <2>1, <2>3, <2>4
<1>7. CASE Flush
  <2>1. pc = "flush" /\ pc' = "verify" /\ cert' = Flushed /\ index' = index
    BY <1>7 DEF Flush, Go
  <2>2. /\ open = self /\ cert[self].subject = request
        /\ Valid(N, request) = {cert[self].serial}
    BY <1>1, <2>1 DEF ProgressInv
  <2>3. cert[self] \in Certificate
    BY <1>0, <1>1, <2>1 DEF IInv, CertInv, Running, TypeOK
  <2>4. cert'[self] = [cert[self] EXCEPT !.chain = Chain(self)]
    BY <1>0, <1>1, <2>1, <2>2, NoneAssumption DEF Flushed, IInv, TypeOK
  <2>5. Issuer(self) = N /\ Issuer(self)' = N /\ N # self
    BY <1>0, <1>1, Issuers DEF Issuer
  <2>6. cert'[N] = cert[N]
    BY <1>0, <2>1, <2>2, <2>5 DEF Flushed, IInv, TypeOK
  <2>7. Chain(self)' = Chain(self)
    BY <1>1, <2>5, <2>6 DEF Chain, Issuer
  <2> QED BY <1>1, <1>2, <2>1, <2>2, <2>3, <2>4, <2>7 DEF Valid, Certificate
<1> QED BY <1>1, <1>3, <1>4, <1>5, <1>6, <1>7

\* A fresh certificate stays one, while another is made or revoked.
LEMMA GoodKept ==
    ASSUME IInv, SerialInv, MakingInv, [Next]_vars, NEW d \in Dirs, Good(d),
           asked[d] # None, asked'[d] = asked[d],
           d # self \/ UNCHANGED <<keys, index, cert>>
    PROVE  Good(d)'
<1> USE DirAssumption
<1>0. N \in Levels /\ d \in Owners /\ d # 1 /\ index[N] \in Seq(Entry)
  BY ChainAssumption DEF Levels, Owners, IInv, TypeOK
<1>1. d \in keys'
  BY Effects DEF Good, MakeKey
<1>2. cert'[d] = cert[d]
  <2>1. CASE d # self
    <3>1. open # d
      BY <1>0, <2>1, NoneAssumption DEF IInv, OpenInv, Owners
    <3> QED BY <1>0, <2>1, <3>1, CertChange
  <2> QED BY <2>1
<1>3. Valid(N, asked[d])' = Valid(N, asked[d])
  <2>1. CASE index' = index
    BY <2>1 DEF Valid
  <2>2. CASE d # self /\ Sign
    <3>1. CASE self \in Dirs
      <4>1. Running
        BY <2>2 DEF Sign, Go, Running
      <4>2. request # asked[d]
        BY <2>2, <3>1, <4>1 DEF SerialInv
      <4>3. index'[N] = Append(index[N], [subject |-> request, revoked |-> FALSE])
        BY <2>2, <3>1, SignChange
      <4> QED BY <1>0, <4>2, <4>3 DEF Valid
    <3>2. CASE self \in Levels
      BY <1>0, <2>2, <3>2, SignChange DEF Valid
    <3> QED BY <3>1, <3>2, Phases DEF Owners
  <2>3. CASE d # self /\ Revoke
    <3>1. self \in Dirs /\ cert[self] # None
      BY <2>3, RevokeChange
    <3>2. index[N][cert[self].serial].subject # asked[d]
      BY <2>3, <3>1 DEF SerialInv
    <3> QED BY <2>3, <3>2, RevokeChange DEF Valid
  <2> QED BY <2>1, <2>2, <2>3, Effects
<1> QED BY <1>1, <1>2, <1>3 DEF Good, Valid, Between

\* What was asked for is there, but for the certificate at hand.
LEMMA FreshStep ==
    ASSUME IInv, IInv', SerialInv, MakingInv, ProgressInv, FreshInv, [Next]_vars
    PROVE  FreshInv'
<1> USE DirAssumption
<1> SUFFICES ASSUME Replacing'
             PROVE  FreshInv'
  BY DEF FreshInv
<1>0. Dirs \subseteq Owners
  BY DEF Owners
<1>1. CASE Start
  BY <1>1 DEF Start, FreshInv, Running
<1>2. CASE \E subject \in Subjects : Ask(subject)
  <2>1. PICK subject \in Subjects : Ask(subject)
    BY <1>2
  <2>2. /\ pc = "request" /\ self' = DirOf[subject]
        /\ asked' = [asked EXCEPT ![DirOf[subject]] = subject]
        /\ pc' \in {"replace", "certKey"}
        /\ UNCHANGED <<disk, opts>>
    BY <2>1 DEF Ask
  <2>3. pc' = "certKey" => cert'[self'] = None
    BY <2>1 DEF Ask, Replacing, disk
  <2>4. ASSUME NEW d \in Dirs, asked'[d] # None  PROVE Good(d)' \/ Unrevoked(d)'
    <3>1. CASE d = self'
      BY <2>2, <3>1 DEF Unrevoked, Running, ListSteps
    <3>2. CASE d # self'
      <4>1. asked'[d] = asked[d]
        BY <2>2, <3>2 DEF IInv, TypeOK
      <4>2. Good(d)
        BY <2>2, <2>4, <4>1 DEF FreshInv, Replacing, Unrevoked, Running
      <4> QED BY <2>2, <2>4, <4>1, <4>2, GoodKept DEF disk
    <3> QED BY <3>1, <3>2
  <2> QED BY <2>3, <2>4 DEF FreshInv
<1>3. CASE ~Start /\ ~(\E subject \in Subjects : Ask(subject))
  <2>0. opts' = opts /\ Replacing /\ asked' = asked /\ (self' = self \/ Return)
    BY <1>3, Effects DEF Replacing
  <2>1. ASSUME pc' = "certKey"  PROVE cert'[self'] = None
    <3>1. RemoveRevoked \/ UNCHANGED vars
      BY <1>3, <2>1 DEF Next, vars, Start, Create, Close, FindCACertificate,
         RemoveInvalid, SelfSign, MakeRequest, Sign, Rename, Flush, Verify, Return,
         MakeKey, FindKey, Revoke, EndOfRequests, GenerateCRL, Truncate, Concatenate,
         Refused, Stop, Go, Skip
    <3>2. CASE RemoveRevoked
      BY <3>2, Phases DEF RemoveRevoked, IInv, TypeOK
    <3>3. CASE UNCHANGED vars
      BY <2>0, <2>1, <3>3 DEF vars, disk, FreshInv
    <3> QED BY <3>1, <3>2, <3>3
  <2>2. ASSUME NEW d \in Dirs, asked'[d] # None, Running' \/ pc' = "done"
        PROVE  Good(d)' \/ Unrevoked(d)'
    <3>1. Running \/ pc = "done"
      BY <1>3, <2>2, Effects DEF Next, vars, Create, Close, FindCACertificate,
         RemoveInvalid, SelfSign, MakeRequest, Sign, Rename, Flush, Verify, Return,
         MakeKey, FindKey, Revoke, RemoveRevoked, EndOfRequests, GenerateCRL, Truncate,
         Concatenate, Refused, Stop, Go, Skip, Running
    <3>2. Good(d) \/ Unrevoked(d)
      BY <2>0, <2>2, <3>1 DEF FreshInv
    <3>3. CASE d # self
      BY <2>0, <2>2, <3>2, <3>3, GoodKept DEF Unrevoked
    <3>4. CASE d = self /\ UNCHANGED vars
      BY <2>0, <2>2, <3>2, <3>4, GoodKept DEF vars, disk, Unrevoked, Running
    <3>5. CASE d = self /\ ~UNCHANGED vars
      <4>1. self' = self /\ d \notin Levels
        BY <2>0, <3>5, Phases DEF Return, Go
      <4>2. CASE pc' \notin {"request", "return", "done"}
                 /\ ~(then' = "end" /\ pc' \in ListSteps)
        BY <2>2, <3>5, <4>1, <4>2 DEF Unrevoked
      <4>3. ASSUME then' = "end", pc' \in ListSteps \cup {"done"}
            PROVE  Good(d)'
        <5>1. \/ EndOfRequests
              \/ (GenerateCRL \/ Truncate \/ Concatenate) /\ then = "end"
          BY <1>3, <3>5, <4>1, <4>3, Phases, ChainAssumption DEF Next, vars, Create,
             Close, FindCACertificate, RemoveInvalid, SelfSign, MakeRequest, Sign,
             Rename, Flush, Verify, Return, MakeKey, FindKey, Revoke, RemoveRevoked, EndOfRequests, GenerateCRL, Truncate,
             Concatenate, Refused, Stop, Go, Skip, ListSteps
        <5>2. ~Unrevoked(d) /\ UNCHANGED <<keys, index, cert>>
          BY <5>1 DEF Unrevoked, EndOfRequests, GenerateCRL, Truncate, Concatenate, Go,
             disk, ListSteps
        <5> QED BY <2>0, <2>2, <3>2, <5>2, GoodKept
      <4>4. ASSUME pc' = "done"  PROVE then' = "end"
        BY <1>3, <3>5, <4>4 DEF Next, vars, Create, Close, FindCACertificate,
           RemoveInvalid, SelfSign, MakeRequest, Sign, Rename, Flush, Verify, Return,
           MakeKey, FindKey, Revoke, RemoveRevoked, EndOfRequests, GenerateCRL, Truncate,
           Concatenate, Refused, Stop, Go, Skip, IInv, TypeOK
      <4>5. pc' # "return"
        BY <3>5, <4>1, IInv' DEF IInv, PhaseInv, Constructing, Issuing, Running,
           CertificateSteps, ListSteps
      <4>6. ASSUME pc' = "request"  PROVE Good(d)'
        <5>1. Verify \/ FindKey \/ RemoveRevoked
          BY <1>3, <3>5, <4>1, <4>6, Phases DEF Next, vars, Create, Close,
             FindCACertificate, RemoveInvalid, SelfSign, MakeRequest, Sign, Rename,
             Flush, Return, MakeKey, Revoke, EndOfRequests, GenerateCRL, Truncate,
             Concatenate, Refused, Stop, Go, Skip
        <5>2. ~FindKey
          BY <2>0, <4>6 DEF FindKey, Skip, Go, FreshInv
        <5>3. ~RemoveRevoked
          <6>1. then # "revoke"
            BY <2>0 DEF Replacing, MakingInv
          <6>2. pc = "remove" /\ Running => then \in {"replace", "revoke"}
            BY DEF IInv, PhaseInv, Constructing, Issuing, CASteps
          <6> QED BY <4>6, <6>1, <6>2 DEF RemoveRevoked, Go, Running
        <5>4. CASE Verify
          <6>1. pc = "verify" /\ Running /\ UNCHANGED disk /\ Verifies(self)
            BY <5>4 DEF Verify, Skip, Go, Running
          <6>2. /\ self \in keys /\ cert[self].subject = request
                /\ Valid(N, request) = {cert[self].serial}
                /\ cert[self].chain = Chain(self)
            BY <3>5, <6>1 DEF ProgressInv
          <6>3. cert[self] # None /\ asked[self] = request
            BY <3>5, <6>1 DEF IInv, CertInv, SerialInv
          <6>4. Between(self) \subseteq cert[self].chain
            BY <6>1, <6>2 DEF Verifies, Chain
          <6>5. Good(d)
            BY <3>5, <6>2, <6>3, <6>4 DEF Good
          <6> QED BY <2>0, <2>2, <6>1, <6>5, GoodKept DEF disk
        <5> QED BY <5>1, <5>2, <5>3, <5>4
      <4> QED BY <4>2, <4>3, <4>4, <4>5, <4>6
    <3> QED BY <3>3, <3>4, <3>5
  <2> QED BY <2>1, <2>2 DEF FreshInv
<1> QED BY <1>1, <1>2, <1>3

-----------------------------------------------------------------------------
(* The invariant is inductive.                                             *)

\* It holds before the first run: nothing exists yet.
LEMMA JInitially == Init => JInv
<1> SUFFICES ASSUME Init  PROVE JInv
  OBVIOUS
<1>1. /\ ~Running /\ pc = "off" /\ self = 1 /\ self \notin Dirs /\ N \in Levels
      /\ Levels \subseteq Owners /\ Dirs \subseteq Owners
  BY ChainAssumption, DirAssumption DEF Init, Running, Levels, Owners
<1>2. \A c \in Levels, i \in DOMAIN Files : files[c][Files[i]] = "absent"
  BY DEF Init, FileNames
<1>3. \A c \in Levels : index[c] = <<>> /\ Revoked(c) = {}
  BY DEF Init, Revoked
<1>4. \A o \in Owners : cert[o] = None
  BY DEF Init
<1>5. FilesInv
  BY <1>1, <1>2 DEF Init, FilesInv
<1>6. SerialInv /\ cert[1] = None
  BY <1>1, <1>3, <1>4, ChainAssumption DEF Init, SerialInv, Levels
<1>7. MakingInv
  BY <1>1 DEF Init, MakingInv, ListSteps
<1>8. WholeInv
  BY <1>1, <1>2, <1>4 DEF WholeInv
<1>9. ChainInv
  <2>1. \A c \in Levels : c # 1 => c - 1 \in Levels
    BY ChainAssumption DEF Levels
  <2> QED BY <1>3, <1>4, <2>1 DEF ChainInv
<1>10. AccountInv
  BY <1>1, <1>3, <1>4 DEF AccountInv
<1>11. ProgressInv /\ FreshInv /\ NeverRefused
  BY <1>1 DEF ProgressInv, FreshInv, NeverRefused
<1> QED BY <1>5, <1>6, <1>7, <1>8, <1>9, <1>10, <1>11 DEF JInv

\* Every step keeps it.
LEMMA JInductive == IInv /\ IInv' /\ JInv /\ [Next]_vars => JInv'
<1> SUFFICES ASSUME IInv, IInv', JInv, [Next]_vars  PROVE JInv'
  OBVIOUS
<1>1. FilesInv' /\ SerialInv' /\ MakingInv' /\ ProgressInv' /\ FreshInv'
  BY FilesStep, SerialStep, MakingStep, ProgressStep, FreshStep DEF JInv
<1>2. WholeInv' /\ ChainInv' /\ AccountInv'
  BY WholeStep, ChainStep, AccountStep DEF JInv
<1>3. NeverRefused'
  <2>1. ~cut => ~Refused
    BY NoRefusal DEF JInv
  <2>2. pc' = "failed" => (pc = "failed" \/ Refused) /\ cut' = cut
    BY DEF Next, vars, history, Start, Create, Close, FindCACertificate, RemoveInvalid,
       SelfSign, MakeRequest, Sign, Rename, Flush, Verify, Return, Ask, MakeKey,
       FindKey, Revoke, RemoveRevoked, EndOfRequests, GenerateCRL, Truncate,
       Concatenate, Refused, Stop, Go, Skip
  <2> QED BY <2>1, <2>2 DEF JInv, NeverRefused
<1> QED BY <1>1, <1>2, <1>3 DEF JInv

LEMMA Invariance == Spec => [](IInv /\ JInv)
<1>1. IInv /\ JInv /\ [Next]_vars => (IInv /\ JInv)'
  BY Inductive, JInductive
<1> QED BY <1>1, Initially, JInitially, PTL DEF Spec

-----------------------------------------------------------------------------
(* The theorems.                                                            *)

\* OpenSSL refuses none of the script's commands as long as no run is stopped:
\* the files they need are whole, no subject has two valid certificates, what
\* is revoked is not revoked yet, and each chain leads to the root.
THEOREM NothingRefused == Spec => []NeverRefused
<1>1. JInv => NeverRefused
  BY DEF JInv
<1> QED BY <1>1, Invariance, PTL

\* Between runs none of which was stopped the valid certificates of the leaf CA
\* are exactly those that have a file.
THEOREM AllAccountedFor == Spec => []Accounted
<1>1. JInv => Accounted
  <2> SUFFICES ASSUME JInv, ~Running, ~cut
               PROVE  {s \in DOMAIN index[N] : ~index[N][s].revoked} =
                        {cert[d].serial : d \in {e \in Dirs : cert[e] # None}}
    BY DEF Accounted
  <2>1. pc \notin ListSteps \cup {"remove", "rename"}
    BY DEF Running, ListSteps
  <2>2. \A s \in DOMAIN index[N] : ~index[N][s].revoked =>
          \E d \in Dirs : cert[d] # None /\ cert[d].serial = s
    BY <2>1 DEF JInv, AccountInv
  <2>3. \A d \in Dirs : cert[d] # None =>
          cert[d].serial \in DOMAIN index[N] /\ ~index[N][cert[d].serial].revoked
    BY <2>1 DEF JInv, AccountInv, SerialInv, Revoked
  <2> QED BY <2>2, <2>3
<1> QED BY <1>1, Invariance, PTL

\* When a run is done, the global CRL file has every CA's revocations, and no
\* certificate file is open any more.
LEMMA Done ==
    ASSUME IInv, pc = "done"
    PROVE  /\ \A o \in Owners : open # o
           /\ \A c \in Levels : c \in DOMAIN global /\ global[c] = Revoked(c)
<1>1. ~Running
  BY DEF Running
<1>2. \A o \in Owners : open # o
  BY <1>1, NoneAssumption DEF IInv, OpenInv
<1>3. dictionary = Levels /\ global = [c \in dictionary |-> crl[c]]
  BY DEF IInv, PhaseInv
<1>4. \A c \in Levels : crl[c] = Revoked(c)
  BY <1>3 DEF IInv, ListInv, Unlisted
<1> QED BY <1>2, <1>3, <1>4

\* After runs none of which was stopped, check-certificate's OpenSSL test
\* passes for every certificate file there is, of the CAs and of the
\* directories, whatever was asked for, replaced and revoked.
THEOREM EverythingAccepted == Spec => []AllAccepted
<1>1. IInv /\ JInv => AllAccepted
  <2> SUFFICES ASSUME IInv, JInv, pc = "done", ~cut, NEW o \in Owners, cert[o] # None
               PROVE  Accepted(o)
    BY DEF AllAccepted
  <2>1. Issuer(o) \in Levels
    BY Issuers
  <2>2. Between(o) \subseteq cert[o].chain
    BY Done DEF JInv, ChainInv
  <2>3. cert[o].serial \notin Revoked(Issuer(o))
    <3>1. CASE Issuer(o) # N
      BY <2>1, <3>1 DEF JInv, SerialInv
    <3>2. CASE o \in Dirs
      <4>1. cert[o].serial \notin Revoked(N)
        BY <3>2 DEF JInv, AccountInv, ListSteps
      <4> QED BY <3>2, <4>1, Issuers
    <3>3. CASE o \in Levels /\ Issuer(o) = N
      <4>1. o = 1 /\ N = 1
        BY <3>3, Issuers, ChainAssumption DEF Issuer, Levels
      <4>2. cert[o].serial = 0
        BY <4>1 DEF JInv, SerialInv
      <4>3. index[N] \in Seq(Entry)
        BY <2>1, <3>3 DEF IInv, TypeOK
      <4> QED BY <3>3, <4>2, <4>3 DEF Revoked
    <3> QED BY <3>1, <3>2, <3>3 DEF Owners
  <2> QED BY <2>1, <2>2, <2>3, Done DEF Accepted
<1> QED BY <1>1, Invariance, PTL

\* A run that replaces what exists, and ends well, leaves for each directory a
\* certificate of the subject it was asked for last, with its key, good, and
\* the only valid one of this subject: wherever earlier runs were stopped.
THEOREM FreshCertificates == Spec => []FreshWhenDone
<1>1. IInv /\ JInv => FreshWhenDone
  <2> SUFFICES ASSUME IInv, JInv, pc = "done", Replacing, NEW d \in Dirs, asked[d] # None
               PROVE  /\ d \in keys /\ cert[d] # None
                      /\ cert[d].subject = asked[d]
                      /\ Valid(N, asked[d]) = {cert[d].serial}
                      /\ Accepted(d)
    BY DEF FreshWhenDone, Replacing
  <2>1. Good(d)
    BY DEF JInv, FreshInv, Unrevoked, Running
  <2>2. Issuer(d) = N /\ N \in Levels
    BY Issuers, ChainAssumption DEF Owners, Levels
  <2>3. cert[d].serial \notin Revoked(N)
    BY <2>1 DEF Good, Valid, Revoked
  <2>4. Accepted(d)
    BY <2>1, <2>2, <2>3, Done DEF Accepted, Good
  <2> QED BY <2>1, <2>4 DEF Good
<1> QED BY <1>1, Invariance, PTL

====
