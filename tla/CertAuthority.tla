----------------------------- MODULE CertAuthority -----------------------------
(***************************************************************************)
(* The test certificate authority (src/X509/generate-test-certificates on  *)
(* top of src/X509/CertificateHelper.py): a chain of CAs, each signed by   *)
(* the one before, and the certificates the last one issues.  A run builds *)
(* what is missing of the CAs, then makes, replaces or revokes the         *)
(* certificates asked for; the files are what the next run starts from.    *)
(*                                                                         *)
(* A step is one command or one file operation.  OpenSSL is external: its  *)
(* commands are atomic, and are refused exactly when their inputs demand   *)
(* it (the Can... operators).  A run may also stop anywhere (Stop): killed, *)
(* which loses what Python still has in a file's buffer, or through an     *)
(* exception, which does not.  Two runs at a time are not modelled.        *)
(***************************************************************************)
EXTENDS Naturals, Sequences

CONSTANTS
    N,              \* the number of CAs, from the root (1) to the leaf (N)
    Dirs,           \* the directories of certificates, named after them
    Subjects,       \* the subjects that may be asked for
    DirOf,          \* the directory of a subject's files
    MaxRuns,        \* how many runs there are
    MaxRequests,    \* how many certificates they are asked for in all
    None            \* no such file, no such request

Levels == 1 .. N
Owners == Levels \cup Dirs

\* What a CA's constructor looks for and makes, in this order.
Files == <<"index", "serial", "crlnumber", "conf", "password", "key">>

FileNames == {Files[i] : i \in DOMAIN Files}

ASSUME ChainAssumption == N \in Nat \ {0}
ASSUME DirAssumption ==
    /\ DirOf \in [Subjects -> Dirs]
    /\ Dirs \cap Levels = {} /\ Subjects \cap Levels = {}
ASSUME BoundAssumption == MaxRuns \in Nat /\ MaxRequests \in Nat

\* What a CA's index says of a certificate, and what is in a certificate file:
\* the certificate, and the levels of those that follow it.
Entry == [subject : Subjects \cup Levels, revoked : BOOLEAN]
Certificate ==
    [subject : Subjects \cup Levels, serial : Nat, chain : SUBSET Levels]

ASSUME NoneAssumption == None \notin Owners \cup Subjects \cup Certificate

VARIABLES
    files,      \* for each CA, what there is of its own files
    keys,       \* the directories with a private key
    index,      \* for each CA, what it has issued, by serial number
    cert,       \* the certificate file of each owner
    crl,        \* the CRL files: for a CA, the serial numbers it lists
    global,     \* the CRLs in the global CRL file
    opts,       \* the command line
    pc,         \* the step that comes next
    self,       \* whose files are being made
    request,    \* the subject of the certificate being made
    then,       \* what to go on with when the CRLs are written
    dictionary, \* GlobalCRLDictionary: the CAs constructed in this run
    open,       \* the certificate file whose chain is still in a buffer
    asked,      \* history: the last subject this run was asked for, by directory
    requests,   \* history: the number of certificates asked for
    run,        \* history: the number of the run
    cut         \* history: a run has been stopped

disk == <<files, keys, index, cert, crl, global>>
history == <<asked, requests, run, cut>>
vars == <<disk, opts, pc, self, request, then, dictionary, open, history>>

Issuer(o) == IF o \in Levels THEN IF o = 1 THEN 1 ELSE o - 1 ELSE N

\* The certificates that lead from the root, which is trusted, to an owner's.
Between(o) == IF o \in Levels THEN 2 .. o - 1 ELSE 2 .. N

\* A bug: only the issuer's own certificate, without the rest of its file.
ChainOfOne(o) == {Issuer(o)}

\* What follows an owner's certificate in its file: its issuer's file.
Chain(o) == {Issuer(o)} \cup cert[Issuer(o)].chain

\* The certificate files once Python has written its buffer.
Flushed ==
    IF open = None THEN cert ELSE [cert EXCEPT ![open].chain = Chain(open)]

Revoked(c) == {s \in DOMAIN index[c] : index[c][s].revoked}
Valid(c, subject) ==
    {s \in DOMAIN index[c] : index[c][s].subject = subject /\ ~index[c][s].revoked}

Subject == IF self \in Levels THEN self ELSE request

Full(c, names) == \A f \in names : files[c][f] = "full"

Running == pc \notin {"off", "done", "failed", "stopped"}

Init ==
    /\ files = [c \in Levels |-> [f \in FileNames |-> "absent"]]
    /\ keys = {} /\ index = [c \in Levels |-> <<>>]
    /\ cert = [o \in Owners |-> None] /\ crl = <<>>
    /\ global = <<>>
    /\ opts = [revokeIfExisting |-> TRUE, revoke |-> FALSE]
    /\ pc = "off" /\ self = 1 /\ request = None /\ then = "return"
    /\ dictionary = {} /\ open = None
    /\ asked = [d \in Dirs |-> None] /\ requests = 0 /\ run = 0 /\ cut = FALSE

Start ==
    /\ ~Running /\ run < MaxRuns
    /\ opts' \in [revokeIfExisting : BOOLEAN, revoke : BOOLEAN]
    /\ pc' = "create" /\ self' = 1 /\ request' = None /\ then' = "return"
    /\ dictionary' = {} /\ open' = None
    /\ asked' = [d \in Dirs |-> None] /\ run' = run + 1
    /\ UNCHANGED <<disk, requests, cut>>

-----------------------------------------------------------------------------
(* What OpenSSL demands of its inputs.                                      *)

\* A request, or the root's own certificate, is made with the configuration
\* of the CA it is for.
CanRequest ==
    Full(IF self \in Levels THEN self ELSE N, {"conf"})

\* A CA signs when it can number the certificate, and when no certificate of
\* the same subject is valid (unique_subject).
CanSign ==
    /\ Full(Issuer(self), {"conf", "serial"})
    /\ Valid(Issuer(self), Subject) = {}

\* A path from the root to the certificate, whose intermediate certificates
\* are in the issuer's file; a certificate has to be good by the leaf CA's CRL.
Verifies(o) ==
    /\ Between(o) \subseteq {Issuer(o)} \cup cert[Issuer(o)].chain
    /\ o \in Dirs => N \in DOMAIN crl /\ cert[o].serial \notin crl[N]

CanRevoke == Full(N, {"conf"}) /\ cert[self].serial \notin Revoked(N)

CanList(c) == Full(c, {"conf", "crlnumber"})

-----------------------------------------------------------------------------

Go(from, to) ==
    /\ pc = from /\ pc' = to
    /\ UNCHANGED <<opts, dictionary, history>>

Skip(from, to) ==
    /\ Go(from, to)
    /\ UNCHANGED <<disk, self, request, then, open>>

Missing(c) == {i \in DOMAIN Files : files[c][Files[i]] = "absent"}

\* The next file that does not exist.  Python creates the configuration and
\* the counters empty and writes them when it closes them; the password and
\* the key are made under another name.
Create ==
    /\ self \in Levels /\ Missing(self) # {}
    /\ LET i == CHOOSE i \in Missing(self) : \A j \in Missing(self) : i <= j
           written == Files[i] \in {"serial", "crlnumber", "conf"}
       IN
       /\ files' = [files EXCEPT ![self][Files[i]] =
                      IF written THEN "empty" ELSE "full"]
       /\ Go("create", IF written THEN "close"
                       ELSE IF Files[i] = "key" THEN "invalid" ELSE "create")
    /\ UNCHANGED <<keys, index, cert, crl, global, self, request, then, open>>

\* The file that was created last gets its content.
Close ==
    /\ Go("close", "create")
    /\ LET i == CHOOSE i \in DOMAIN Files \ Missing(self) :
                  \A j \in DOMAIN Files \ Missing(self) : j <= i
       IN files' = [files EXCEPT ![self][Files[i]] = "full"]
    /\ UNCHANGED <<keys, index, cert, crl, global, self, request, then, open>>

\* All files are there; so may be the certificate.
FindCACertificate ==
    /\ self \in Levels /\ Missing(self) = {}
    /\ Skip("create", IF cert[self] # None THEN "crl"
                      ELSE IF self = 1 THEN "selfSign" ELSE "csr")

\* A new key makes the old certificate, and the old CRL of a CA, invalid.
RemoveInvalid ==
    /\ Go("invalid", IF self \in Dirs THEN "csr" ELSE "create")
    /\ cert' = [cert EXCEPT ![self] = None]
    /\ crl' = [c \in DOMAIN crl \ {self} |-> crl[c]]
    /\ UNCHANGED <<files, keys, index, global, self, request, then, open>>

SelfSign ==
    /\ Go("selfSign", "crl")
    /\ CanRequest
    /\ cert' = [cert EXCEPT ![1] = [subject |-> 1, serial |-> 0, chain |-> {}]]
    /\ UNCHANGED <<files, keys, index, crl, global, self, request, then, open>>

MakeRequest ==
    /\ Skip("csr", "sign")
    /\ CanRequest

\* The issuer's index has the certificate before its file has its name.
Sign ==
    /\ Go("sign", "rename")
    /\ CanSign
    /\ index' = [index EXCEPT ![Issuer(self)] =
                   Append(@, [subject |-> Subject, revoked |-> FALSE])]
    /\ UNCHANGED <<files, keys, cert, crl, global, self, request, then, open>>

\* The chain is appended, and the file renamed before it is closed.
Rename ==
    /\ Go("rename", IF self \in Dirs THEN "flush" ELSE "verify")
    /\ cert' = [cert EXCEPT ![self] =
                  [subject |-> Subject, serial |-> Len(index[Issuer(self)]),
                   chain |-> {}]]
    /\ open' = self
    /\ UNCHANGED <<files, keys, index, crl, global, self, request, then>>

\* A bug: the file object outlives signCertificate.
FlushStaysOpen ==
    /\ Go("flush", "verify")
    /\ cert' = Flushed
    /\ UNCHANGED <<files, keys, index, crl, global, self, request, then, open>>

\* signCertificate returns, and its file objects are closed.
Flush ==
    /\ Go("flush", "verify")
    /\ cert' = Flushed /\ open' = None
    /\ UNCHANGED <<files, keys, index, crl, global, self, request, then>>

\* A bug: the outcome of openssl verify is not looked at.
VerifyIgnored ==
    Skip("verify", IF self \in Levels THEN "crl"
                   ELSE IF opts.revoke THEN "revoke" ELSE "request")

Verify ==
    /\ Skip("verify", IF self \in Levels THEN "crl"
                      ELSE IF opts.revoke THEN "revoke" ELSE "request")
    /\ Verifies(self)

\* The constructor of a CA returns: its file objects are closed, and the next
\* CA is constructed, or the certificates are.
Return ==
    /\ Go("return", IF self = N THEN "request" ELSE "create")
    /\ cert' = Flushed /\ open' = None
    /\ self' = IF self = N THEN N ELSE self + 1
    /\ UNCHANGED <<files, keys, index, crl, global, request, then>>

-----------------------------------------------------------------------------
(* The certificates.                                                        *)

\* A bug: what exists is removed to be replaced, but not revoked.
AskRemoves(subject) ==
    /\ pc = "request" /\ requests < MaxRequests
    /\ self' = DirOf[subject] /\ request' = subject
    /\ asked' = [asked EXCEPT ![DirOf[subject]] = subject]
    /\ requests' = requests + 1 /\ then' = "replace"
    /\ pc' = IF opts.revokeIfExisting /\ cert[DirOf[subject]] # None
               THEN "remove" ELSE "certKey"
    /\ UNCHANGED <<disk, opts, dictionary, open, run, cut>>

Ask(subject) ==
    /\ pc = "request" /\ requests < MaxRequests
    /\ self' = DirOf[subject] /\ request' = subject
    /\ asked' = [asked EXCEPT ![DirOf[subject]] = subject]
    /\ requests' = requests + 1
    /\ pc' = IF opts.revokeIfExisting /\ cert[DirOf[subject]] # None
               THEN "replace" ELSE "certKey"
    /\ UNCHANGED <<disk, opts, then, dictionary, open, run, cut>>

MakeKey ==
    /\ self \notin keys
    /\ Go("certKey", "invalid")
    /\ keys' = keys \cup {self}
    /\ UNCHANGED <<files, index, cert, crl, global, self, request, then, open>>

FindKey ==
    /\ self \in keys
    /\ Skip("certKey", IF cert[self] = None THEN "csr"
                       ELSE IF opts.revoke THEN "revoke" ELSE "request")

\* A bug: the CRL is not made again after a revocation.
RevokeUnlisted ==
    /\ pc \in {"replace", "revoke"} /\ CanRevoke
    /\ Go(pc, "remove")
    /\ index' = [index EXCEPT ![N][cert[self].serial].revoked = TRUE]
    /\ then' = pc
    /\ UNCHANGED <<files, keys, cert, crl, global, self, request, open>>

Revoke ==
    /\ pc \in {"replace", "revoke"} /\ CanRevoke
    /\ Go(pc, "crl")
    /\ index' = [index EXCEPT ![N][cert[self].serial].revoked = TRUE]
    /\ then' = pc
    /\ UNCHANGED <<files, keys, cert, crl, global, self, request, open>>

\* A bug: the file of the revoked certificate stays.
RemoveNothing ==
    Skip("remove", IF then = "replace" THEN "certKey" ELSE "request")

\* The revoked certificate's file goes when the CRLs list it.
RemoveRevoked ==
    /\ Go("remove", IF then = "replace" THEN "certKey" ELSE "request")
    /\ cert' = [cert EXCEPT ![self] = None]
    /\ UNCHANGED <<files, keys, index, crl, global, self, request, then, open>>

\* After the last certificate the root's CRL is made again.
EndOfRequests ==
    /\ request # None
    /\ Go("request", "crl")
    /\ then' = "end"
    /\ UNCHANGED <<disk, self, request, open>>

-----------------------------------------------------------------------------
(* The CRLs.                                                                *)

\* Whose CRL is made: that of the CA being constructed, of the CA that has
\* revoked a certificate, or in the end of the root.
Lister == CASE then = "return" -> self [] then = "end" -> 1 [] OTHER -> N

GenerateCRL ==
    /\ pc = "crl" /\ CanList(Lister)
    /\ pc' = "truncate"
    /\ crl' = [c \in DOMAIN crl \cup {Lister} |->
                 IF c = Lister THEN Revoked(c) ELSE crl[c]]
    /\ dictionary' = IF then = "return" THEN dictionary \cup {self} ELSE dictionary
    /\ UNCHANGED <<files, keys, index, cert, global, opts, self, request, then,
                   open, history>>

\* The shell empties the global CRL file before cat runs.
Truncate ==
    /\ Go("truncate", "cat")
    /\ global' = <<>>
    /\ UNCHANGED <<files, keys, index, cert, crl, self, request, then, open>>

Concatenate ==
    /\ Go("cat", CASE then = "return" -> "return" [] then = "end" -> "done"
                   [] OTHER -> "remove")
    /\ global' = [c \in dictionary |-> crl[c]]
    /\ UNCHANGED <<files, keys, index, cert, crl, self, request, then, open>>

-----------------------------------------------------------------------------

\* An assertion fails: the buffer is written, and the run is over.
Refused ==
    /\ \/ pc \in {"selfSign", "csr"} /\ ~CanRequest
       \/ pc = "sign" /\ ~CanSign
       \/ pc = "verify" /\ ~Verifies(self)
       \/ pc \in {"replace", "revoke"} /\ ~CanRevoke
       \/ pc = "crl" /\ ~CanList(Lister)
    /\ pc' = "failed"
    /\ cert' = Flushed /\ open' = None
    /\ UNCHANGED <<files, keys, index, crl, global, opts, self, request, then,
                   dictionary, history>>

\* An exception or a signal ends the run; a kill loses the buffer.
Stop ==
    /\ Running
    /\ pc' = "stopped" /\ cut' = TRUE
    /\ cert' \in {cert, Flushed} /\ open' = None
    /\ UNCHANGED <<files, keys, index, crl, global, opts, self, request, then,
                   dictionary, asked, requests, run>>

Next ==
    \/ Start \/ Create \/ Close \/ FindCACertificate \/ RemoveInvalid \/ SelfSign
    \/ MakeRequest \/ Sign \/ Rename \/ Flush \/ Verify \/ Return
    \/ \E subject \in Subjects : Ask(subject)
    \/ MakeKey \/ FindKey \/ Revoke \/ RemoveRevoked \/ EndOfRequests
    \/ GenerateCRL \/ Truncate \/ Concatenate
    \/ Refused \/ Stop

Spec == Init /\ [][Next]_vars

-----------------------------------------------------------------------------
(* Properties.                                                              *)

Steps == {"off", "done", "failed", "stopped", "create", "close", "invalid",
          "selfSign", "csr", "sign", "rename", "flush", "verify", "crl",
          "truncate", "cat", "return", "request", "certKey", "replace",
          "revoke", "remove"}

\* Every variable has its type: whatever stops a run, a file is absent, empty
\* or whole, and the buffer belongs to a file that is there.
TypeOK ==
    /\ files \in [Levels -> [FileNames -> {"absent", "empty", "full"}]]
    /\ keys \in SUBSET Dirs
    /\ index \in [Levels -> Seq(Entry)]
    /\ cert \in [Owners -> Certificate \cup {None}]
    /\ DOMAIN crl \subseteq Levels /\ crl \in [DOMAIN crl -> SUBSET Nat]
    /\ DOMAIN global \subseteq Levels
    /\ opts \in [revokeIfExisting : BOOLEAN, revoke : BOOLEAN]
    /\ pc \in Steps /\ self \in Owners /\ request \in Subjects \cup {None}
    /\ then \in {"return", "replace", "revoke", "end"}
    /\ dictionary \in SUBSET Levels
    /\ open # None => open \in Owners /\ cert[open] # None
    /\ asked \in [Dirs -> Subjects \cup {None}]
    /\ requests \in 0 .. MaxRequests /\ run \in 0 .. MaxRuns /\ cut \in BOOLEAN

\* What check-certificate's OpenSSL test demands of a certificate file, given
\* the root's certificate and the global CRL: the file itself has the path,
\* and its issuer's CRL is there and does not list the certificate.
Accepted(o) ==
    /\ Between(o) \subseteq cert[o].chain
    /\ Issuer(o) \in DOMAIN global
    /\ cert[o].serial \notin global[Issuer(o)]

\* The test of the X509 tools (run-tests makes the certificates and then calls
\* check-certificate for every .crt file there is): after runs none of which
\* was stopped, every certificate file passes, whatever they were asked for.
AllAccepted ==
    pc = "done" /\ ~cut => \A o \in Owners : cert[o] # None => Accepted(o)

\* As long as no run is stopped, OpenSSL refuses none of the script's
\* commands: no order of requests, options and runs makes it sign a second
\* valid certificate of a subject, revoke one twice, or verify in vain.
NeverRefused == pc = "failed" => cut

\* A run that replaces what exists, and ends well, leaves for each directory a
\* certificate of the subject it was asked for last, with its key, good by
\* check-certificate, and the only valid one of this subject: also when
\* earlier runs were stopped anywhere.
FreshWhenDone ==
    pc = "done" /\ opts = [revokeIfExisting |-> TRUE, revoke |-> FALSE] =>
        \A d \in Dirs : asked[d] # None =>
            /\ d \in keys /\ cert[d] # None
            /\ cert[d].subject = asked[d]
            /\ Valid(N, asked[d]) = {cert[d].serial}
            /\ Accepted(d)

\* A run that ends well has published every revocation there ever was, of
\* every CA, in the CA's own and in the global CRL; one that revokes leaves
\* no certificate file of those it was asked for. Also after stopped runs.
Published ==
    pc = "done" =>
        /\ crl = [c \in Levels |-> Revoked(c)] /\ global = crl
        /\ opts.revoke => \A d \in Dirs : asked[d] # None => cert[d] = None

\* Between runs none of which was stopped, the valid certificates of the leaf
\* CA are exactly those that have a file: none is forgotten unrevoked, which
\* nobody could revoke any more, and no file is one of a revoked certificate.
Accounted ==
    ~Running /\ ~cut =>
        {s \in DOMAIN index[N] : ~index[N][s].revoked} =
            {cert[d].serial : d \in {e \in Dirs : cert[e] # None}}
=============================================================================
