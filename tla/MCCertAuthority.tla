---------------------------- MODULE MCCertAuthority ----------------------------
(***************************************************************************)
(* A small instance of CertAuthority: a root, an intermediate and a leaf   *)
(* CA, and three subjects.  Two of them have the same directory: a server  *)
(* and a user of the same name.                                            *)
(***************************************************************************)
EXTENDS CertAuthority

CONSTANTS Bundy, BundyServer, Other, BundyDir, OtherDir

MCDirs == {BundyDir, OtherDir}
MCSubjects == {Bundy, BundyServer, Other}
MCDirOf == [s \in MCSubjects |-> IF s = Other THEN OtherDir ELSE BundyDir]
=============================================================================
