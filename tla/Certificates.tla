----------------------------- MODULE Certificates ----------------------------
(***************************************************************************)
(* Certificates and chains (pkg/signver/certificate.go).  A certificate is *)
(* [name, issuer, key, from, to, sct]: its name, that of the certificate   *)
(* that signed it, its public key, its validity and whether it embeds      *)
(* SCTs.  A reference is what it reads as: Unreadable, or the sequence of  *)
(* the certificates in it, <<>> being the empty string.  Path building is  *)
(* crypto/x509's; every intermediate is taken for a CA.                    *)
(***************************************************************************)
EXTENDS Integers, SequencesExt

CONSTANTS
  Certs,        \* all certificates
  Unreadable    \* a reference that is no file, or holds no certificates

ASSUME UnreadableAssumption == Unreadable \notin Seq(Certs)

Refs == Seq(Certs) \cup {Unreadable}

(* x509.Certificate.Verify: leaf leads to root over intermediates that,     *)
(* like the root, are valid at time t.  Every set that holds the usable     *)
(* issuers of the leaf and of its members holds the root.                   *)
LeadsToRoot(leaf, root, intermediates, t) ==
  LET usable == {c \in intermediates \cup {root} : c.from =< t /\ t =< c.to}
      Closed(S) == \A c \in usable :
                     (\E d \in S \cup {leaf} : d.issuer = c.name) => c \in S
  IN /\ leaf.from =< t /\ t =< leaf.to
     /\ root \in usable
     /\ root = leaf \/ \A S \in SUBSET usable : Closed(S) => root \in S

MutCurrentTime(cert, now) == now

(* trustedCert: the time at which a path must be valid is the certificate's *)
(* own start, not the present.                                              *)
CurrentTime(cert, now) == cert.from

MutConcatChain(chain, ref) ==   \* the root in front
  IF Unreadable \in {chain, ref} THEN Unreadable ELSE ref \o chain

(* ConcatChain of two references; an empty one adds nothing. *)
ConcatChain(chain, ref) ==
  IF Unreadable \in {chain, ref} THEN Unreadable ELSE chain \o ref

(* VerifyChain: the last certificate is the root, the others intermediates; *)
(* embedded SCTs cannot be verified.                                        *)
VerifyChain(cert, chain, now) ==
  /\ chain \notin {Unreadable, <<>>}
  /\ cert \notin {Unreadable, <<>>}
  /\ LeadsToRoot(cert[1], chain[Len(chain)],
                 ToSet(SubSeq(chain, 1, Len(chain) - 1)),
                 CurrentTime(cert[1], now))
  /\ ~cert[1].sct

MutVerifyCert(pk, cert) ==      \* the key is not compared
  cert \notin {Unreadable, <<>>}

(* VerifyCert: the certificate is for this public key. *)
VerifyCert(pk, cert) ==
  /\ cert \notin {Unreadable, <<>>}
  /\ cert[1].key = pk
=============================================================================
