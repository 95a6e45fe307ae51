----------------------------- MODULE MCCertificates -----------------------------
(***************************************************************************)
(* An instance of Certificates for TLC.                                    *)
(***************************************************************************)
EXTENDS Certificates

CONSTANT r1
===============================================================================
