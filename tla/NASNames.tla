------------------------------ MODULE NASNames ------------------------------
(***************************************************************************)
(* internal/catalog/name.go: the names autofill gives to the NAS it sees.  *)
(* A name is any text: an RF-Domain behind the prefix "PROXY-", an         *)
(* identifier, an address, or what a user wrote.  What matters of a text   *)
(* is whether it begins with the prefix, wherever it comes from: an        *)
(* identifier or a user's name can, too.  Blanks around names are trimmed  *)
(* before they are compared, and an RF-Domain is taken without blanks and, *)
(* if it is VX, in capitals; None is the empty name.                       *)
(***************************************************************************)
CONSTANTS None,
          Name,        \* all names but the empty one
          ProxyNames,  \* those that begin with "PROXY-"
          Domain,      \* RF-Domains
          VX,          \* the domain "VX"
          PROXY        \* Domain -> the prefix with the domain

ASSUME NamesAssumption ==
    VX \in Domain /\ ProxyNames \subseteq Name /\ PROXY \in [Domain -> ProxyNames]

ProxyMultiName == PROXY[VX]

(* The name for what one request says: None is nothing. *)
CatalogNASName(hasProxy, rfDomain, nasIdentifier) ==
    IF ~hasProxy THEN nasIdentifier
    ELSE IF rfDomain = None THEN None ELSE PROXY[rfDomain]

\* Mutant: the second domain wins over the first.
MergeLatest(existing, incoming, ip) ==
    IF existing = ProxyMultiName THEN ProxyMultiName
    ELSE IF incoming = None THEN IF existing = None THEN ip ELSE existing
    ELSE IF incoming \in ProxyNames THEN incoming
    ELSE IF existing \in {None, ip} THEN incoming ELSE existing

(* The stored name and the one observed, for the NAS at the address ip.    *)
MergeAutofillName(existing, incoming, ip) ==
    IF ProxyMultiName \in {existing, incoming} THEN ProxyMultiName
    ELSE IF incoming = None THEN IF existing = None THEN ip ELSE existing
    ELSE IF incoming \in ProxyNames
         THEN IF existing \in ProxyNames \ {incoming} THEN ProxyMultiName ELSE incoming
    ELSE IF existing \in {None, ip} THEN incoming ELSE existing
=============================================================================
