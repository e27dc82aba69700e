------------------------------ MODULE Catalog ------------------------------
(***************************************************************************)
(* The provider catalog, providers.json (irl-provider/src/catalog.rs): the *)
(* providers the dropdown offers before any sign-in.  A raw entry is       *)
(* [name, url, priority]; a URL is [kind, host, slashes], the kind one of  *)
(* "https", "loopback" and "plain" as in SignIn.  A file that is not the   *)
(* JSON it should be is refused before any of this.                        *)
(***************************************************************************)
EXTENDS Integers, Sequences, FiniteSetsExt, SequencesExt

CONSTANTS Blank,    (* a name of spaces                                    *)
          Refused   (* CatalogError                                        *)

(* As discovery.rs has it: without the trailing slashes, or refused.       *)
normalize_base_url(url) ==
  IF url.kind \in {"https", "loopback"} THEN [url EXCEPT !.slashes = 0] ELSE Refused

(* Catalog::new: a stable sort, the highest priority first.                *)
new(providers) ==
  LET Ahead(j, k) == \/ providers[j].priority > providers[k].priority
                     \/ providers[j].priority = providers[k].priority /\ j < k
      Place(k) == 1 + Cardinality({j \in DOMAIN providers : Ahead(j, k)})
  IN  [place \in DOMAIN providers |-> providers[CHOOSE k \in DOMAIN providers : Place(k) = place]]

(* One turn of Catalog::parse's loop, over the entries taken so far.       *)
parse_entry(taken, entry) ==
  LET base_url == normalize_base_url(entry.url) IN
  IF \/ taken = Refused
     \/ entry.name = Blank
     \/ base_url = Refused
     \/ \E k \in DOMAIN taken : taken[k].url = base_url
  THEN Refused
  ELSE Append(taken, [entry EXCEPT !.url = base_url])

parse(raw) ==
  LET providers == FoldLeft(parse_entry, <<>>, raw)
  IN  IF providers = Refused THEN Refused ELSE new(providers)

-----------------------------------------------------------------------------
(* A file is refused as a whole, for one bad entry or for one provider     *)
(* spelt in two ways; otherwise the dropdown lists each of its providers   *)
(* exactly once, no provider behind one of lower priority, and those of    *)
(* the same priority as the file has them.                                 *)
DropdownFollowsFile(raw) ==
  LET offered == parse(raw)
      Site(k) == [kind |-> raw[k].url.kind, host |-> raw[k].url.host]
      Bad(k) == raw[k].name = Blank \/ raw[k].url.kind = "plain"
      At(p) == CHOOSE k \in DOMAIN raw :
                 Site(k) = [kind |-> offered[p].url.kind, host |-> offered[p].url.host]
  IN
  /\ offered = Refused <=>
       \/ \E k \in DOMAIN raw : Bad(k)
       \/ \E j, k \in DOMAIN raw : j # k /\ Site(j) = Site(k)
  /\ offered # Refused =>
       /\ DOMAIN offered = DOMAIN raw
       /\ {At(p) : p \in DOMAIN offered} = DOMAIN raw
       /\ \A p \in DOMAIN offered : /\ offered[p].name = raw[At(p)].name
                                    /\ offered[p].priority = raw[At(p)].priority
                                    /\ offered[p].url.slashes = 0
       /\ \A p, r \in DOMAIN offered : p < r =>
            \/ offered[p].priority > offered[r].priority
            \/ offered[p].priority = offered[r].priority /\ At(p) < At(r)
=============================================================================
