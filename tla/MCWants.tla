-------------------------------- MODULE MCWants --------------------------------
(* A few states to start from, for two moves at any step that follows.       *)
EXTENDS Wants

Config(type, ids) == [type |-> type, ids |-> ids]
MCConfigs == {Config("ONE_BY_ONE", <<1, 2>>), Config("EN_MASSE", <<1, 2>>), Config("ONE_BY_ONE", <<2>>)}
Both(type) == [type |-> type, entries |-> Configured(<<1, 2>>)]
From(origin, existing, first, second, onDiscogs, arrived) ==
  [lists |-> <<first, second>>, shop |-> onDiscogs,
   stock |-> [r \in Release |-> IF r \in arrived THEN "arrived" ELSE "none"],
   policy |-> [origin |-> origin, existing |-> existing]]

MCStarts == {
  From("DISCOGS", "LIST", Both("ONE_BY_ONE"), None, {1, 2}, {}),
  From("GRAMOPHILE", "DROP", Both("DATE_BOUNDED"), Both("EN_MASSE"), {1, 2}, {1})}
=============================================================================
