--------------------------- MODULE CatalogProofs ---------------------------
(***************************************************************************)
(* For any number of products, categories, locations and overlapping calls: *)
(* nothing refers to what is gone, a name or a product is without its due   *)
(* only where two calls crossed or somebody took it, and a call that no     *)
(* other crossed is not undone, nor does it fail unless it names a product  *)
(* there is not.                                                            *)
(*                                                                         *)
(* One idea carries all of it.  A call knows what it has read as long as no *)
(* other call about the same thing has committed, and a commit changes only *)
(* what its call is about (CommitsOnly): so what an uncrossed call knows is *)
(* still true when it writes, and in effect when it is done.                *)
(***************************************************************************)
EXTENDS Catalog, FiniteSetTheorems, TLAPS

\* The calls that save a product they have loaded.
Switches == {"activate_product", "deactivate_product"}
Savers   == Switches \cup {"update_product"}

\* The calls that do not look whether the product they name was found.
Unchecked == {"add_to_category", "remove_from_category", "initialize_stock"}

\* What call c names is in the tables, or was.
Existing(c) ==
    /\ c.category # None => category[c.category] # None
    /\ c.location # None => location[c.location] # None
    /\ c.product # None =>
          product[c.product] # NoProduct \/ (c.product = Unknown /\ c.op \in Unchecked)

\* The arguments an operation has.
Arguments(c) ==
    /\ c.op \in CategoryOps \cup {"create_product"} => c.category # None
    /\ c.op \in Savers \cup Unchecked => c.product # None
    /\ c.op \in {"update_location", "delete_location", "initialize_stock"} => c.location # None
    /\ c.op = "create_category" => c.name \in CategoryNames
    /\ c.op = "create_location" => c.name \in LocationNames
    /\ c.op = "update_location" => c.name \in LocationNames \cup {None}
    /\ c.name # None => c.op \in NameOps
    /\ c.op = "create_product" => c.sku # None
    /\ c.sku # None => c.op \in {"create_product", "update_product"}
    /\ c.category # None => c.op \in CategoryOps \cup {"create_category", "create_product"}
    /\ c.location # None => c.op \in {"create_location", "update_location", "delete_location",
                                     "initialize_stock"}

\* The operations that pass step s, and what they hold there.
Reached(s, c) ==
    /\ s = "name" => c.op \in NameOps /\ c.name # None
    /\ s = "sku" => /\ c.op \in {"create_product", "update_product"}
                    /\ c.sku # None /\ c.was = NoProduct
    /\ s = "load" => c.op \in Ops \ {"create_category", "create_location"}
    /\ s = "stock" => c.op \in {"delete_location", "initialize_stock"}
    /\ s \in {"write", "done", "error"} => c.op \in Ops
    /\ s = "refresh" => c.op \in Ops \ {"delete_category", "delete_location"}
    /\ s = "write" /\ c.op \in Savers => c.was # NoProduct
    /\ s \in {"refresh", "done"} =>
          /\ c.op = "create_category" => c.category # None
          /\ c.op = "create_location" => c.location # None
          /\ c.op = "create_product" => c.product # None
    /\ s \in {"name", "sku", "load", "stock", "write"} =>
          /\ c.op = "create_product" => c.product = None
          /\ c.op = "create_location" => c.location = None
          /\ c.op = "create_category" => c.category = None

\* What get_by_name told, and the name an update_location has loaded.
NamesLookedUp(s, c) ==
    /\ s = "write" /\ c.op = "create_category" => CategoriesNamed(c.name) = {}
    /\ s = "write" /\ c.op = "create_location" => LocationsNamed(c.name) = {}
    /\ s \in {"load", "write"} /\ c.op = "update_location" =>
          /\ c.name # None => LocationsNamed(c.name) \subseteq {c.location}
          /\ c.named # None => location[c.location] = c.named

\* The category or location that was found, its products and its stock.
RowsLoaded(s, c) ==
    /\ s \in {"write", "stock", "refresh"} => IsThere(c)
    /\ s = "write" /\ c.op \in CategoryOps => c.loaded = ProductsOf(c.category)
    /\ s = "write" /\ c.op = "delete_location" => ~HoldsStock(c.location)
    /\ s = "write" /\ c.op = "initialize_stock" => <<c.product, c.location>> \notin stocks

\* What get_by_sku told, and the column that the call has loaded and may save.
ProductsLoaded(s, c) ==
    s \in {"load", "write"} =>
        /\ c.sku # None => SkuIsFree(c.sku, c.product)
        /\ c.op = "update_product" /\ c.was # NoProduct => product[c.product].sku = c.was.sku
        /\ c.op \in Switches /\ c.was # NoProduct => product[c.product].active = c.was.active

\* What a call that nobody crossed knows of the tables.
Knows(s, c) ==
    /\ NamesLookedUp(s, c)
    /\ RowsLoaded(s, c)
    /\ ProductsLoaded(s, c)
    /\ s \in {"refresh", "done"} => InEffect(c)

Sound(s, c) ==
    /\ Existing(c)
    /\ Arguments(c)
    /\ Reached(s, c)
    /\ c.crossed \/ Knows(s, c)
    /\ s = "error" => c.crossed \/ c.name \in doubled \/ NoSuchProduct(c)

\* Nothing in the tables refers to what is not there.
Attached ==
    /\ \A p \in Products, c \in Categories :
          <<p, c>> \in links => product[p] # NoProduct /\ Live(category[c])
    /\ \A p \in Products, l \in Locations :
          <<p, l>> \in stocks => product[p] # NoProduct /\ Live(location[l])

SkusUnique ==
    \A p, q \in Products : product[p] # NoProduct /\ product[p].sku = product[q].sku => p = q

NamesUnique ==
    /\ \A n \in CategoryNames \ doubled : \A c, d \in CategoriesNamed(n) : c = d
    /\ \A n \in LocationNames \ doubled : \A l, m \in LocationsNamed(n) : l = m

TablesSound == Attached /\ SkusUnique /\ NamesUnique /\ BornCategorised

CatalogInv ==
    /\ TypeOK
    /\ TablesSound
    /\ \A r \in Requests : Sound(pc[r], call[r])

-----------------------------------------------------------------------------
(* The initial state, and steps that leave the tables alone *)

\* A call that is not being made is sound.
LEMMA NoCallIsSound == NoCall \in Calls /\ Sound("idle", NoCall)
<1>1. NoCall \in Calls
  BY DEF NoCall, Calls, NoProduct, ProductRows
<1>2. /\ NoCall.op = "none" /\ NoCall.name = None /\ NoCall.sku = None
      /\ NoCall.category = None /\ NoCall.location = None /\ NoCall.product = None
      /\ NoCall.loaded = {} /\ NoCall.was = NoProduct /\ NoCall.named = None
  BY DEF NoCall
<1> HIDE DEF NoCall
<1>3. Sound("idle", NoCall)
  BY <1>2
  DEF Sound, Existing, Arguments, Reached, Knows, NamesLookedUp, RowsLoaded, ProductsLoaded,
      Ops, NameOps, CategoryOps, ProductOps, Savers, Switches, Unchecked
<1> QED
  BY <1>1, <1>3

\* The invariant holds of the small catalogue that the calls find.
LEMMA InitCatalogInv == Init => CatalogInv
<1> SUFFICES ASSUME Init PROVE CatalogInv
  OBVIOUS
<1> USE CatalogConstants
<1>1. PICK c \in Categories, n \in CategoryNames :
         category = [[d \in Categories |-> None] EXCEPT ![c] = n]
  BY DEF Init
<1>2. PICK l \in Locations, m \in LocationNames :
         location = [[k \in Locations |-> None] EXCEPT ![l] = m]
  BY DEF Init
<1>3. PICK p \in Products, k \in Skus :
         /\ product = [[q \in Products |-> NoProduct] EXCEPT ![p] = [sku |-> k, active |-> TRUE]]
         /\ links = {p} \X {d \in Categories : Live(category[d])}
  BY DEF Init
<1>4. /\ \A d \in Categories : category[d] = IF d = c THEN n ELSE None
      /\ \A d \in Locations : location[d] = IF d = l THEN m ELSE None
      /\ \A q \in Products : product[q] = IF q = p THEN [sku |-> k, active |-> TRUE]
                                                   ELSE NoProduct
  BY <1>1, <1>2, <1>3
<1>5. Live(n) /\ Live(m) /\ ~Live(None) /\ NoProduct.sku = None
      /\ [sku |-> k, active |-> TRUE] # NoProduct /\ [sku |-> k, active |-> TRUE].sku = k
  BY DEF Live, NoProduct
<1>6. TypeOK
  <2>1. category \in [Categories -> CategoryNames \cup {None, Gone}]
    BY <1>1
  <2>2. location \in [Locations -> LocationNames \cup {None, Gone}]
    BY <1>2
  <2>3. product \in [Products -> ProductRows]
    BY <1>3 DEF ProductRows
  <2>4. call \in [Requests -> Calls] /\ pc \in [Requests -> PCs]
    BY NoCallIsSound DEF Init, PCs, Ended
  <2> QED
    BY <1>3, <2>1, <2>2, <2>3, <2>4 DEF Init, TypeOK
<1>7. Attached
  BY <1>3, <1>4, <1>5 DEF Attached, Init
<1>8. SkusUnique
  BY <1>4, <1>5 DEF SkusUnique
<1>9. NamesUnique
  BY <1>4 DEF NamesUnique, CategoriesNamed, LocationsNamed
<1>10. BornCategorised
  BY <1>3, <1>4, <1>5 DEF BornCategorised
<1>11. \A r \in Requests : Sound(pc[r], call[r])
  BY NoCallIsSound DEF Init
<1> QED
  BY <1>6, <1>7, <1>8, <1>9, <1>10, <1>11 DEF CatalogInv, TablesSound

\* What a call knows depends on the tables only.
LEMMA SoundOfTables ==
    ASSUME UNCHANGED tables, UNCHANGED doubled
    PROVE  \A s, c : Sound(s, c)' <=> Sound(s, c)
  BY DEF tables, Sound, Existing, Knows, NamesLookedUp, RowsLoaded, ProductsLoaded, InEffect,
         CategoriesNamed, LocationsNamed, IsThere, ProductsOf, HoldsStock, SkuIsFree

\* A step of r that writes no table keeps the invariant if r is sound where it is next.
LEMMA QuietStep ==
    ASSUME CatalogInv, NEW r \in Requests, NEW s \in PCs, NEW c \in Calls,
           UNCHANGED tables, UNCHANGED doubled, UNCHANGED unlinked,
           pc' = [pc EXCEPT ![r] = s], call' = [call EXCEPT ![r] = c],
           calls' \in 0..MaxCalls,
           Sound(s, c)
    PROVE  CatalogInv'
<1>1. TypeOK'
  BY DEF CatalogInv, TypeOK, tables
<1>2. TablesSound'
  BY DEF CatalogInv, TablesSound, Attached, SkusUnique, NamesUnique, BornCategorised, tables,
         CategoriesNamed, LocationsNamed
<1>3. ASSUME NEW q \in Requests PROVE Sound(pc[q], call[q])'
  <2>1. /\ pc'[q] = (IF q = r THEN s ELSE pc[q])
        /\ call'[q] = (IF q = r THEN c ELSE call[q])
    BY DEF CatalogInv, TypeOK
  <2>2. Sound(pc'[q], call'[q])
    BY <2>1 DEF CatalogInv
  <2> QED
    BY <2>2, SoundOfTables
<1> QED
  BY <1>1, <1>2, <1>3 DEF CatalogInv

\* A call goes on, or ends, with what it holds.
LEMMA GotoKeepsInv ==
    ASSUME CatalogInv, NEW r \in Requests, NEW s \in PCs, Goto(r, s), Sound(s, call[r])
    PROVE  CatalogInv'
<1>1. call' = [call EXCEPT ![r] = call[r]] /\ call[r] \in Calls
  BY DEF Goto, CatalogInv, TypeOK
<1>2. calls' \in 0..MaxCalls
  BY DEF Goto, CatalogInv, TypeOK
<1> QED
  BY <1>1, <1>2, QuietStep DEF Goto, tables

\* A call that has read nothing yet knows nothing that could be wrong.
LEMMA FreshIsSound ==
    ASSUME NEW c \in Calls, NEW s \in {"name", "sku", "load"},
           c.was = NoProduct, c.named = None,
           s = "load" => c.name = None /\ c.sku = None,
           Existing(c), Arguments(c), Reached(s, c)
    PROVE  Sound(s, c)
  BY DEF Sound, Knows, NamesLookedUp, RowsLoaded, ProductsLoaded

\* A call starts.
LEMMA BeginKeepsInv ==
    ASSUME CatalogInv, NEW r \in Requests, NEW c \in Calls, NEW s \in {"name", "sku", "load"},
           Begin(r, c, s), Sound(s, c)
    PROVE  CatalogInv'
<1>1. calls' \in 0..MaxCalls
  BY CatalogConstants DEF Begin, CatalogInv, TypeOK
<1> QED
  BY <1>1, QuietStep DEF Begin, PCs, Ended, tables

-----------------------------------------------------------------------------
(* Calls start *)

\* The requests about categories are well formed.
LEMMA CategoryRequests ==
    /\ \A n \in CategoryNames :
          LET d == [Request("create_category") EXCEPT !.name = n]
          IN  d \in Calls /\ Sound("name", d)
    /\ \A c \in Categories : category[c] # None =>
          LET d == [Request("delete_category") EXCEPT !.category = c]
          IN  d \in Calls /\ Sound("load", d)
    /\ \A c \in Categories, p \in Products, op \in {"add_to_category", "remove_from_category"} :
          category[c] # None /\ MayAskFor(p) =>
          LET d == [Request(op) EXCEPT !.category = c, !.product = p]
          IN  d \in Calls /\ Sound("load", d)
    /\ \A c \in Categories, k \in Skus : category[c] # None =>
          LET d == [Request("create_product") EXCEPT !.category = c, !.sku = k]
          IN  d \in Calls /\ Sound("sku", d)
<1> USE CatalogConstants DEF Ops, NameOps, CategoryOps, ProductOps, Savers, Switches, Unchecked
<1>1. ASSUME NEW n \in CategoryNames
      PROVE  LET d == [Request("create_category") EXCEPT !.name = n]
             IN  d \in Calls /\ Sound("name", d)
  <2> DEFINE d == [Request("create_category") EXCEPT !.name = n]
  <2>1. d \in Calls
    BY NoCallIsSound DEF Calls, Request
  <2>2. /\ d.op = "create_category" /\ d.name = n /\ d.sku = None /\ d.category = None
        /\ d.location = None /\ d.product = None /\ d.was = NoProduct /\ d.named = None
    BY DEF Request, NoCall
  <2> HIDE DEF d
  <2>3. Existing(d) /\ Arguments(d) /\ Reached("name", d)
    BY <2>2 DEF Existing, Arguments, Reached
  <2>4. Sound("name", d)
    BY <2>1, <2>2, <2>3, FreshIsSound
  <2> QED
    BY <2>1, <2>4 DEF d
<1>2. ASSUME NEW c \in Categories, category[c] # None
      PROVE  LET d == [Request("delete_category") EXCEPT !.category = c]
             IN  d \in Calls /\ Sound("load", d)
  <2> DEFINE d == [Request("delete_category") EXCEPT !.category = c]
  <2>1. d \in Calls
    BY NoCallIsSound DEF Calls, Request
  <2>2. /\ d.op = "delete_category" /\ d.name = None /\ d.sku = None /\ d.category = c
        /\ d.location = None /\ d.product = None /\ d.was = NoProduct /\ d.named = None
    BY DEF Request, NoCall
  <2> HIDE DEF d
  <2>3. Existing(d) /\ Arguments(d) /\ Reached("load", d)
    BY <1>2, <2>2 DEF Existing, Arguments, Reached
  <2>4. Sound("load", d)
    BY <2>1, <2>2, <2>3, FreshIsSound
  <2> QED
    BY <2>1, <2>4 DEF d
<1>3. ASSUME NEW c \in Categories, NEW p \in Products,
             NEW op \in {"add_to_category", "remove_from_category"},
             category[c] # None, MayAskFor(p)
      PROVE  LET d == [Request(op) EXCEPT !.category = c, !.product = p]
             IN  d \in Calls /\ Sound("load", d)
  <2> DEFINE d == [Request(op) EXCEPT !.category = c, !.product = p]
  <2>1. d \in Calls
    BY NoCallIsSound DEF Calls, Request
  <2>2. /\ d.op = op /\ d.name = None /\ d.sku = None /\ d.category = c
        /\ d.location = None /\ d.product = p /\ d.was = NoProduct /\ d.named = None
    BY DEF Request, NoCall
  <2> HIDE DEF d
  <2>3. Existing(d) /\ Arguments(d) /\ Reached("load", d)
    BY <1>3, <2>2 DEF Existing, Arguments, Reached, MayAskFor
  <2>4. Sound("load", d)
    BY <2>1, <2>2, <2>3, FreshIsSound
  <2> QED
    BY <2>1, <2>4 DEF d
<1>4. ASSUME NEW c \in Categories, NEW k \in Skus, category[c] # None
      PROVE  LET d == [Request("create_product") EXCEPT !.category = c, !.sku = k]
             IN  d \in Calls /\ Sound("sku", d)
  <2> DEFINE d == [Request("create_product") EXCEPT !.category = c, !.sku = k]
  <2>1. d \in Calls
    BY NoCallIsSound DEF Calls, Request
  <2>2. /\ d.op = "create_product" /\ d.name = None /\ d.sku = k /\ d.category = c
        /\ d.location = None /\ d.product = None /\ d.was = NoProduct /\ d.named = None
    BY DEF Request, NoCall
  <2> HIDE DEF d
  <2>3. Existing(d) /\ Arguments(d) /\ Reached("sku", d)
    BY <1>4, <2>2 DEF Existing, Arguments, Reached
  <2>4. Sound("sku", d)
    BY <2>1, <2>2, <2>3, FreshIsSound
  <2> QED
    BY <2>1, <2>4 DEF d
<1> QED
  BY <1>1, <1>2, <1>3, <1>4

\* The requests about products are well formed.
LEMMA ProductRequests ==
    /\ \A p \in Products, k \in Skus : product[p] # NoProduct =>
          LET d == [Request("update_product") EXCEPT !.product = p, !.sku = k]
          IN  d \in Calls /\ Sound("sku", d)
    /\ \A p \in Products, op \in Savers : product[p] # NoProduct =>
          LET d == [Request(op) EXCEPT !.product = p]
          IN  d \in Calls /\ Sound("load", d)
    /\ \A p \in Products, l \in Locations : MayAskFor(p) /\ location[l] # None =>
          LET d == [Request("initialize_stock") EXCEPT !.product = p, !.location = l]
          IN  d \in Calls /\ Sound("load", d)
<1> USE CatalogConstants DEF Ops, NameOps, CategoryOps, ProductOps, Savers, Switches, Unchecked
<1>1. ASSUME NEW p \in Products, NEW k \in Skus, product[p] # NoProduct
      PROVE  LET d == [Request("update_product") EXCEPT !.product = p, !.sku = k]
             IN  d \in Calls /\ Sound("sku", d)
  <2> DEFINE d == [Request("update_product") EXCEPT !.product = p, !.sku = k]
  <2>1. d \in Calls
    BY NoCallIsSound DEF Calls, Request
  <2>2. /\ d.op = "update_product" /\ d.name = None /\ d.sku = k /\ d.category = None
        /\ d.location = None /\ d.product = p /\ d.was = NoProduct /\ d.named = None
    BY DEF Request, NoCall
  <2> HIDE DEF d
  <2>3. Existing(d) /\ Arguments(d) /\ Reached("sku", d)
    BY <1>1, <2>2 DEF Existing, Arguments, Reached
  <2>4. Sound("sku", d)
    BY <2>1, <2>2, <2>3, FreshIsSound
  <2> QED
    BY <2>1, <2>4 DEF d
<1>2. ASSUME NEW p \in Products, NEW op \in Savers, product[p] # NoProduct
      PROVE  LET d == [Request(op) EXCEPT !.product = p]
             IN  d \in Calls /\ Sound("load", d)
  <2> DEFINE d == [Request(op) EXCEPT !.product = p]
  <2>1. d \in Calls
    BY NoCallIsSound DEF Calls, Request
  <2>2. /\ d.op = op /\ d.name = None /\ d.sku = None /\ d.category = None
        /\ d.location = None /\ d.product = p /\ d.was = NoProduct /\ d.named = None
    BY DEF Request, NoCall
  <2> HIDE DEF d
  <2>3. Existing(d) /\ Arguments(d) /\ Reached("load", d)
    BY <1>2, <2>2 DEF Existing, Arguments, Reached
  <2>4. Sound("load", d)
    BY <2>1, <2>2, <2>3, FreshIsSound
  <2> QED
    BY <2>1, <2>4 DEF d
<1>3. ASSUME NEW p \in Products, NEW l \in Locations, MayAskFor(p), location[l] # None
      PROVE  LET d == [Request("initialize_stock") EXCEPT !.product = p, !.location = l]
             IN  d \in Calls /\ Sound("load", d)
  <2> DEFINE d == [Request("initialize_stock") EXCEPT !.product = p, !.location = l]
  <2>1. d \in Calls
    BY NoCallIsSound DEF Calls, Request
  <2>2. /\ d.op = "initialize_stock" /\ d.name = None /\ d.sku = None /\ d.category = None
        /\ d.location = l /\ d.product = p /\ d.was = NoProduct /\ d.named = None
    BY DEF Request, NoCall
  <2> HIDE DEF d
  <2>3. Existing(d) /\ Arguments(d) /\ Reached("load", d)
    BY <1>3, <2>2 DEF Existing, Arguments, Reached, MayAskFor
  <2>4. Sound("load", d)
    BY <2>1, <2>2, <2>3, FreshIsSound
  <2> QED
    BY <2>1, <2>4 DEF d
<1> QED
  BY <1>1, <1>2, <1>3

\* The requests about locations are well formed.
LEMMA LocationRequests ==
    /\ \A n \in LocationNames :
          LET d == [Request("create_location") EXCEPT !.name = n]
          IN  d \in Calls /\ Sound("name", d)
    /\ \A l \in Locations, op \in {"update_location", "delete_location"} :
          location[l] # None =>
          LET d == [Request(op) EXCEPT !.location = l]
          IN  d \in Calls /\ Sound("load", d)
    /\ \A l \in Locations, n \in LocationNames :
          location[l] # None =>
          LET d == [Request("update_location") EXCEPT !.location = l, !.name = n]
          IN  d \in Calls /\ Sound("name", d)
<1> USE CatalogConstants DEF Ops, NameOps, CategoryOps, ProductOps, Savers, Switches, Unchecked
<1>1. ASSUME NEW n \in LocationNames
      PROVE  LET d == [Request("create_location") EXCEPT !.name = n]
             IN  d \in Calls /\ Sound("name", d)
  <2> DEFINE d == [Request("create_location") EXCEPT !.name = n]
  <2>1. d \in Calls
    BY NoCallIsSound DEF Calls, Request
  <2>2. /\ d.op = "create_location" /\ d.name = n /\ d.sku = None /\ d.category = None
        /\ d.location = None /\ d.product = None /\ d.was = NoProduct /\ d.named = None
    BY DEF Request, NoCall
  <2> HIDE DEF d
  <2>3. Existing(d) /\ Arguments(d) /\ Reached("name", d)
    BY <2>2 DEF Existing, Arguments, Reached
  <2>4. Sound("name", d)
    BY <2>1, <2>2, <2>3, FreshIsSound
  <2> QED
    BY <2>1, <2>4 DEF d
<1>2. ASSUME NEW l \in Locations, NEW op \in {"update_location", "delete_location"},
             location[l] # None
      PROVE  LET d == [Request(op) EXCEPT !.location = l]
             IN  d \in Calls /\ Sound("load", d)
  <2> DEFINE d == [Request(op) EXCEPT !.location = l]
  <2>1. d \in Calls
    BY NoCallIsSound DEF Calls, Request
  <2>2. /\ d.op = op /\ d.name = None /\ d.sku = None /\ d.category = None
        /\ d.location = l /\ d.product = None /\ d.was = NoProduct /\ d.named = None
    BY DEF Request, NoCall
  <2> HIDE DEF d
  <2>3. Existing(d) /\ Arguments(d) /\ Reached("load", d)
    BY <1>2, <2>2 DEF Existing, Arguments, Reached
  <2>4. Sound("load", d)
    BY <2>1, <2>2, <2>3, FreshIsSound
  <2> QED
    BY <2>1, <2>4 DEF d
<1>3. ASSUME NEW l \in Locations, NEW n \in LocationNames, location[l] # None
      PROVE  LET d == [Request("update_location") EXCEPT !.location = l, !.name = n]
             IN  d \in Calls /\ Sound("name", d)
  <2> DEFINE d == [Request("update_location") EXCEPT !.location = l, !.name = n]
  <2>1. d \in Calls
    BY NoCallIsSound DEF Calls, Request
  <2>2. /\ d.op = "update_location" /\ d.name = n /\ d.sku = None /\ d.category = None
        /\ d.location = l /\ d.product = None /\ d.was = NoProduct /\ d.named = None
    BY DEF Request, NoCall
  <2> HIDE DEF d
  <2>3. Existing(d) /\ Arguments(d) /\ Reached("name", d)
    BY <1>3, <2>2 DEF Existing, Arguments, Reached
  <2>4. Sound("name", d)
    BY <2>1, <2>2, <2>3, FreshIsSound
  <2> QED
    BY <2>1, <2>4 DEF d
<1> QED
  BY <1>1, <1>2, <1>3

\* The calls start.
LEMMA BeginningKeepsInv ==
    ASSUME CatalogInv, NEW r \in Requests,
           BeginCatalogCall(r) \/ BeginProductCall(r) \/ BeginLocationCall(r)
    PROVE  CatalogInv'
<1>1. ASSUME NEW c \in Calls, NEW s \in {"name", "sku", "load"}, Sound(s, c), Begin(r, c, s)
      PROVE  CatalogInv'
  BY <1>1, BeginKeepsInv
<1>2. CASE BeginCatalogCall(r)
  <2>1. ASSUME NEW n \in CategoryNames,
               Begin(r, [Request("create_category") EXCEPT !.name = n], "name")
        PROVE  CatalogInv'
    BY <2>1, <1>1, CategoryRequests
  <2>2. ASSUME NEW c \in Categories, category[c] # None,
               Begin(r, [Request("delete_category") EXCEPT !.category = c], "load")
        PROVE  CatalogInv'
    BY <2>2, <1>1, CategoryRequests
  <2>3. ASSUME NEW c \in Categories, category[c] # None,
               NEW p \in Products, MayAskFor(p),
               NEW op \in {"add_to_category", "remove_from_category"},
               Begin(r, [Request(op) EXCEPT !.category = c, !.product = p], "load")
        PROVE  CatalogInv'
    BY <2>3, <1>1, CategoryRequests
  <2>4. ASSUME NEW c \in Categories, category[c] # None, NEW k \in Skus,
               Begin(r, [Request("create_product") EXCEPT !.category = c, !.sku = k], "sku")
        PROVE  CatalogInv'
    BY <2>4, <1>1, CategoryRequests
  <2> QED
    BY <1>2, <2>1, <2>2, <2>3, <2>4 DEF BeginCatalogCall
<1>3. CASE BeginProductCall(r)
  <2>1. ASSUME NEW p \in Products, product[p] # NoProduct, NEW k \in Skus,
               Begin(r, [Request("update_product") EXCEPT !.product = p, !.sku = k], "sku")
        PROVE  CatalogInv'
    BY <2>1, <1>1, ProductRequests
  <2>2. ASSUME NEW p \in Products, product[p] # NoProduct, NEW op \in Savers,
               Begin(r, [Request(op) EXCEPT !.product = p], "load")
        PROVE  CatalogInv'
    BY <2>2, <1>1, ProductRequests
  <2>3. ASSUME NEW p \in Products, MayAskFor(p),
               NEW l \in Locations, location[l] # None,
               Begin(r, [Request("initialize_stock") EXCEPT !.product = p, !.location = l],
                     "load")
        PROVE  CatalogInv'
    BY <2>3, <1>1, ProductRequests
  <2> QED
    BY <1>3, <2>1, <2>2, <2>3 DEF BeginProductCall, BeginUpdate, MayAskFor, Savers, Switches
<1>4. CASE BeginLocationCall(r)
  <2>1. ASSUME NEW n \in LocationNames,
               Begin(r, [Request("create_location") EXCEPT !.name = n], "name")
        PROVE  CatalogInv'
    BY <2>1, <1>1, LocationRequests
  <2>2. ASSUME NEW l \in Locations, location[l] # None,
               NEW op \in {"update_location", "delete_location"},
               Begin(r, [Request(op) EXCEPT !.location = l], "load")
        PROVE  CatalogInv'
    BY <2>2, <1>1, LocationRequests
  <2>3. ASSUME NEW l \in Locations, location[l] # None, NEW n \in LocationNames,
               Begin(r, [Request("update_location") EXCEPT !.location = l, !.name = n], "name")
        PROVE  CatalogInv'
    BY <2>3, <1>1, LocationRequests
  <2> QED
    BY <1>4, <2>1, <2>2, <2>3 DEF BeginLocationCall
<1> QED
  BY <1>2, <1>3, <1>4

-----------------------------------------------------------------------------
(* Reads *)

\* Rows that are all one are at most one row.
LEMMA OneAtMost ==
    ASSUME NEW S, \A a, b \in S : a = b
    PROVE  Cardinality(S) <= 1 /\ ~(Cardinality(S) > 1)
<1>1. S = {} \/ \E a : S = {a}
  OBVIOUS
<1>2. Cardinality(S) \in {0, 1}
  BY <1>1, FS_EmptySet, FS_Singleton
<1> QED
  BY <1>2

\* get_by_name finds rows of the one table or of the other.
LEMMA FoundByName ==
    ASSUME CatalogInv, NEW n \in CategoryNames \cup LocationNames
    PROVE  /\ n \in CategoryNames => LocationsNamed(n) = {}
           /\ n \in LocationNames => CategoriesNamed(n) = {}
           /\ Cardinality(CategoriesNamed(n) \cup LocationsNamed(n)) > 1 => n \in doubled
<1>1. n \in CategoryNames => LocationsNamed(n) = {}
  BY CatalogConstants DEF CatalogInv, TypeOK, LocationsNamed
<1>2. n \in LocationNames => CategoriesNamed(n) = {}
  BY CatalogConstants DEF CatalogInv, TypeOK, CategoriesNamed
<1>3. ASSUME n \notin doubled
      PROVE  ~(Cardinality(CategoriesNamed(n) \cup LocationsNamed(n)) > 1)
  <2>1. \A a, b \in CategoriesNamed(n) \cup LocationsNamed(n) : a = b
    BY <1>1, <1>2, <1>3 DEF CatalogInv, TablesSound, NamesUnique
  <2> QED
    BY <2>1, OneAtMost
<1> QED
  BY <1>1, <1>2, <1>3

\* get_by_name: what an uncrossed call has looked for is not there.
LEMMA CheckNameKeepsInv ==
    ASSUME CatalogInv, NEW r \in Requests, CheckName(r)
    PROVE  CatalogInv'
<1> USE CatalogConstants
<1> DEFINE cn == CategoriesNamed(call[r].name)
           ln == LocationsNamed(call[r].name)
<1>1. PICK c \in Calls : c = call[r]
  BY DEF CatalogInv, TypeOK
<1>2. Sound("name", c) /\ calls' \in 0..MaxCalls
  BY <1>1 DEF CheckName, CatalogInv, TypeOK
<1>3. c.op \in NameOps /\ c.name \in CategoryNames \cup LocationNames
  BY <1>2 DEF Sound, Arguments, Reached, NameOps
<1>4. /\ c.op = "create_category" => LocationsNamed(c.name) = {} /\ c.location = None
      /\ c.op = "create_location" => CategoriesNamed(c.name) = {} /\ c.location = None
      /\ c.op = "update_location" =>
            CategoriesNamed(c.name) = {} /\ c.location # None /\ c.name \in LocationNames
      /\ Cardinality(CategoriesNamed(c.name) \cup LocationsNamed(c.name)) > 1
           => c.name \in doubled
  BY <1>2, <1>3, FoundByName DEF Sound, Arguments, Reached
<1>5. PICK found : found = CategoriesNamed(c.name) \cup LocationsNamed(c.name)
  OBVIOUS
<1>6. found \subseteq Categories \cup Locations
  BY <1>5 DEF CategoriesNamed, LocationsNamed
<1>7. PICK named : named = IF c.location \in found THEN c.name ELSE None
  OBVIOUS
<1>8. /\ named \in LocationNames \cup {None}
      /\ named # None => c.location \in LocationsNamed(c.name) /\ named = c.name
  BY <1>3, <1>4, <1>5, <1>6, <1>7 DEF NameOps
<1>9. PICK d : d = [c EXCEPT !.named = named]
  OBVIOUS
<1>10. /\ d \in Calls /\ d.op = c.op /\ d.name = c.name /\ d.sku = c.sku
       /\ d.category = c.category /\ d.location = c.location /\ d.product = c.product
       /\ d.loaded = c.loaded /\ d.was = c.was /\ d.crossed = c.crossed /\ d.named = named
  BY <1>8, <1>9 DEF Calls
<1>11. PICK s : s = IF Cardinality(found) > 1 THEN "error"
                    ELSE IF Taken(c, found) # {} THEN "rejected"
                    ELSE IF c.op = "update_location" THEN "load" ELSE "write"
  OBVIOUS
<1>12. pc' = [pc EXCEPT ![r] = s] /\ call' = [call EXCEPT ![r] = d]
  BY <1>1, <1>5, <1>7, <1>9, <1>11 DEF CheckName, CatalogInv, TypeOK
<1>13. Existing(d) /\ Arguments(d)
  BY <1>2, <1>10 DEF Sound, Existing, Arguments
<1>14. Reached(s, d)
  BY <1>2, <1>3, <1>10, <1>11
  DEF Sound, Reached, NameOps, Ops, CategoryOps, ProductOps, Savers, Switches
<1>15. s = "error" => d.name \in doubled
  BY <1>4, <1>5, <1>10, <1>11
<1>16. Knows(s, d)
  <2>1. CASE s \in {"error", "rejected"}
    BY <2>1 DEF Knows, NamesLookedUp, RowsLoaded, ProductsLoaded
  <2>2. CASE s = "load"
    <3>1. c.op = "update_location" /\ found \subseteq {c.location}
      BY <1>11, <2>2 DEF Taken
    <3>2. d.sku = None
      BY <1>10, <1>13, <3>1 DEF Arguments
    <3>3. LocationsNamed(d.name) \subseteq {d.location}
      BY <1>5, <1>10, <3>1
    <3>4. d.named # None => location[d.location] = d.named
      BY <1>8, <1>10 DEF LocationsNamed
    <3> QED
      BY <1>10, <2>2, <3>1, <3>2, <3>3, <3>4
      DEF Knows, NamesLookedUp, RowsLoaded, ProductsLoaded, Switches
  <2>3. CASE s = "write"
    <3>1. c.op \in {"create_category", "create_location"} /\ found \subseteq {c.location}
      BY <1>3, <1>11, <2>3 DEF Taken, NameOps
    <3>2. found = {}
      BY <1>4, <1>6, <3>1
    <3>3. c.category = None /\ c.location = None /\ d.sku = None
      BY <1>2, <1>4, <1>10, <1>13, <3>1 DEF Sound, Reached, Arguments, CategoryOps
    <3>4. CategoriesNamed(d.name) = {} /\ LocationsNamed(d.name) = {}
      BY <1>5, <1>10, <3>2
    <3> QED
      BY <1>10, <2>3, <3>1, <3>3, <3>4
      DEF Knows, NamesLookedUp, RowsLoaded, ProductsLoaded, Switches, IsThere, CategoryOps
  <2> QED
    BY <1>11, <2>1, <2>2, <2>3
<1>17. Sound(s, d) /\ s \in PCs
  BY <1>11, <1>13, <1>14, <1>15, <1>16 DEF Sound, PCs, Ended
<1> QED
  BY <1>2, <1>10, <1>12, <1>17, QuietStep DEF CheckName, tables

\* get_by_sku: no other product has the SKU that an uncrossed call has looked for.
LEMMA CheckSkuKeepsInv ==
    ASSUME CatalogInv, NEW r \in Requests, CheckSku(r)
    PROVE  CatalogInv'
<1> USE CatalogConstants
<1>1. PICK c \in Calls : c = call[r]
  BY DEF CatalogInv, TypeOK
<1>2. Sound("sku", c) /\ calls' \in 0..MaxCalls
  BY <1>1 DEF CheckSku, CatalogInv, TypeOK
<1>3. /\ c.op \in {"create_product", "update_product"} /\ c.sku # None
      /\ c.op = "create_product" => c.product = None
      /\ c.op = "update_product" => c.product \in Products /\ product[c.product] # NoProduct
      /\ c.was = NoProduct
  BY <1>2 DEF Sound, Arguments, Reached, Existing, Savers, Unchecked, Calls
<1>4. PICK found : found = {p \in Products : product[p].sku = c.sku}
  OBVIOUS
<1>5. PICK was : was = IF c.product \in found THEN product[c.product] ELSE c.was
  OBVIOUS
<1>6. was \in ProductRows /\ (was # NoProduct => was = product[c.product])
  BY <1>3, <1>4, <1>5 DEF CatalogInv, TypeOK, Calls
<1>7. PICK d : d = [c EXCEPT !.was = was]
  OBVIOUS
<1>8. /\ d \in Calls /\ d.op = c.op /\ d.name = c.name /\ d.sku = c.sku
      /\ d.category = c.category /\ d.location = c.location /\ d.product = c.product
      /\ d.loaded = c.loaded /\ d.named = c.named /\ d.crossed = c.crossed /\ d.was = was
  BY <1>6, <1>7 DEF Calls
<1>9. PICK s : s = IF found \ {c.product} # {} THEN "rejected" ELSE "load"
  OBVIOUS
<1>10. pc' = [pc EXCEPT ![r] = s] /\ call' = [call EXCEPT ![r] = d]
  BY <1>1, <1>4, <1>5, <1>7, <1>9 DEF CheckSku, CatalogInv, TypeOK
<1>11. Existing(d) /\ Arguments(d)
  BY <1>2, <1>8 DEF Sound, Existing, Arguments
<1>12. Reached(s, d)
  BY <1>2, <1>3, <1>8, <1>9
  DEF Sound, Reached, NameOps, Ops, CategoryOps, ProductOps, Savers, Switches
<1>13. Knows(s, d)
  <2>1. CASE s = "rejected"
    BY <2>1 DEF Knows, NamesLookedUp, RowsLoaded, ProductsLoaded
  <2>2. CASE s = "load"
    <3>1. SkuIsFree(d.sku, d.product)
      BY <1>4, <1>8, <1>9, <2>2 DEF SkuIsFree
    <3>2. d.was # NoProduct => product[d.product].sku = d.was.sku
      BY <1>6, <1>8
    <3> QED
      BY <1>3, <1>8, <2>2, <3>1, <3>2
      DEF Knows, NamesLookedUp, RowsLoaded, ProductsLoaded, Switches
  <2> QED
    BY <1>9, <2>1, <2>2
<1>14. Sound(s, d) /\ s \in PCs
  BY <1>9, <1>11, <1>12, <1>13 DEF Sound, PCs, Ended
<1> QED
  BY <1>2, <1>8, <1>10, <1>14, QuietStep DEF CheckSku, tables

\* What is loaded is there, and is what the tables hold.
LEMMA LoadKeepsInv ==
    ASSUME CatalogInv, NEW r \in Requests, Load(r)
    PROVE  CatalogInv'
<1> USE CatalogConstants
<1>1. PICK c \in Calls : c = call[r]
  BY DEF CatalogInv, TypeOK
<1>2. Sound("load", c) /\ calls' \in 0..MaxCalls
  BY <1>1 DEF Load, CatalogInv, TypeOK
<1>3. PICK loaded : loaded = IF c.op \in CategoryOps THEN ProductsOf(c.category) ELSE {}
  OBVIOUS
<1>4. PICK was : was = IF c.op \in ProductOps \ {"create_product"} /\ c.was = NoProduct
                       THEN product[c.product] ELSE c.was
  OBVIOUS
<1>5. PICK named : named = IF c.op = "update_location" /\ c.named = None /\ IsThere(c)
                           THEN location[c.location] ELSE c.named
  OBVIOUS
<1>6. c.op \in Savers => c.product \in Products /\ product[c.product] # NoProduct
  BY <1>2 DEF Sound, Arguments, Existing, Calls, Savers, Switches, Unchecked
<1>7. c.op = "update_location" => c.location \in Locations
  BY <1>2 DEF Sound, Arguments, Calls
<1>8. Savers = ProductOps \ {"create_product"}
  BY DEF Savers, Switches, ProductOps
<1>9. loaded \in SUBSET Products
  BY <1>3 DEF ProductsOf
<1>10. /\ was \in ProductRows
       /\ c.op \in Savers => was # NoProduct
       /\ was = c.was \/ was = product[c.product]
  BY <1>4, <1>6, <1>8 DEF CatalogInv, TypeOK, Calls
<1>11. /\ named \in LocationNames \cup {None}
       /\ named = c.named \/ named = location[c.location]
  <2>1. IsThere(c) /\ c.op = "update_location" => location[c.location] \in LocationNames
    BY <1>7 DEF IsThere, Live, CatalogInv, TypeOK
  <2> QED
    BY <1>5, <2>1 DEF Calls
<1>12. PICK d : d = [c EXCEPT !.loaded = loaded, !.was = was, !.named = named]
  OBVIOUS
<1>13. /\ d \in Calls /\ d.op = c.op /\ d.name = c.name /\ d.sku = c.sku
       /\ d.category = c.category /\ d.location = c.location /\ d.product = c.product
       /\ d.crossed = c.crossed
       /\ d.loaded = loaded /\ d.was = was /\ d.named = named
  BY <1>9, <1>10, <1>11, <1>12 DEF Calls
<1>14. PICK s : s = IF IsThere(c)
                    THEN IF c.op \in {"delete_location", "initialize_stock"} THEN "stock"
                         ELSE "write"
                    ELSE "rejected"
  OBVIOUS
<1>15. pc' = [pc EXCEPT ![r] = s] /\ call' = [call EXCEPT ![r] = d]
  <2>1. call' = [call EXCEPT ![r] = [c EXCEPT !.loaded = loaded, !.was = was, !.named = named]]
    BY <1>1, <1>3, <1>4, <1>5 DEF Load, CatalogInv, TypeOK
  <2>2. pc' = [pc EXCEPT ![r] = s]
    BY <1>1, <1>14 DEF Load
  <2> QED
    BY <1>12, <2>1, <2>2
<1>16. Existing(d) /\ Arguments(d)
  BY <1>2, <1>13 DEF Sound, Existing, Arguments
<1>17. Reached(s, d)
  BY <1>2, <1>10, <1>13, <1>14
  DEF Sound, Reached, NameOps, Ops, CategoryOps, ProductOps, Savers, Switches
<1>18. d.crossed \/ Knows(s, d)
  <2> SUFFICES ASSUME ~c.crossed PROVE Knows(s, d)
    BY <1>13
  <2>1. Knows("load", c)
    BY <1>2 DEF Sound
  <2>2. CASE s = "rejected"
    BY <2>2 DEF Knows, NamesLookedUp, RowsLoaded, ProductsLoaded
  <2>3. CASE s \in {"stock", "write"}
    <3>1. IsThere(c)
      BY <1>14, <2>3
    <3>2. NamesLookedUp(s, d)
      BY <1>2, <1>11, <1>13, <2>1, <2>3
      DEF Knows, NamesLookedUp, Sound, Reached
    <3>3. RowsLoaded(s, d)
      BY <1>3, <1>13, <1>14, <2>3, <3>1 DEF RowsLoaded, IsThere, CategoryOps
    <3>4. ProductsLoaded(s, d)
      BY <1>10, <1>13, <2>1, <2>3 DEF Knows, ProductsLoaded
    <3> QED
      BY <2>3, <3>2, <3>3, <3>4 DEF Knows
  <2> QED
    BY <1>14, <2>2, <2>3
<1>19. Sound(s, d) /\ s \in PCs
  BY <1>14, <1>16, <1>17, <1>18 DEF Sound, PCs, Ended
<1> QED
  BY <1>2, <1>13, <1>15, <1>19, QuietStep DEF Load, tables

\* location_has_stock, and the search for the stock row.
LEMMA CheckStockKeepsInv ==
    ASSUME CatalogInv, NEW r \in Requests, CheckStock(r)
    PROVE  CatalogInv'
<1> DEFINE c == call[r]
<1>1. Sound("stock", c) /\ c.op \in {"delete_location", "initialize_stock"}
  BY DEF CheckStock, CatalogInv, Sound, Reached
<1>2. PICK s \in {"rejected", "write"} :
         /\ Goto(r, s)
         /\ s = "write" => /\ c.op = "delete_location" => ~HoldsStock(c.location)
                           /\ c.op = "initialize_stock" => <<c.product, c.location>> \notin stocks
  BY DEF CheckStock
<1>3. Reached(s, c)
  BY <1>1 DEF Sound, Reached, Ops, CategoryOps, ProductOps, NameOps, Savers, Switches
<1>4. c.crossed \/ Knows(s, c)
  <2>1. c.sku = None
    BY <1>1 DEF Sound, Arguments
  <2> QED
    BY <1>1, <1>2, <2>1
    DEF Sound, Knows, NamesLookedUp, RowsLoaded, ProductsLoaded, CategoryOps, Switches
<1>5. Sound(s, c) /\ s \in PCs
  BY <1>1, <1>3, <1>4 DEF Sound, PCs, Ended
<1> QED
  BY <1>2, <1>5, GotoKeepsInv

\* refresh fails only for a row that another call has deleted.
LEMMA RefreshKeepsInv ==
    ASSUME CatalogInv, NEW r \in Requests, Refresh(r)
    PROVE  CatalogInv'
<1> DEFINE c == call[r]
<1>1. Sound("refresh", c)
  BY DEF Refresh, CatalogInv
<1>2. PICK s \in {"done", "error"} : Goto(r, s) /\ (s = "error" => ~IsThere(c))
  BY DEF Refresh
<1>3. Reached(s, c)
  BY <1>1 DEF Sound, Reached, Ops
<1>4. c.crossed \/ Knows(s, c)
  BY <1>1 DEF Sound, Knows, NamesLookedUp, RowsLoaded, ProductsLoaded
<1>5. s = "error" => c.crossed
  BY <1>1, <1>2 DEF Sound, Knows, RowsLoaded
<1>6. Sound(s, c) /\ s \in PCs
  BY <1>1, <1>3, <1>4, <1>5 DEF Sound, PCs, Ended
<1> QED
  BY <1>2, <1>6, GotoKeepsInv

-----------------------------------------------------------------------------
(* Commits, and what the other calls make of them *)

\* The tables change only where ks, the subjects of a call, says.
CommitsOnly(ks) ==
    /\ \A c \in Categories : category[c] # None => category'[c] # None
    /\ \A l \in Locations : location[l] # None => location'[l] # None
    /\ \A p \in Products : product[p] # NoProduct => product'[p] # NoProduct
    /\ \A c \in Categories \ ks :
          /\ category'[c] = category[c]
          /\ \A p \in Products : <<p, c>> \in links' <=> <<p, c>> \in links
    /\ \A l \in Locations \ ks :
          /\ location'[l] = location[l]
          /\ \A p \in Products : <<p, l>> \in stocks' <=> <<p, l>> \in stocks
    /\ \A c \in Categories : category'[c] \in {category[c], None, Gone} \cup ks
    /\ \A l \in Locations : location'[l] \in {location[l], None, Gone} \cup ks
    /\ \A p \in Products :
          /\ product'[p].sku \in {product[p].sku} \cup ks
          /\ <<p, "sku">> \notin ks /\ product[p] # NoProduct =>
                product'[p].sku = product[p].sku
          /\ <<p, "active">> \notin ks /\ product[p] # NoProduct =>
                product'[p].active = product[p].active

\* The call has what it is about among its subjects.
LEMMA SubjectsOf ==
    ASSUME NEW c
    PROVE  /\ c.name # None => c.name \in Subjects(c)
           /\ c.sku # None => c.sku \in Subjects(c)
           /\ c.category # None => c.category \in Subjects(c)
           /\ c.location # None => c.location \in Subjects(c)
           /\ c.op \in {"create_product", "update_product"} => <<c.product, "sku">> \in Subjects(c)
           /\ c.op \in Switches => <<c.product, "active">> \in Subjects(c)
  BY DEF Subjects, Switches

\* What a call knows is about its subjects: a commit about others leaves it true.
LEMMA StillKnown ==
    ASSUME NEW ks, CommitsOnly(ks), NEW s, NEW c \in Calls,
           Existing(c), Arguments(c), Reached(s, c), Knows(s, c), Subjects(c) \cap ks = {}
    PROVE  Knows(s, c)'
<1> USE CatalogConstants
<1>1. /\ c.name # None => c.name \notin ks
      /\ c.sku # None => c.sku \notin ks
      /\ c.category # None => c.category \in Categories \ ks
      /\ c.location # None => c.location \in Locations \ ks
      /\ c.op \in {"create_product", "update_product"} => <<c.product, "sku">> \notin ks
      /\ c.op \in Switches => <<c.product, "active">> \notin ks
      /\ c.product # None /\ c.op \notin Unchecked =>
            c.product \in Products /\ product[c.product] # NoProduct
      /\ c.product # None => c.product \in Products
  BY SubjectsOf DEF Calls, Existing
<1>2. NamesLookedUp(s, c)'
  <2>1. CASE c.op = "create_category"
    <3>1. c.name \in CategoryNames /\ c.name \notin ks /\ c.name \notin {None, Gone}
      BY <1>1, <2>1 DEF Arguments
    <3>2. CategoriesNamed(c.name) = {} => CategoriesNamed(c.name)' = {}
      BY <3>1 DEF CommitsOnly, CategoriesNamed
    <3> QED
      BY <2>1, <3>2 DEF Knows, NamesLookedUp
  <2>2. CASE c.op = "create_location"
    <3>1. c.name \in LocationNames /\ c.name \notin ks /\ c.name \notin {None, Gone}
      BY <1>1, <2>2 DEF Arguments
    <3>2. LocationsNamed(c.name) = {} => LocationsNamed(c.name)' = {}
      BY <3>1 DEF CommitsOnly, LocationsNamed
    <3> QED
      BY <2>2, <3>2 DEF Knows, NamesLookedUp
  <2>3. CASE c.op = "update_location"
    <3>1. c.location \in Locations \ ks
      BY <1>1, <2>3 DEF Arguments
    <3>2. ASSUME c.name # None
          PROVE  LocationsNamed(c.name)' \subseteq LocationsNamed(c.name)
      <4>1. c.name \in LocationNames /\ c.name \notin ks /\ c.name \notin {None, Gone}
        BY <1>1, <2>3, <3>2 DEF Arguments
      <4> QED
        BY <4>1 DEF CommitsOnly, LocationsNamed
    <3>3. location'[c.location] = location[c.location]
      BY <3>1 DEF CommitsOnly
    <3> QED
      BY <2>3, <3>2, <3>3 DEF Knows, NamesLookedUp
  <2> QED
    BY <2>1, <2>2, <2>3 DEF NamesLookedUp
<1>3. RowsLoaded(s, c)'
  <2>1. IsThere(c)' <=> IsThere(c)
    BY <1>1 DEF IsThere, CommitsOnly
  <2>2. c.op \in CategoryOps => ProductsOf(c.category)' = ProductsOf(c.category)
    BY <1>1 DEF Arguments, CommitsOnly, ProductsOf
  <2>3. c.op = "delete_location" => HoldsStock(c.location)' = HoldsStock(c.location)
    BY <1>1 DEF Arguments, CommitsOnly, HoldsStock
  <2>4. c.op = "initialize_stock" =>
           (<<c.product, c.location>> \in stocks' <=> <<c.product, c.location>> \in stocks)
    BY <1>1 DEF Arguments, CommitsOnly, Savers, Switches, Unchecked
  <2> QED
    BY <2>1, <2>2, <2>3, <2>4 DEF Knows, RowsLoaded
<1>4. ProductsLoaded(s, c)'
  <2>1. c.sku # None /\ SkuIsFree(c.sku, c.product) => SkuIsFree(c.sku, c.product)'
    BY <1>1 DEF SkuIsFree, CommitsOnly
  <2>2. c.op = "update_product" => product'[c.product].sku = product[c.product].sku
    BY <1>1 DEF Arguments, CommitsOnly, Savers, Switches, Unchecked
  <2>3. c.op \in Switches => product'[c.product].active = product[c.product].active
    BY <1>1 DEF Arguments, CommitsOnly, Savers, Switches, Unchecked
  <2> QED
    BY <2>1, <2>2, <2>3 DEF Knows, ProductsLoaded
<1>5. ASSUME s \in {"refresh", "done"} PROVE InEffect(c)'
  <2>1. /\ c.category # None => /\ category'[c.category] = category[c.category]
                                /\ c.product # None =>
                                     (<<c.product, c.category>> \in links'
                                        <=> <<c.product, c.category>> \in links)
        /\ c.location # None => /\ location'[c.location] = location[c.location]
                                /\ c.product # None =>
                                     (<<c.product, c.location>> \in stocks'
                                        <=> <<c.product, c.location>> \in stocks)
        /\ c.product # None /\ c.op \in {"create_product", "update_product"} =>
              product'[c.product].sku = product[c.product].sku
        /\ c.product # None /\ c.op \in Switches =>
              product'[c.product].active = product[c.product].active
    BY <1>1 DEF CommitsOnly, Switches, Unchecked
  <2>2. InEffect(c) /\ c.op \in Ops
    BY <1>5 DEF Knows, Reached
  <2>3. /\ c.op \in CategoryOps \cup {"create_category", "create_product"} => c.category # None
        /\ c.op \in Savers \cup Unchecked \cup {"create_product"} => c.product # None
        /\ c.op \in {"create_location", "update_location", "delete_location",
                     "initialize_stock"} => c.location # None
    BY <1>5 DEF Arguments, Reached
  <2> QED
    BY <2>1, <2>2, <2>3
    DEF InEffect, Ops, NameOps, CategoryOps, ProductOps, Savers, Switches, Unchecked
<1> QED
  BY <1>2, <1>3, <1>4, <1>5 DEF Knows

\* A call that another commits past is sound: it knows what it did, or it is crossed.
LEMMA OthersStaySound ==
    ASSUME NEW ks, CommitsOnly(ks), doubled \subseteq doubled',
           NEW s, NEW c \in Calls, Sound(s, c)
    PROVE  Sound(s, [c EXCEPT !.crossed = @ \/ Subjects(c) \cap ks # {}])'
<1> DEFINE d == [c EXCEPT !.crossed = @ \/ Subjects(c) \cap ks # {}]
<1>1. /\ d.op = c.op /\ d.name = c.name /\ d.sku = c.sku /\ d.category = c.category
      /\ d.location = c.location /\ d.product = c.product /\ d.loaded = c.loaded
      /\ d.was = c.was /\ d.named = c.named
  BY DEF Calls
<1>2. d.crossed = (c.crossed \/ Subjects(c) \cap ks # {})
  BY DEF Calls
<1>3. PICK e : e = d
  OBVIOUS
<1>4. /\ e.op = c.op /\ e.name = c.name /\ e.sku = c.sku /\ e.category = c.category
      /\ e.location = c.location /\ e.product = c.product /\ e.loaded = c.loaded
      /\ e.was = c.was /\ e.named = c.named
  BY <1>1, <1>3
<1>5. e.crossed <=> c.crossed \/ Subjects(c) \cap ks # {}
  BY <1>2, <1>3
<1> HIDE DEF d
<1>6. Existing(e)'
  BY <1>4 DEF Sound, Existing, CommitsOnly, Calls
<1>7. Arguments(e)
  BY <1>4 DEF Sound, Arguments
<1>8. Reached(s, e)
  BY <1>4 DEF Sound, Reached
<1>9. e.crossed \/ Knows(s, e)'
  <2>1. CASE e.crossed
    BY <2>1
  <2>2. CASE ~e.crossed
    <3>1. Knows(s, c)'
      BY <1>5, <2>2, StillKnown DEF Sound
    <3> QED
      BY <1>4, <3>1
      DEF Knows, NamesLookedUp, RowsLoaded, ProductsLoaded, InEffect, IsThere
  <2> QED
    BY <2>1, <2>2
<1>10. s = "error" => e.crossed \/ e.name \in doubled' \/ NoSuchProduct(e)
  BY <1>4, <1>5 DEF Sound, NoSuchProduct
<1>11. Sound(s, e)'
  BY <1>6, <1>7, <1>8, <1>9, <1>10 DEF Sound, Arguments, Reached, NoSuchProduct
<1> QED
  BY <1>3, <1>11 DEF d

\* What a commit has to see to for the invariant to be kept.
LEMMA CommitStep ==
    ASSUME CatalogInv, NEW r \in Requests, NEW c \in Calls, Commit(r, c),
           CommitsOnly(Subjects(c)), doubled \subseteq doubled',
           category' \in [Categories -> CategoryNames \cup {None, Gone}],
           location' \in [Locations -> LocationNames \cup {None, Gone}],
           product' \in [Products -> ProductRows],
           links' \subseteq Products \X Categories, stocks' \subseteq Products \X Locations,
           doubled' \subseteq CategoryNames \cup LocationNames, unlinked' \subseteq Products,
           TablesSound',
           Sound(IF c.op \in {"delete_category", "delete_location"} THEN "done" ELSE "refresh",
                 c)'
    PROVE  CatalogInv'
<1>1. ASSUME NEW q \in Requests
      PROVE  [call[q] EXCEPT !.crossed = @ \/ Subjects(call[q]) \cap Subjects(c) # {}] \in Calls
  BY DEF CatalogInv, TypeOK, Calls
<1>2. TypeOK'
  <2>1. pc' \in [Requests -> PCs]
    BY DEF Commit, CatalogInv, TypeOK, PCs, Ended
  <2>2. call' \in [Requests -> Calls]
    BY <1>1 DEF Commit
  <2> QED
    BY <2>1, <2>2 DEF Commit, CatalogInv, TypeOK
<1>3. ASSUME NEW q \in Requests PROVE Sound(pc[q], call[q])'
  <2>1. CASE q = r
    <3>1. call'[q] = c
          /\ pc'[q] = IF c.op \in {"delete_category", "delete_location"} THEN "done"
                                                                       ELSE "refresh"
      BY <2>1 DEF Commit, CatalogInv, TypeOK
    <3> QED
      BY <3>1
  <2>2. CASE q # r
    <3>1. /\ pc'[q] = pc[q]
          /\ call'[q] = [call[q] EXCEPT !.crossed =
                                     @ \/ Subjects(call[q]) \cap Subjects(c) # {}]
      BY <2>2 DEF Commit, CatalogInv, TypeOK
    <3>2. PICK s, d : s = pc[q] /\ d = call[q] /\ d \in Calls /\ Sound(s, d)
      BY DEF CatalogInv, TypeOK
    <3>3. PICK ks : ks = Subjects(c)
      OBVIOUS
    <3>4. Sound(s, [d EXCEPT !.crossed = @ \/ Subjects(d) \cap ks # {}])'
      BY <3>2, <3>3, OthersStaySound
    <3> QED
      BY <3>1, <3>2, <3>3, <3>4
  <2> QED
    BY <2>1, <2>2
<1> QED
  BY <1>2, <1>3 DEF CatalogInv

\* A write that the constraints refuse was overtaken, or names a product there is not:
\* what the call knows lets it through.
LEMMA FailsKeepsInv ==
    ASSUME CatalogInv, NEW r \in Requests, pc[r] = "write", Fails(r),
           call[r].crossed \/ NoSuchProduct(call[r])
    PROVE  CatalogInv'
<1>1. Sound("error", call[r])
  BY DEF CatalogInv, Sound, Reached, Knows, NamesLookedUp, RowsLoaded, ProductsLoaded
<1> QED
  BY <1>1, GotoKeepsInv DEF Fails, PCs, Ended

\* The call that writes.
LEMMA Writer ==
    ASSUME CatalogInv, NEW r \in Requests, pc[r] = "write"
    PROVE  /\ call[r] \in Calls /\ call[r].op \in Ops
           /\ Existing(call[r]) /\ Arguments(call[r]) /\ Reached("write", call[r])
           /\ call[r].crossed \/ Knows("write", call[r])
  BY DEF CatalogInv, TypeOK, Sound, Reached

\* The name of a crossed call is doubled, and no name stops being so.
LEMMA DoubledGrows ==
    ASSUME CatalogInv, NEW r \in Requests, NEW n \in CategoryNames \cup LocationNames,
           doubled' = Doubled(r, n)
    PROVE  /\ doubled \subseteq doubled' /\ doubled' \subseteq CategoryNames \cup LocationNames
           /\ call[r].crossed => n \in doubled'
  BY DEF Doubled, CatalogInv, TypeOK

-----------------------------------------------------------------------------
(* Every write keeps the invariant *)

\* create_category.
LEMMA InsertCategoryKeepsInv ==
    ASSUME CatalogInv, NEW r \in Requests, InsertCategory(r)
    PROVE  CatalogInv'
<1> USE CatalogConstants
<1>1. PICK c \in Categories :
         /\ Writes(r, "create_category") /\ category[c] = None
         /\ category' = [category EXCEPT ![c] = call[r].name]
         /\ Commit(r, [call[r] EXCEPT !.category = c])
         /\ doubled' = Doubled(r, call[r].name)
         /\ UNCHANGED <<location, product, links, stocks, unlinked>>
  BY DEF InsertCategory
<1>2. PICK b : b = call[r] /\ b \in Calls /\ Existing(b) /\ Arguments(b) /\ Reached("write", b)
               /\ (b.crossed \/ Knows("write", b)) /\ b.op = "create_category"
  BY <1>1, Writer DEF Writes
<1>3. PICK d : d = [b EXCEPT !.category = c]
  OBVIOUS
<1>4. /\ d.op = "create_category" /\ d.name = b.name /\ d.sku = None /\ d.category = c
      /\ d.location = None /\ d.product = b.product /\ d.name \in CategoryNames
  BY <1>2, <1>3 DEF Calls, Arguments
<1>5. d.crossed = b.crossed /\ d \in Calls
  BY <1>2, <1>3 DEF Calls
<1>6. TypeOK
  BY DEF CatalogInv
<1>7. /\ \A k \in Categories : category'[k] = IF k = c THEN d.name ELSE category[k]
      /\ category' \in [Categories -> CategoryNames \cup {None, Gone}]
  BY <1>1, <1>2, <1>4, <1>6 DEF TypeOK
<1>8. Live(d.name)
  BY <1>4 DEF Live
<1>9. CommitsOnly(Subjects(d))
  <2>1. c \in Subjects(d) /\ d.name \in Subjects(d)
    BY <1>4, SubjectsOf
  <2> QED
    BY <1>1, <1>7, <1>8, <2>1 DEF CommitsOnly, Live
<1>10. /\ doubled \subseteq doubled' /\ doubled' \subseteq CategoryNames \cup LocationNames
       /\ b.crossed => d.name \in doubled'
  BY <1>1, <1>2, <1>4, DoubledGrows
<1>11. Attached'
  BY <1>1, <1>7, <1>8 DEF CatalogInv, TablesSound, Attached
<1>12. NamesUnique'
  <2>1. b.crossed \/ CategoriesNamed(d.name) = {}
    BY <1>2, <1>4 DEF Knows, NamesLookedUp
  <2>2. \A n \in CategoryNames \ doubled' : \A k, m \in CategoriesNamed(n)' : k = m
    BY <1>7, <1>10, <2>1 DEF CatalogInv, TablesSound, NamesUnique, CategoriesNamed
  <2>3. \A n \in LocationNames \ doubled' : \A k, m \in LocationsNamed(n)' : k = m
    BY <1>1, <1>10 DEF CatalogInv, TablesSound, NamesUnique, LocationsNamed
  <2> QED
    BY <2>2, <2>3 DEF NamesUnique
<1>13. SkusUnique' /\ BornCategorised'
  BY <1>1 DEF CatalogInv, TablesSound, SkusUnique, BornCategorised
<1>14. Sound("refresh", d)'
  <2>1. Existing(d)' /\ IsThere(d)'
    BY <1>1, <1>2, <1>4, <1>7, <1>8 DEF Existing, IsThere, Live
  <2>2. Arguments(d) /\ Reached("refresh", d)
    BY <1>2, <1>4 DEF Arguments, Reached, Ops, NameOps, CategoryOps, Savers, Switches
  <2>3. InEffect(d)'
    BY <1>4, <1>7 DEF InEffect
  <2> QED
    BY <1>4, <2>1, <2>2, <2>3
    DEF Sound, Arguments, Reached, Knows, NamesLookedUp, RowsLoaded, ProductsLoaded
<1> QED
  <2>1. TablesSound'
    BY <1>11, <1>12, <1>13 DEF TablesSound
  <2>2. Sound(IF d.op \in {"delete_category", "delete_location"} THEN "done" ELSE "refresh", d)'
    BY <1>4, <1>14
  <2>3. Commit(r, d)
    BY <1>1, <1>2, <1>3
  <2> QED
    BY <1>1, <1>5, <1>6, <1>7, <1>9, <1>10, <2>1, <2>2, <2>3, CommitStep DEF TypeOK

\* create_location.
LEMMA InsertLocationKeepsInv ==
    ASSUME CatalogInv, NEW r \in Requests, InsertLocation(r)
    PROVE  CatalogInv'
<1> USE CatalogConstants
<1>1. PICK l \in Locations :
         /\ Writes(r, "create_location") /\ location[l] = None
         /\ location' = [location EXCEPT ![l] = call[r].name]
         /\ Commit(r, [call[r] EXCEPT !.location = l])
         /\ doubled' = Doubled(r, call[r].name)
         /\ UNCHANGED <<category, product, links, stocks, unlinked>>
  BY DEF InsertLocation
<1>2. PICK b : b = call[r] /\ b \in Calls /\ Existing(b) /\ Arguments(b) /\ Reached("write", b)
               /\ (b.crossed \/ Knows("write", b)) /\ b.op = "create_location"
  BY <1>1, Writer DEF Writes
<1>3. PICK d : d = [b EXCEPT !.location = l]
  OBVIOUS
<1>4. /\ d.op = "create_location" /\ d.name = b.name /\ d.sku = None /\ d.location = l
      /\ d.category = None /\ d.product = b.product /\ d.name \in LocationNames
  BY <1>2, <1>3 DEF Calls, Arguments, CategoryOps
<1>5. d.crossed = b.crossed /\ d \in Calls
  BY <1>2, <1>3 DEF Calls
<1>6. TypeOK
  BY DEF CatalogInv
<1>7. /\ \A k \in Locations : location'[k] = IF k = l THEN d.name ELSE location[k]
      /\ location' \in [Locations -> LocationNames \cup {None, Gone}]
  BY <1>1, <1>2, <1>4, <1>6 DEF TypeOK
<1>8. Live(d.name)
  BY <1>4 DEF Live
<1>9. CommitsOnly(Subjects(d))
  <2>1. l \in Subjects(d) /\ d.name \in Subjects(d)
    BY <1>4, SubjectsOf
  <2> QED
    BY <1>1, <1>7, <1>8, <2>1 DEF CommitsOnly, Live
<1>10. /\ doubled \subseteq doubled' /\ doubled' \subseteq CategoryNames \cup LocationNames
       /\ b.crossed => d.name \in doubled'
  BY <1>1, <1>2, <1>4, DoubledGrows
<1>11. Attached'
  BY <1>1, <1>7, <1>8 DEF CatalogInv, TablesSound, Attached
<1>12. NamesUnique'
  <2>1. b.crossed \/ LocationsNamed(d.name) = {}
    BY <1>2, <1>4 DEF Knows, NamesLookedUp
  <2>2. \A n \in LocationNames \ doubled' : \A k, m \in LocationsNamed(n)' : k = m
    BY <1>7, <1>10, <2>1 DEF CatalogInv, TablesSound, NamesUnique, LocationsNamed
  <2>3. \A n \in CategoryNames \ doubled' : \A k, m \in CategoriesNamed(n)' : k = m
    BY <1>1, <1>10 DEF CatalogInv, TablesSound, NamesUnique, CategoriesNamed
  <2> QED
    BY <2>2, <2>3 DEF NamesUnique
<1>13. SkusUnique' /\ BornCategorised'
  BY <1>1 DEF CatalogInv, TablesSound, SkusUnique, BornCategorised
<1>14. Sound("refresh", d)'
  <2>1. Existing(d)' /\ IsThere(d)'
    BY <1>1, <1>2, <1>4, <1>7, <1>8 DEF Existing, IsThere, Live
  <2>2. Arguments(d) /\ Reached("refresh", d)
    BY <1>2, <1>4 DEF Arguments, Reached, Ops, NameOps, CategoryOps, Savers, Switches
  <2>3. InEffect(d)'
    BY <1>4, <1>7 DEF InEffect
  <2> QED
    BY <1>4, <2>1, <2>2, <2>3
    DEF Sound, Arguments, Reached, Knows, NamesLookedUp, RowsLoaded, ProductsLoaded
<1> QED
  <2>1. TablesSound'
    BY <1>11, <1>12, <1>13 DEF TablesSound
  <2>2. Sound(IF d.op \in {"delete_category", "delete_location"} THEN "done" ELSE "refresh", d)'
    BY <1>4, <1>14
  <2>3. Commit(r, d)
    BY <1>1, <1>2, <1>3
  <2> QED
    BY <1>1, <1>5, <1>6, <1>7, <1>9, <1>10, <2>1, <2>2, <2>3, CommitStep DEF TypeOK

\* update_location: an uncrossed call still finds the row it has loaded, and nobody else
\* under the new name.
LEMMA SaveLocationKeepsInv ==
    ASSUME CatalogInv, NEW r \in Requests, SaveLocation(r)
    PROVE  CatalogInv'
<1> USE CatalogConstants
<1>1. PICK d : d = call[r] /\ d \in Calls /\ Existing(d) /\ Arguments(d) /\ Reached("write", d)
               /\ (d.crossed \/ Knows("write", d)) /\ d.op = "update_location"
  BY Writer DEF SaveLocation, Writes
<1>2. PICK l, n : l = d.location /\ n = d.name
  OBVIOUS
<1>3. l \in Locations /\ n \in LocationNames \cup {None}
  BY <1>1, <1>2 DEF Calls, Arguments
<1>4. TypeOK
  BY DEF CatalogInv
<1>5. CASE ~Live(location[l])
  <2>1. pc[r] = "write" /\ call[r].crossed /\ Fails(r)
    BY <1>1, <1>2, <1>3, <1>5 DEF SaveLocation, Writes, Knows, RowsLoaded, IsThere
  <2> QED
    BY <2>1, FailsKeepsInv
<1>6. CASE Live(location[l])
  <2>1. /\ location' = IF n \in {None, d.named} THEN location ELSE [location EXCEPT ![l] = n]
        /\ Commit(r, d)
        /\ doubled' = IF n = None THEN doubled ELSE Doubled(r, n)
        /\ UNCHANGED <<category, product, links, stocks, unlinked>>
    BY <1>1, <1>2, <1>6 DEF SaveLocation
  <2>2. /\ \A k \in Locations :
              location'[k] = IF k = l /\ n \notin {None, d.named} THEN n ELSE location[k]
        /\ location' \in [Locations -> LocationNames \cup {None, Gone}]
    BY <1>3, <1>4, <2>1 DEF TypeOK
  <2>3. n # None => Live(n)
    BY <1>3 DEF Live
  <2>4. l \in Subjects(d) /\ (n # None => n \in Subjects(d))
    BY <1>2, <1>3, SubjectsOf
  <2>5. CommitsOnly(Subjects(d))
    BY <2>1, <2>2, <2>3, <2>4 DEF CommitsOnly, Live
  <2>6. /\ doubled \subseteq doubled' /\ doubled' \subseteq CategoryNames \cup LocationNames
        /\ d.crossed /\ n # None => n \in doubled'
    <3>1. CASE n = None
      BY <1>4, <2>1, <3>1 DEF TypeOK
    <3>2. CASE n # None
      BY <1>1, <1>3, <2>1, <3>2, DoubledGrows
    <3> QED
      BY <3>1, <3>2
  <2>7. Attached'
    BY <1>6, <2>1, <2>2, <2>3 DEF CatalogInv, TablesSound, Attached
  <2>8. NamesUnique'
    <3>1. n # None => d.crossed \/ LocationsNamed(n) \subseteq {l}
      BY <1>1, <1>2 DEF Knows, NamesLookedUp
    <3>2. \A m \in LocationNames \ doubled' : \A k, j \in LocationsNamed(m)' : k = j
      BY <2>2, <2>6, <3>1 DEF CatalogInv, TablesSound, NamesUnique, LocationsNamed
    <3>3. \A m \in CategoryNames \ doubled' : \A k, j \in CategoriesNamed(m)' : k = j
      BY <2>1, <2>6 DEF CatalogInv, TablesSound, NamesUnique, CategoriesNamed
    <3> QED
      BY <3>2, <3>3 DEF NamesUnique
  <2>9. SkusUnique' /\ BornCategorised'
    BY <2>1 DEF CatalogInv, TablesSound, SkusUnique, BornCategorised
  <2>10. Sound("refresh", d)'
    <3>1. d.category = None
      BY <1>1 DEF Arguments, CategoryOps
    <3>2. Existing(d)' /\ IsThere(d)'
      BY <1>1, <1>2, <1>3, <1>6, <2>1, <2>2, <2>3, <3>1 DEF Existing, IsThere, Live
    <3>3. Reached("refresh", d)
      BY <1>1 DEF Reached, Ops, NameOps
    <3>4. d.crossed \/ InEffect(d)'
      <4>1. d.crossed \/ (n # None /\ n = d.named => location[l] = n)
        BY <1>1, <1>2 DEF Knows, NamesLookedUp
      <4> QED
        BY <1>1, <1>2, <1>3, <2>2, <4>1 DEF InEffect
    <3> QED
      BY <1>1, <3>2, <3>3, <3>4
      DEF Sound, Arguments, Reached, Knows, NamesLookedUp, RowsLoaded, ProductsLoaded
  <2>11. TablesSound'
    BY <2>7, <2>8, <2>9 DEF TablesSound
  <2>12. Sound(IF d.op \in {"delete_category", "delete_location"} THEN "done" ELSE "refresh",
               d)'
    BY <1>1, <2>10
  <2> QED
    BY <1>1, <1>4, <2>1, <2>2, <2>5, <2>6, <2>11, <2>12, CommitStep DEF TypeOK
<1> QED
  BY <1>5, <1>6

\* delete_location: an uncrossed call finds no stock there, as when it looked.
LEMMA DeleteLocationKeepsInv ==
    ASSUME CatalogInv, NEW r \in Requests, DeleteLocation(r)
    PROVE  CatalogInv'
<1> USE CatalogConstants
<1>1. PICK d : d = call[r] /\ d \in Calls /\ Existing(d) /\ Arguments(d) /\ Reached("write", d)
               /\ (d.crossed \/ Knows("write", d)) /\ d.op = "delete_location"
  BY Writer DEF DeleteLocation, Writes
<1>2. PICK l : l = d.location
  OBVIOUS
<1>3. l \in Locations /\ d.category = None
  BY <1>1, <1>2 DEF Calls, Arguments, CategoryOps
<1>4. TypeOK
  BY DEF CatalogInv
<1>5. CASE \E p \in Products : <<p, l>> \in stocks
  <2>1. pc[r] = "write" /\ call[r].crossed /\ Fails(r)
    BY <1>1, <1>2, <1>5 DEF DeleteLocation, Writes, Knows, RowsLoaded, HoldsStock
  <2> QED
    BY <2>1, FailsKeepsInv
<1>6. CASE ~\E p \in Products : <<p, l>> \in stocks
  <2>1. /\ location' = [location EXCEPT ![l] = Gone]
        /\ Commit(r, d)
        /\ UNCHANGED <<category, product, links, stocks, doubled, unlinked>>
    BY <1>1, <1>2, <1>6 DEF DeleteLocation
  <2>2. /\ \A k \in Locations : location'[k] = IF k = l THEN Gone ELSE location[k]
        /\ location' \in [Locations -> LocationNames \cup {None, Gone}]
    BY <1>3, <1>4, <2>1 DEF TypeOK
  <2>3. l \in Subjects(d)
    BY <1>2, <1>3, SubjectsOf
  <2>4. CommitsOnly(Subjects(d))
    BY <2>1, <2>2, <2>3 DEF CommitsOnly
  <2>5. Attached'
    BY <1>6, <2>1, <2>2 DEF CatalogInv, TablesSound, Attached
  <2>6. NamesUnique'
    BY <2>1, <2>2
    DEF CatalogInv, TablesSound, NamesUnique, LocationsNamed, CategoriesNamed
  <2>7. SkusUnique' /\ BornCategorised'
    BY <2>1 DEF CatalogInv, TablesSound, SkusUnique, BornCategorised
  <2>8. Sound("done", d)'
    <3>1. Existing(d)'
      BY <1>1, <1>2, <1>3, <2>1, <2>2 DEF Existing
    <3>2. Reached("done", d)
      BY <1>1 DEF Reached, Ops
    <3>3. InEffect(d)'
      BY <1>1, <1>2, <1>3, <2>2 DEF InEffect
    <3> QED
      BY <1>1, <3>1, <3>2, <3>3
      DEF Sound, Arguments, Reached, Knows, NamesLookedUp, RowsLoaded, ProductsLoaded
  <2>9. TablesSound'
    BY <2>5, <2>6, <2>7 DEF TablesSound
  <2> QED
    BY <1>1, <1>4, <2>1, <2>2, <2>4, <2>8, <2>9, CommitStep DEF TypeOK
<1> QED
  BY <1>5, <1>6

\* initialize_stock: an uncrossed call finds the location, and no row yet, as when it looked.
LEMMA InsertStockKeepsInv ==
    ASSUME CatalogInv, NEW r \in Requests, InsertStock(r)
    PROVE  CatalogInv'
<1> USE CatalogConstants
<1>1. PICK d : d = call[r] /\ d \in Calls /\ Existing(d) /\ Arguments(d) /\ Reached("write", d)
               /\ (d.crossed \/ Knows("write", d)) /\ d.op = "initialize_stock"
  BY Writer DEF InsertStock, Writes
<1>2. PICK p, l : p = d.product /\ l = d.location
  OBVIOUS
<1>3. /\ p \in Products /\ l \in Locations /\ d.category = None
      /\ product[p] # NoProduct \/ NoSuchProduct(d)
  BY <1>1, <1>2 DEF Calls, Arguments, CategoryOps, Unchecked, Existing, NoSuchProduct
<1>4. TypeOK
  BY DEF CatalogInv
<1>5. CASE ~MayStock(p, l)
  <2>1. pc[r] = "write" /\ Fails(r)
    BY <1>1, <1>2, <1>5 DEF InsertStock, Writes
  <2>2. d.crossed \/ NoSuchProduct(d)
    BY <1>1, <1>2, <1>3, <1>5 DEF Knows, RowsLoaded, IsThere, MayStock
  <2> QED
    BY <1>1, <2>1, <2>2, FailsKeepsInv
<1>6. CASE MayStock(p, l)
  <2>1. /\ stocks' = stocks \cup {<<p, l>>}
        /\ Commit(r, d)
        /\ UNCHANGED <<category, location, product, links, doubled, unlinked>>
    BY <1>1, <1>2, <1>6 DEF InsertStock
  <2>2. l \in Subjects(d) /\ Live(location[l]) /\ product[p] # NoProduct
    BY <1>2, <1>3, <1>6, SubjectsOf DEF MayStock
  <2>3. CommitsOnly(Subjects(d))
    BY <2>1, <2>2 DEF CommitsOnly
  <2>4. Attached'
    BY <1>3, <2>1, <2>2 DEF CatalogInv, TablesSound, Attached
  <2>5. NamesUnique' /\ SkusUnique' /\ BornCategorised'
    BY <2>1
    DEF CatalogInv, TablesSound, NamesUnique, LocationsNamed, CategoriesNamed, SkusUnique,
        BornCategorised
  <2>6. Sound("refresh", d)'
    <3>1. Existing(d)' /\ IsThere(d)'
      BY <1>1, <1>2, <1>3, <2>1, <2>2 DEF Existing, IsThere
    <3>2. Reached("refresh", d)
      BY <1>1 DEF Reached, Ops
    <3>3. InEffect(d)'
      BY <1>1, <1>2, <2>1 DEF InEffect
    <3> QED
      BY <1>1, <3>1, <3>2, <3>3
      DEF Sound, Arguments, Reached, Knows, NamesLookedUp, RowsLoaded, ProductsLoaded
  <2>7. TablesSound'
    BY <2>4, <2>5 DEF TablesSound
  <2>8. stocks' \subseteq Products \X Locations
    BY <1>3, <1>4, <2>1 DEF TypeOK
  <2> QED
    BY <1>1, <1>4, <2>1, <2>3, <2>6, <2>7, <2>8, CommitStep DEF TypeOK
<1> QED
  BY <1>5, <1>6

\* create_product: an uncrossed call finds its SKU free and its category, as when it looked.
LEMMA InsertProductKeepsInv ==
    ASSUME CatalogInv, NEW r \in Requests, InsertProduct(r)
    PROVE  CatalogInv'
<1> USE CatalogConstants
<1>1. PICK b : b = call[r] /\ b \in Calls /\ Existing(b) /\ Arguments(b) /\ Reached("write", b)
               /\ (b.crossed \/ Knows("write", b)) /\ b.op = "create_product"
  BY Writer DEF InsertProduct, Writes
<1>2. PICK c, k : c = b.category /\ k = b.sku
  OBVIOUS
<1>3. c \in Categories /\ category[c] # None /\ k \in Skus /\ b.location = None
      /\ b.product = None /\ b.name = None
  BY <1>1, <1>2 DEF Calls, Arguments, Existing, Reached, NameOps
<1>4. TypeOK
  BY DEF CatalogInv
<1>5. CASE ~(SkuIsFree(k, None) /\ MayLink(c))
  <2>1. pc[r] = "write" /\ Fails(r)
    BY <1>1, <1>2, <1>5 DEF InsertProduct, Writes
  <2>2. b.crossed
    BY <1>1, <1>2, <1>3, <1>5 DEF Knows, RowsLoaded, ProductsLoaded, IsThere, MayLink
  <2> QED
    BY <1>1, <2>1, <2>2, FailsKeepsInv
<1>6. CASE SkuIsFree(k, None) /\ MayLink(c)
  <2>1. PICK p \in Products :
           /\ product[p] = NoProduct
           /\ product' = [product EXCEPT ![p] = [sku |-> k, active |-> TRUE]]
           /\ links' = links \cup {<<p, c>>}
           /\ Commit(r, [b EXCEPT !.product = p])
           /\ UNCHANGED <<category, location, stocks, doubled, unlinked>>
    BY <1>1, <1>2, <1>6 DEF InsertProduct, MayLink
  <2>2. PICK d : d = [b EXCEPT !.product = p]
    OBVIOUS
  <2>3. /\ d.op = "create_product" /\ d.name = None /\ d.sku = k /\ d.category = c
        /\ d.location = None /\ d.product = p
    BY <1>1, <1>2, <1>3, <2>2 DEF Calls
  <2>4. d.crossed = b.crossed /\ d \in Calls
    BY <1>1, <2>2 DEF Calls
  <2>5. PICK row : row = [sku |-> k, active |-> TRUE] /\ row \in ProductRows /\ row.sku = k
                   /\ row # NoProduct
    <3> DEFINE new == [sku |-> k, active |-> TRUE]
    <3>1. new \in ProductRows
      BY <1>3 DEF ProductRows
    <3>2. new.sku = k /\ new # NoProduct
      BY <1>3 DEF NoProduct
    <3> QED
      BY <3>1, <3>2
  <2>6. /\ \A q \in Products : product'[q] = IF q = p THEN row ELSE product[q]
        /\ product' \in [Products -> ProductRows]
    BY <1>4, <2>1, <2>5 DEF TypeOK
  <2>7. Live(category[c]) /\ k # None /\ \A q \in Products : product[q].sku # k
    BY <1>3, <1>6 DEF MayLink, SkuIsFree
  <2>8. c \in Subjects(d) /\ k \in Subjects(d)
    BY <1>3, <2>3, SubjectsOf
  <2>9. CommitsOnly(Subjects(d))
    BY <2>1, <2>5, <2>6, <2>8 DEF CommitsOnly
  <2>10. Attached'
    BY <1>3, <2>1, <2>5, <2>6, <2>7 DEF CatalogInv, TablesSound, Attached
  <2>11. SkusUnique'
    BY <2>5, <2>6, <2>7 DEF CatalogInv, TablesSound, SkusUnique
  <2>12. BornCategorised'
    BY <1>3, <2>1, <2>6 DEF CatalogInv, TablesSound, BornCategorised
  <2>13. NamesUnique'
    BY <2>1 DEF CatalogInv, TablesSound, NamesUnique, LocationsNamed, CategoriesNamed
  <2>14. Sound("refresh", d)'
    <3>1. Existing(d)' /\ IsThere(d)'
      BY <1>3, <2>1, <2>3, <2>5, <2>6, <2>7 DEF Existing, IsThere
    <3>2. Arguments(d) /\ Reached("refresh", d)
      BY <1>3, <2>3 DEF Arguments, Reached, Ops, NameOps, CategoryOps, ProductOps, Savers, Switches
    <3>3. InEffect(d)'
      BY <2>1, <2>3, <2>5, <2>6 DEF InEffect
    <3> QED
      BY <2>3, <3>1, <3>2, <3>3
      DEF Sound, Arguments, Reached, Knows, NamesLookedUp, RowsLoaded, ProductsLoaded
  <2>15. TablesSound'
    BY <2>10, <2>11, <2>12, <2>13 DEF TablesSound
  <2>16. Commit(r, d)
    BY <2>1, <2>2
  <2>17. links' \subseteq Products \X Categories
    BY <1>3, <1>4, <2>1 DEF TypeOK
  <2>18. Sound(IF d.op \in {"delete_category", "delete_location"} THEN "done" ELSE "refresh",
               d)'
    BY <2>3, <2>14
  <2> QED
    BY <1>4, <2>1, <2>4, <2>6, <2>9, <2>15, <2>16, <2>17, <2>18, CommitStep DEF TypeOK
<1> QED
  BY <1>5, <1>6

\* What update_product and the switches assign, column by column.
LEMMA WhatIsAssigned ==
    ASSUME NEW c \in Calls, c.op \in Savers
    PROVE  /\ Assigned(c).sku = IF c.op = "update_product" /\ c.sku # None THEN c.sku
                                ELSE c.was.sku
           /\ Assigned(c).active = CASE c.op = "activate_product" -> TRUE
                                     [] c.op = "deactivate_product" -> FALSE
                                     [] c.op = "update_product" -> c.was.active
  BY DEF Assigned, Calls, ProductRows, NoProduct, Savers, Switches

\* update_product and the switches: the column that is not assigned stays as it is now.
LEMMA SaveProductKeepsInv ==
    ASSUME CatalogInv, NEW r \in Requests, SaveProduct(r)
    PROVE  CatalogInv'
<1> USE CatalogConstants
<1>1. pc[r] = "write" /\ call[r].op \in Savers
  BY DEF SaveProduct, ProductOps, Savers, Switches
<1>2. PICK d : d = call[r] /\ d \in Calls /\ Existing(d) /\ Arguments(d) /\ Reached("write", d)
               /\ (d.crossed \/ Knows("write", d)) /\ d.op \in Savers
  BY <1>1, Writer
<1>3. PICK p, now : p = d.product /\ now = product[p]
  OBVIOUS
<1>4. /\ p \in Products /\ now # NoProduct /\ d.location = None /\ d.category = None
      /\ d.name = None /\ d.was # NoProduct
  BY <1>2, <1>3
  DEF Calls, Arguments, Existing, Reached, NameOps, CategoryOps, Savers, Switches, Unchecked
<1>5. TypeOK
  BY DEF CatalogInv
<1>6. now \in [sku: Skus, active: BOOLEAN] /\ d.was \in [sku: Skus, active: BOOLEAN]
      /\ d.sku \in Skus \cup {None}
  BY <1>2, <1>3, <1>4, <1>5 DEF TypeOK, ProductRows, Calls
<1>7. PICK row : row = [sku    |-> Column(Assigned(d).sku, d.was.sku, now.sku),
                        active |-> Column(Assigned(d).active, d.was.active, now.active)]
  OBVIOUS
<1>8. row.sku = IF d.op = "update_product" /\ d.sku \notin {None, d.was.sku} THEN d.sku
                ELSE now.sku
  BY <1>2, <1>7, WhatIsAssigned DEF Column
<1>9. row.active = CASE d.op = "activate_product" -> (IF d.was.active THEN now.active ELSE TRUE)
                     [] d.op = "deactivate_product" -> (IF d.was.active THEN FALSE
                                                        ELSE now.active)
                     [] d.op = "update_product" -> now.active
  BY <1>2, <1>6, <1>7, WhatIsAssigned DEF Column, Savers, Switches
<1>10. row \in [sku: Skus, active: BOOLEAN]
  <2>1. row.sku \in Skus
    BY <1>6, <1>8
  <2>2. row.active \in BOOLEAN
    BY <1>2, <1>6, <1>9 DEF Savers, Switches
  <2> QED
    BY <1>7, <2>1, <2>2
<1>11. CASE ~SkuIsFree(row.sku, p)
  <2>1. Fails(r)
    BY <1>2, <1>3, <1>7, <1>11 DEF SaveProduct
  <2>2. d.crossed
    <3>1. SkuIsFree(now.sku, p)
      BY <1>3, <1>4 DEF CatalogInv, TablesSound, SkusUnique, SkuIsFree
    <3>2. d.op = "update_product" /\ d.sku # None /\ row.sku = d.sku
      BY <1>8, <1>11, <3>1
    <3> QED
      BY <1>2, <1>3, <1>11, <3>2 DEF Knows, ProductsLoaded
  <2> QED
    BY <1>1, <1>2, <2>1, <2>2, FailsKeepsInv
<1>12. CASE SkuIsFree(row.sku, p)
  <2>1. /\ product' = [product EXCEPT ![p] = row]
        /\ Commit(r, d)
        /\ UNCHANGED <<category, location, links, stocks, doubled, unlinked>>
    BY <1>2, <1>3, <1>7, <1>12 DEF SaveProduct
  <2>2. row \in ProductRows /\ row # NoProduct
    BY <1>10 DEF ProductRows, NoProduct
  <2>3. /\ \A q \in Products : product'[q] = IF q = p THEN row ELSE product[q]
        /\ product' \in [Products -> ProductRows]
    BY <1>5, <2>1, <2>2 DEF TypeOK
  <2>4. /\ d.sku # None => d.sku \in Subjects(d)
        /\ d.op = "update_product" => <<p, "sku">> \in Subjects(d)
        /\ d.op \in Switches => <<p, "active">> \in Subjects(d)
    BY <1>3, SubjectsOf
  <2>5. CommitsOnly(Subjects(d))
    <3>1. row.sku \in {now.sku} \cup Subjects(d)
      BY <1>8, <2>4
    <3>2. <<p, "sku">> \notin Subjects(d) => row.sku = now.sku
      BY <1>8, <2>4
    <3>3. <<p, "active">> \notin Subjects(d) => row.active = now.active
      BY <1>2, <1>9, <2>4 DEF Savers, Switches
    <3> QED
      BY <1>3, <2>1, <2>2, <2>3, <3>1, <3>2, <3>3 DEF CommitsOnly
  <2>6. Attached'
    BY <2>1, <2>2, <2>3 DEF CatalogInv, TablesSound, Attached
  <2>7. SkusUnique'
    BY <1>12, <2>2, <2>3 DEF CatalogInv, TablesSound, SkusUnique, SkuIsFree
  <2>8. BornCategorised'
    BY <1>3, <1>4, <2>1, <2>3 DEF CatalogInv, TablesSound, BornCategorised
  <2>9. NamesUnique'
    BY <2>1 DEF CatalogInv, TablesSound, NamesUnique, LocationsNamed, CategoriesNamed
  <2>10. Sound("refresh", d)'
    <3>1. Existing(d)' /\ IsThere(d)'
      BY <1>3, <1>4, <2>2, <2>3 DEF Existing, IsThere
    <3>2. Reached("refresh", d)
      BY <1>2 DEF Reached, Ops, ProductOps, Savers, Switches
    <3>3. d.crossed \/ InEffect(d)'
      <4>1. ASSUME ~d.crossed
            PROVE  /\ d.op = "update_product" => now.sku = d.was.sku
                   /\ d.op \in Switches => now.active = d.was.active
        BY <1>2, <1>3, <1>4, <4>1 DEF Knows, ProductsLoaded
      <4>2. CASE d.op = "update_product"
        BY <1>3, <1>4, <1>8, <2>3, <4>1, <4>2 DEF InEffect
      <4>3. CASE d.op = "activate_product"
        BY <1>3, <1>4, <1>6, <1>9, <2>3, <4>1, <4>3 DEF InEffect, Switches
      <4>4. CASE d.op = "deactivate_product"
        BY <1>3, <1>4, <1>6, <1>9, <2>3, <4>1, <4>4 DEF InEffect, Switches
      <4> QED
        BY <1>2, <4>2, <4>3, <4>4 DEF Savers, Switches
    <3> QED
      BY <1>2, <3>1, <3>2, <3>3
      DEF Sound, Arguments, Reached, Knows, NamesLookedUp, RowsLoaded, ProductsLoaded,
          CategoryOps, Savers, Switches
  <2>11. TablesSound'
    BY <2>6, <2>7, <2>8, <2>9 DEF TablesSound
  <2>12. Sound(IF d.op \in {"delete_category", "delete_location"} THEN "done" ELSE "refresh",
               d)'
    BY <1>2, <2>10 DEF Savers, Switches
  <2> QED
    BY <1>2, <1>5, <2>1, <2>3, <2>5, <2>11, <2>12, CommitStep DEF TypeOK
<1> QED
  BY <1>11, <1>12

\* add_product_to_category: the link an uncrossed call has not seen is not there.
LEMMA AddToCategoryKeepsInv ==
    ASSUME CatalogInv, NEW r \in Requests, AddToCategory(r)
    PROVE  CatalogInv'
<1> USE CatalogConstants
<1>1. PICK d : d = call[r] /\ d \in Calls /\ Existing(d) /\ Arguments(d) /\ Reached("write", d)
               /\ (d.crossed \/ Knows("write", d)) /\ d.op = "add_to_category"
  BY Writer DEF AddToCategory, Writes
<1>2. PICK p, c : p = d.product /\ c = d.category
  OBVIOUS
<1>3. /\ p \in Products /\ c \in Categories /\ d.location = None
      /\ d.name = None /\ d.sku = None
      /\ product[p] # NoProduct \/ NoSuchProduct(d)
  BY <1>1, <1>2 DEF Calls, Arguments, Existing, NameOps, CategoryOps, Unchecked, NoSuchProduct
<1>4. TypeOK
  BY DEF CatalogInv
<1>5. d.crossed \/ (d.loaded = ProductsOf(c) /\ Live(category[c]))
  BY <1>1, <1>2, <1>3 DEF Knows, RowsLoaded, IsThere, CategoryOps
<1>6. CASE p \in d.loaded
  <2>1. Goto(r, "done")
    BY <1>1, <1>2, <1>6 DEF AddToCategory
  <2>2. d.crossed \/ InEffect(d)
    BY <1>1, <1>2, <1>5, <1>6 DEF InEffect, ProductsOf
  <2>3. Sound("done", d)
    BY <1>1, <2>2
    DEF Sound, Reached, Ops, CategoryOps, Knows, NamesLookedUp, RowsLoaded, ProductsLoaded
  <2> QED
    BY <1>1, <2>1, <2>3, GotoKeepsInv DEF PCs, Ended
<1> DEFINE refused == product[p] = NoProduct \/ ~MayLink(c) \/ <<p, c>> \in links
<1>7. CASE p \notin d.loaded /\ refused
  <2>1. pc[r] = "write" /\ Fails(r)
    BY <1>1, <1>2, <1>7 DEF AddToCategory, Writes
  <2>2. d.crossed \/ NoSuchProduct(d)
    BY <1>3, <1>5, <1>7 DEF MayLink, ProductsOf
  <2> QED
    BY <1>1, <2>1, <2>2, FailsKeepsInv
<1>8. CASE p \notin d.loaded /\ ~refused
  <2>1. /\ links' = links \cup {<<p, c>>}
        /\ Commit(r, d)
        /\ UNCHANGED <<category, location, product, stocks, doubled, unlinked>>
    BY <1>1, <1>2, <1>8 DEF AddToCategory
  <2>2. c \in Subjects(d) /\ Live(category[c]) /\ product[p] # NoProduct
    BY <1>2, <1>3, <1>8, SubjectsOf DEF MayLink
  <2>3. CommitsOnly(Subjects(d))
    BY <2>1, <2>2 DEF CommitsOnly
  <2>4. Attached'
    BY <1>3, <2>1, <2>2 DEF CatalogInv, TablesSound, Attached
  <2>5. BornCategorised'
    BY <2>1 DEF CatalogInv, TablesSound, BornCategorised
  <2>6. NamesUnique' /\ SkusUnique'
    BY <2>1
    DEF CatalogInv, TablesSound, NamesUnique, LocationsNamed, CategoriesNamed, SkusUnique
  <2>7. Sound("refresh", d)'
    <3>1. Existing(d)' /\ IsThere(d)'
      BY <1>1, <1>2, <1>3, <2>1, <2>2 DEF Existing, IsThere
    <3>2. Reached("refresh", d)
      BY <1>1 DEF Reached, Ops, CategoryOps
    <3>3. InEffect(d)'
      BY <1>1, <1>2, <2>1 DEF InEffect
    <3> QED
      BY <1>1, <3>1, <3>2, <3>3
      DEF Sound, Arguments, Reached, Knows, NamesLookedUp, RowsLoaded, ProductsLoaded
  <2>8. TablesSound'
    BY <2>4, <2>5, <2>6 DEF TablesSound
  <2>9. links' \subseteq Products \X Categories
    BY <1>3, <1>4, <2>1 DEF TypeOK
  <2> QED
    BY <1>1, <1>4, <2>1, <2>3, <2>7, <2>8, <2>9, CommitStep DEF TypeOK
<1> QED
  BY <1>6, <1>7, <1>8

\* Links to one category are deleted; the products that had them are remembered.
LEMMA DeletedLinks ==
    ASSUME CatalogInv, NEW r \in Requests, NEW ps \in SUBSET Products, NEW cs,
           call[r].category \in Categories, DeleteLinks(r, ps, cs)
    PROVE  /\ links' \subseteq Products \X Categories /\ unlinked' \subseteq Products
           /\ \A p \in Products, c \in Categories :
                 <<p, c>> \in links' <=>
                     <<p, c>> \in links /\ (c = call[r].category => p \notin ps)
           /\ BornCategorised'
<1>1. \A p \in Products, c \in Categories :
         <<p, c>> \in links' <=> <<p, c>> \in links /\ (c = call[r].category => p \notin ps)
  BY DEF DeleteLinks
<1>2. links' \subseteq Products \X Categories /\ unlinked' \subseteq Products
  BY DEF DeleteLinks, CatalogInv, TypeOK
<1>3. BornCategorised'
  <2> SUFFICES ASSUME NEW p \in Products, p \notin unlinked', product[p] # NoProduct
               PROVE  \E c \in Categories : <<p, c>> \in links'
    BY DEF DeleteLinks, BornCategorised
  <2>1. PICK c \in Categories : <<p, c>> \in links
    BY DEF DeleteLinks, CatalogInv, TablesSound, BornCategorised
  <2>2. <<p, c>> \in links'
    BY <1>1, <2>1 DEF DeleteLinks
  <2> QED
    BY <2>2
<1> QED
  BY <1>1, <1>2, <1>3

\* remove_product_from_category: an uncrossed call finds the link it has seen.
LEMMA RemoveFromCategoryKeepsInv ==
    ASSUME CatalogInv, NEW r \in Requests, RemoveFromCategory(r)
    PROVE  CatalogInv'
<1> USE CatalogConstants
<1>1. PICK d : d = call[r] /\ d \in Calls /\ Existing(d) /\ Arguments(d) /\ Reached("write", d)
               /\ (d.crossed \/ Knows("write", d)) /\ d.op = "remove_from_category"
  BY Writer DEF RemoveFromCategory, Writes
<1>2. PICK p, c : p = d.product /\ c = d.category
  OBVIOUS
<1>3. /\ p \in Products /\ c \in Categories /\ d.location = None
      /\ d.name = None /\ d.sku = None /\ category[c] # None
  BY <1>1, <1>2 DEF Calls, Arguments, Existing, NameOps, CategoryOps, Unchecked
<1>4. TypeOK
  BY DEF CatalogInv
<1>5. d.crossed \/ (d.loaded = ProductsOf(c) /\ Live(category[c]))
  BY <1>1, <1>2, <1>3 DEF Knows, RowsLoaded, IsThere, CategoryOps
<1>6. CASE p \notin d.loaded
  <2>1. Goto(r, "done")
    BY <1>1, <1>2, <1>6 DEF RemoveFromCategory
  <2>2. d.crossed \/ InEffect(d)
    BY <1>1, <1>2, <1>3, <1>5, <1>6 DEF InEffect, ProductsOf
  <2>3. Sound("done", d)
    BY <1>1, <2>2
    DEF Sound, Reached, Ops, CategoryOps, Knows, NamesLookedUp, RowsLoaded, ProductsLoaded
  <2> QED
    BY <1>1, <2>1, <2>3, GotoKeepsInv DEF PCs, Ended
<1>7. CASE p \in d.loaded /\ IsMissing(r, {p}) /\ Fails(r)
  <2>1. pc[r] = "write"
    BY DEF RemoveFromCategory, Writes
  <2>2. d.crossed
    BY <1>1, <1>2, <1>5, <1>7 DEF IsMissing, ProductsOf
  <2> QED
    BY <1>1, <1>7, <2>1, <2>2, FailsKeepsInv
<1>8. CASE p \in d.loaded /\ DeleteLinks(r, {p}, category)
  <2>1. /\ Commit(r, d)
        /\ UNCHANGED <<category, location, product, stocks, doubled>>
    BY <1>1, <1>8 DEF DeleteLinks
  <2>2. /\ links' \subseteq Products \X Categories /\ unlinked' \subseteq Products
        /\ \A q \in Products, k \in Categories :
              <<q, k>> \in links' <=> <<q, k>> \in links /\ (k = c => q # p)
        /\ BornCategorised'
    <3>1. {p} \in SUBSET Products /\ call[r].category = c /\ call[r].category \in Categories
      BY <1>1, <1>2, <1>3
    <3>2. /\ links' \subseteq Products \X Categories /\ unlinked' \subseteq Products
          /\ \A q \in Products, k \in Categories :
                <<q, k>> \in links' <=>
                    <<q, k>> \in links /\ (k = call[r].category => q \notin {p})
          /\ BornCategorised'
      BY <1>8, <3>1, DeletedLinks
    <3> QED
      BY <3>1, <3>2
  <2>3. c \in Subjects(d)
    BY <1>2, <1>3, SubjectsOf
  <2>4. CommitsOnly(Subjects(d))
    BY <2>1, <2>2, <2>3 DEF CommitsOnly
  <2>5. Attached'
    BY <2>1, <2>2 DEF CatalogInv, TablesSound, Attached
  <2>6. NamesUnique' /\ SkusUnique'
    BY <2>1
    DEF CatalogInv, TablesSound, NamesUnique, LocationsNamed, CategoriesNamed, SkusUnique
  <2>7. Sound("refresh", d)'
    <3>1. Existing(d)'
      BY <1>1, <2>1 DEF Existing
    <3>2. Reached("refresh", d)
      BY <1>1 DEF Reached, Ops, CategoryOps
    <3>3. InEffect(d)'
      BY <1>1, <1>2, <1>3, <2>2 DEF InEffect
    <3>4. d.crossed \/ IsThere(d)'
      BY <1>2, <1>3, <1>5, <2>1 DEF IsThere
    <3> QED
      BY <1>1, <3>1, <3>2, <3>3, <3>4
      DEF Sound, Arguments, Reached, Knows, NamesLookedUp, RowsLoaded, ProductsLoaded
  <2>8. TablesSound'
    BY <2>2, <2>5, <2>6 DEF TablesSound
  <2> QED
    BY <1>1, <1>4, <2>1, <2>2, <2>4, <2>7, <2>8, CommitStep DEF TypeOK
<1> QED
  BY <1>1, <1>2, <1>6, <1>7, <1>8 DEF RemoveFromCategory

\* delete_category: an uncrossed call has loaded the links that are there, and leaves none.
LEMMA DeleteCategoryKeepsInv ==
    ASSUME CatalogInv, NEW r \in Requests, DeleteCategory(r)
    PROVE  CatalogInv'
<1> USE CatalogConstants
<1>1. PICK d : d = call[r] /\ d \in Calls /\ Existing(d) /\ Arguments(d) /\ Reached("write", d)
               /\ (d.crossed \/ Knows("write", d)) /\ d.op = "delete_category"
  BY Writer DEF DeleteCategory, Writes
<1>2. PICK c : c = d.category
  OBVIOUS
<1>3. /\ c \in Categories /\ d.location = None /\ d.loaded \in SUBSET Products
  BY <1>1, <1>2 DEF Calls, Arguments, CategoryOps
<1>4. TypeOK
  BY DEF CatalogInv
<1>5. CASE /\ ~(ProductsOf(c) \subseteq d.loaded) \/ IsMissing(r, d.loaded)
           /\ Fails(r)
  <2>1. pc[r] = "write"
    BY DEF DeleteCategory, Writes
  <2>2. d.crossed
    <3>1. d.crossed \/ d.loaded = ProductsOf(c)
      BY <1>1, <1>2 DEF Knows, RowsLoaded, CategoryOps
    <3> QED
      BY <1>1, <1>2, <1>5, <3>1 DEF IsMissing, ProductsOf
  <2> QED
    BY <1>1, <1>5, <2>1, <2>2, FailsKeepsInv
<1>6. CASE /\ ProductsOf(c) \subseteq d.loaded
           /\ DeleteLinks(r, d.loaded, [category EXCEPT ![c] = Gone])
  <2>1. /\ category' = [category EXCEPT ![c] = Gone]
        /\ Commit(r, d)
        /\ UNCHANGED <<location, product, stocks, doubled>>
    BY <1>1, <1>6 DEF DeleteLinks
  <2>2. /\ \A k \in Categories : category'[k] = IF k = c THEN Gone ELSE category[k]
        /\ category' \in [Categories -> CategoryNames \cup {None, Gone}]
    BY <1>3, <1>4, <2>1 DEF TypeOK
  <2>3. /\ links' \subseteq Products \X Categories /\ unlinked' \subseteq Products
        /\ \A q \in Products, k \in Categories :
              <<q, k>> \in links' <=> <<q, k>> \in links /\ (k = c => q \notin d.loaded)
        /\ BornCategorised'
    <3>1. call[r].category = c /\ call[r].category \in Categories
      BY <1>1, <1>2, <1>3
    <3>2. /\ links' \subseteq Products \X Categories /\ unlinked' \subseteq Products
          /\ \A q \in Products, k \in Categories :
                <<q, k>> \in links' <=>
                    <<q, k>> \in links /\ (k = call[r].category => q \notin d.loaded)
          /\ BornCategorised'
      BY <1>3, <1>6, <3>1, DeletedLinks
    <3> QED
      BY <3>1, <3>2
  <2>4. c \in Subjects(d)
    BY <1>2, <1>3, SubjectsOf
  <2>5. CommitsOnly(Subjects(d))
    BY <2>1, <2>2, <2>3, <2>4 DEF CommitsOnly
  <2>6. Attached'
    BY <1>6, <2>1, <2>2, <2>3 DEF CatalogInv, TablesSound, Attached, ProductsOf
  <2>7. NamesUnique'
    BY <2>1, <2>2
    DEF CatalogInv, TablesSound, NamesUnique, LocationsNamed, CategoriesNamed
  <2>8. SkusUnique'
    BY <2>1 DEF CatalogInv, TablesSound, SkusUnique
  <2>9. Sound("done", d)'
    <3>1. Existing(d)'
      BY <1>1, <1>2, <1>3, <2>1, <2>2 DEF Existing
    <3>2. Reached("done", d)
      BY <1>1 DEF Reached, Ops, CategoryOps
    <3>3. InEffect(d)'
      BY <1>1, <1>2, <1>3, <2>2 DEF InEffect
    <3> QED
      BY <1>1, <3>1, <3>2, <3>3
      DEF Sound, Arguments, Reached, Knows, NamesLookedUp, RowsLoaded, ProductsLoaded
  <2>10. TablesSound'
    BY <2>3, <2>6, <2>7, <2>8 DEF TablesSound
  <2> QED
    BY <1>1, <1>4, <2>1, <2>2, <2>3, <2>5, <2>9, <2>10, CommitStep DEF TypeOK
<1> QED
  BY <1>1, <1>2, <1>5, <1>6 DEF DeleteCategory

-----------------------------------------------------------------------------
(* The invariant holds of every behaviour *)

\* CatalogInv is an inductive invariant.
THEOREM CatalogInvHolds == Spec => []CatalogInv
<1>1. Init => CatalogInv
  BY InitCatalogInv
<1>2. CatalogInv /\ [Next]_vars => CatalogInv'
  <2> SUFFICES ASSUME CatalogInv, [Next]_vars PROVE CatalogInv'
    OBVIOUS
  <2>1. CASE UNCHANGED vars
    <3>1. TypeOK' /\ TablesSound'
      BY <2>1
      DEF vars, tables, CatalogInv, TypeOK, TablesSound, Attached, SkusUnique, NamesUnique,
          BornCategorised, CategoriesNamed, LocationsNamed
    <3>2. ASSUME NEW r \in Requests PROVE Sound(pc[r], call[r])'
      <4>1. Sound(pc[r], call[r])
        BY DEF CatalogInv
      <4>2. UNCHANGED tables /\ UNCHANGED doubled /\ pc'[r] = pc[r] /\ call'[r] = call[r]
        BY <2>1 DEF vars
      <4> QED
        BY <4>1, <4>2, SoundOfTables
    <3> QED
      BY <3>1, <3>2 DEF CatalogInv
  <2>2. ASSUME NEW r \in Requests, Step(r) PROVE CatalogInv'
    <3>1. CASE BeginCatalogCall(r) \/ BeginProductCall(r) \/ BeginLocationCall(r)
      BY <3>1, BeginningKeepsInv
    <3>2. CASE CheckName(r)
      BY <3>2, CheckNameKeepsInv
    <3>3. CASE CheckSku(r)
      BY <3>3, CheckSkuKeepsInv
    <3>4. CASE Load(r)
      BY <3>4, LoadKeepsInv
    <3>5. CASE CheckStock(r)
      BY <3>5, CheckStockKeepsInv
    <3>6. CASE Refresh(r)
      BY <3>6, RefreshKeepsInv
    <3>7. CASE InsertCategory(r)
      BY <3>7, InsertCategoryKeepsInv
    <3>8. CASE DeleteCategory(r)
      BY <3>8, DeleteCategoryKeepsInv
    <3>9. CASE AddToCategory(r)
      BY <3>9, AddToCategoryKeepsInv
    <3>10. CASE RemoveFromCategory(r)
      BY <3>10, RemoveFromCategoryKeepsInv
    <3>11. CASE InsertLocation(r)
      BY <3>11, InsertLocationKeepsInv
    <3>12. CASE SaveLocation(r)
      BY <3>12, SaveLocationKeepsInv
    <3>13. CASE DeleteLocation(r)
      BY <3>13, DeleteLocationKeepsInv
    <3>14. CASE InsertStock(r)
      BY <3>14, InsertStockKeepsInv
    <3>15. CASE InsertProduct(r)
      BY <3>15, InsertProductKeepsInv
    <3>16. CASE SaveProduct(r)
      BY <3>16, SaveProductKeepsInv
    <3> QED
      BY <2>2, <3>1, <3>2, <3>3, <3>4, <3>5, <3>6, <3>7, <3>8, <3>9, <3>10, <3>11, <3>12,
         <3>13, <3>14, <3>15, <3>16 DEF Step
  <2> QED
    BY <2>1, <2>2 DEF Next
<1> QED
  BY <1>1, <1>2, PTL DEF Spec

\* Every row has its type, a deleted category has no products and a deleted location no
\* stock, whichever calls race.
THEOREM NothingRefersToWhatIsGone == Spec => []NothingDangles
<1>1. CatalogInv => NothingDangles
  BY DEF CatalogInv, TablesSound, Attached, NothingDangles
<1> QED
  BY <1>1, CatalogInvHolds, PTL

\* Two categories, or two locations, have one name only if the calls that wrote it crossed.
THEOREM OnlyCrossedCallsShareNames == Spec => []NamesakesCrossed
<1>1. CatalogInv => NamesakesCrossed
  BY OneAtMost DEF CatalogInv, TablesSound, NamesUnique, NamesakesCrossed
<1> QED
  BY <1>1, CatalogInvHolds, PTL

\* A product without a category has been taken out of one.
THEOREM ProductsAreBornCategorised == Spec => []BornCategorised
<1>1. CatalogInv => BornCategorised
  BY DEF CatalogInv, TablesSound
<1> QED
  BY <1>1, CatalogInvHolds, PTL

\* A call ends in an unhandled error only if another on the same thing overtook it, if
\* its name is one that two crossed calls have written, or if it adds to a category, or
\* opens stock of, a product that does not exist: nobody looks, and the tables refuse it.
THEOREM ErrorsAreExplained == Spec => []ErrorsExplained
<1>1. CatalogInv => ErrorsExplained
  BY DEF CatalogInv, Sound, ErrorsExplained
<1> QED
  BY <1>1, CatalogInvHolds, PTL

\* What a call was told is done stays in effect until another on the same thing commits.
THEOREM WhatIsDoneIsInEffect == Spec => []DoneIsDone
<1>1. CatalogInv => DoneIsDone
  BY DEF CatalogInv, Sound, Knows, DoneIsDone
<1> QED
  BY <1>1, CatalogInvHolds, PTL
=============================================================================
