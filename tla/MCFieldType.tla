---------------------------- MODULE MCFieldType ----------------------------
(***************************************************************************)
(* A proto file of package p:                                              *)
(*   message Page {                                                        *)
(*     message Item { string key = 1; string value = 2; }                 *)
(*     repeated Item items = 1;                                            *)
(*     map<string, Catalog.Item> index = 2;     // nested IndexEntry       *)
(*     repeated Kind kinds = 3;                                            *)
(*     Missing gone = 4;                                                   *)
(*     Catalog.Item featured = 5;                                          *)
(*   }                                                                     *)
(*   message Catalog { message Item { string sku = 1; }                   *)
(*                     repeated Item items = 1; }                          *)
(*   enum Kind { ... }                                                     *)
(* Page.Item and Catalog.Item share the short name Item.                   *)
(***************************************************************************)
EXTENDS FieldType

CONSTANTS Page, PageItem, IndexEntry, Catalog, CatalogItem, Kind, Missing

F(name, label, kind, type) ==
    [name |-> name, label |-> label, kind |-> kind, typeName |-> type]

MCShort ==
    (Page :> "Page") @@ (PageItem :> "Item") @@ (IndexEntry :> "IndexEntry")
    @@ (Catalog :> "Catalog") @@ (CatalogItem :> "Item") @@ (Kind :> "Kind")
    @@ (Missing :> "Missing")

MCNested ==
    (Page :> <<PageItem, IndexEntry>>) @@ (Catalog :> <<CatalogItem>>)
    @@ [t \in {PageItem, IndexEntry, CatalogItem, Kind} |-> <<>>]

PageFields ==
    << F("items", "repeated", "message", PageItem),
       F("index", "repeated", "message", IndexEntry),
       F("kinds", "repeated", "enum", Kind),
       F("gone", "optional", "message", Missing) >>

MCFieldsOf ==
    (Page :> PageFields)
    @@ (PageItem :> << F("key", "optional", "string", NoName),
                       F("value", "optional", "string", NoName) >>)
    @@ (IndexEntry :> << F("key", "optional", "string", NoName),
                         F("value", "optional", "message", CatalogItem) >>)
    @@ (Catalog :> << F("items", "repeated", "message", CatalogItem) >>)
    @@ (CatalogItem :> << F("sku", "optional", "string", NoName) >>)
    @@ (Kind :> <<>>)

\* Page with the field whose type is Catalog's nested Item.
MCFieldsOfFeatured ==
    [MCFieldsOf EXCEPT ![Page] =
        Append(PageFields, F("featured", "optional", "message", CatalogItem))]
=============================================================================
