\* A field of Page whose type is Catalog.Item, while Page has its own
\* nested Item that is a key/value entry.
CONSTANTS
    Page = Page
    PageItem = PageItem
    IndexEntry = IndexEntry
    Catalog = Catalog
    CatalogItem = CatalogItem
    Kind = Kind
    Missing = Missing
    Types = {Page, PageItem, IndexEntry, Catalog, CatalogItem, Kind}
    Undeclared = {Missing}
    Scalars = {"string"}
    Owners = {Page, Catalog}
    Short <- MCShort
    Nested <- MCNested
    FieldsOf <- MCFieldsOfFeatured
SPECIFICATION Spec
INVARIANT
    FieldHasNamedType
