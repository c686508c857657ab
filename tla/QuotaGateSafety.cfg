SPECIFICATION Spec
CONSTANTS
    Requests = {r1, r2, r3}
    Kinds = {"native", "access"}
    Limit = 4
    Rows <- MCRows
    Rules <- MCRules
    Details <- MCDetails
    MaxBill <- MCMaxBill
    NoRow = NoRow
    NoCall = NoCall
SYMMETRY Symmetry
INVARIANTS
    OverrunBounded
PROPERTIES
    BillIsExact
