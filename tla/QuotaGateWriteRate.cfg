SPECIFICATION Spec
CONSTANTS
    Requests = {r1}
    Kinds = {"access"}
    Limit = 4
    Rows <- MCRows
    Rules <- MCRules
    Details <- MCDetails
    MaxBill <- MCMaxBill
    NoRow = NoRow
    NoCall = NoCall
PROPERTY AliasRatesBilled
