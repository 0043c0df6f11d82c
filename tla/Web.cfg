\* Listings, previews and searches of small remotes, and the links between their pages.
CONSTANTS
    Cases <- MCCases
    NotANumber = NotANumber
    MaxInt = 120
    MinPrefixLen = 2
    MaxPrefixLen = 3
SPECIFICATION Spec
INVARIANTS
    LinksLead
    OfferedOpens
    OnlyTwinsShare
    ListingIsNatural
    ListingDetermined
    SearchFindsExactly
    BestFirst
