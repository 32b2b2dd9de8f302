SPECIFICATION FairSpec
CONSTANTS
    app = app
    one = one
    two = two
    nav = nav
    pshare = pshare
    App = app
    Workers = {one, two}
    Topics = {nav, pshare}
    Global = {pshare}
    Limit = 2
    MaxPosts = 5
INVARIANTS TypeOK PublishedInOrder UnsentInOrder Bounded PostNeverThrows
PROPERTIES CloseReturnsEventually WaitReturns
