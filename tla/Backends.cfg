SPECIFICATION MCSpec
CONSTANTS
    None = None  AnyEtag = AnyEtag  Keys = {k1, k2}  Clients = {c1, c2}  Etags = {e1}  MaxFaults = 1
    storage = storage  search = search  small = small  large = large
    Subjects = {"ready", "provision", "s3", "search", "embed", "vectors", "health"}
INVARIANTS ServesWhatIsReady WritesSayWhatTheyDid 
SYMMETRY MCSymmetry
CHECK_DEADLOCK FALSE
