SPECIFICATION FileSpec
CONSTANTS
    Writers = {"w1", "w2"}
    Contents = {1, 2}
    NoFile = NoFile
    Torn = Torn
INVARIANTS FileTypeOK TornNeedsTrouble SerialDurable
